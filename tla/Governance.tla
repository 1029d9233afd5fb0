----------------------------- MODULE Governance -----------------------------
(***************************************************************************)
(* Proposals as GovService shows them: the tally with percentages and the  *)
(* turnout, computed from two answers of the indexer that are read one     *)
(* after the other while people vote and the bonded tokens change.         *)
(*                                                                         *)
(* A percentage is in hundredths of a percent: what toFixed(2) prints.     *)
(***************************************************************************)
EXTENDS Integers, Sequences, SequencesExt

CONSTANTS
    Powers,         \* voting power of a vote, in tokens
    Options,        \* keys of a tally in the order of the indexer's JSON
    Bonds,          \* values of pool.bonded_tokens
    MaxVotes        \* bound on the votes

\* Voting power is a number of tokens, and a chain that runs has bonded ones.
GovernanceAssumption ==
    Powers \subseteq Nat /\ Bonds \subseteq Nat \ {0} /\ MaxVotes \in Nat

VARIABLES
    proposal,   \* external: what the indexer says of the proposal
    bonded,     \* external: pool.bonded_tokens
    votes,      \* number of votes so far
    page        \* the answer of getProposals or getProposalById

vars == <<proposal, bonded, votes, page>>

Keys == {Options[i] : i \in 1..Len(Options)}
NoTally == [k \in Keys |-> 0]
NoPage == [read |-> "nothing", proposal |-> [status |-> "", tally |-> NoTally, final |-> NoTally],
           bonded |-> 0]

TypeOK ==
    /\ proposal \in [status : {"VOTING_PERIOD", "PASSED", "REJECTED"},
                     tally : [Keys -> Nat], final : [Keys -> Nat]]
    /\ bonded \in Bonds
    /\ votes \in 0..MaxVotes
    /\ page.read \in {"nothing", "proposals", "proposal", "network"}

Init ==
    /\ proposal = [status |-> "VOTING_PERIOD", tally |-> NoTally, final |-> NoTally]
    /\ bonded \in Bonds
    /\ votes = 0
    /\ page = NoPage

-----------------------------------------------------------------------------
(* External: voters and the chain. *)

Sum(tally) == FoldSeq(+, 0, [i \in 1..Len(Options) |-> tally[Options[i]]])

Vote(key, power) ==
    /\ proposal.status = "VOTING_PERIOD" /\ votes < MaxVotes
    /\ Sum(proposal.tally) + power <= bonded
    /\ proposal' = [proposal EXCEPT !.tally[key] = @ + power]
    /\ votes' = votes + 1
    /\ UNCHANGED <<bonded, page>>

EndVoting ==
    /\ proposal.status = "VOTING_PERIOD"
    /\ proposal' = [proposal EXCEPT !.final = proposal.tally,
                                    !.status = IF proposal.tally["yes"] > proposal.tally["no"]
                                               THEN "PASSED" ELSE "REJECTED"]
    /\ UNCHANGED <<bonded, votes, page>>

ChangeBonded ==
    /\ bonded' \in Bonds
    /\ UNCHANGED <<proposal, votes, page>>

-----------------------------------------------------------------------------
(* Requests. *)

\* mapProposal of one of the proposals
GetProposals ==
    /\ page = NoPage
    /\ page' = [NoPage EXCEPT !.read = "proposals", !.proposal = proposal]
    /\ UNCHANGED <<proposal, bonded, votes>>

\* getProposalById: getProposal, then getNetwork
GetProposalById ==
    /\ page = NoPage
    /\ page' = [NoPage EXCEPT !.read = "proposal", !.proposal = proposal]
    /\ UNCHANGED <<proposal, bonded, votes>>
GetNetwork ==
    /\ page.read = "proposal"
    /\ page' = [page EXCEPT !.read = "network", !.bonded = bonded]
    /\ UNCHANGED <<proposal, bonded, votes>>

Answer ==
    /\ page.read \in {"proposals", "network"}
    /\ page' = NoPage
    /\ UNCHANGED <<proposal, bonded, votes>>

Next ==
    \/ \E key \in Keys, power \in Powers : Vote(key, power)
    \/ EndVoting \/ ChangeBonded
    \/ GetProposals \/ GetProposalById \/ GetNetwork \/ Answer

Spec == Init /\ [][Next]_vars

-----------------------------------------------------------------------------
(* What an answer says. *)

\* getPercentage, with toFixed(2) of a quotient that is not on a half
GetPercentage(value, total) ==
    IF value = 0 THEN 0 ELSE (2 * 10000 * value + total) \div (2 * total)

\* default to final_tally_result
TallyOf(p) == IF p.status = "VOTING_PERIOD" THEN p.tally ELSE p.final

MutantMostVoted(tally) ==
    FoldLeft(LAMBDA best, k : IF tally[k] > tally[Options[1]] THEN k ELSE best, Options[1], Options)

\* the first key, unless a later one has more
MostVoted(tally) ==
    FoldLeft(LAMBDA best, k : IF tally[k] > tally[best] THEN k ELSE best, Options[1], Options)

CalculateProposalTally(p) ==
    LET tally == TallyOf(p)
    IN  [percent |-> [k \in Keys |-> GetPercentage(tally[k], Sum(tally))],
         mostVotedOn |-> MostVoted(tally)]

MutantTurnout(p, total) ==
    LET tally == TallyOf(p)
        voted == tally["yes"] + tally["no"] + tally["no_with_veto"]
    IN  [voted |-> voted, votedAbstain |-> tally["abstain"], didNotVote |-> total - voted,
         percent |-> <<GetPercentage(voted, total), GetPercentage(tally["abstain"], total),
                       GetPercentage(total - voted, total)>>]

CalculateProposalTurnout(p, total) ==
    LET tally == TallyOf(p)
        voted == tally["yes"] + tally["no"] + tally["no_with_veto"]
        notVoted == total - voted - tally["abstain"]
    IN  [voted |-> voted, votedAbstain |-> tally["abstain"], didNotVote |-> notVoted,
         percent |-> <<GetPercentage(voted, total), GetPercentage(tally["abstain"], total),
                       GetPercentage(notVoted, total)>>]

\* an item of getProposals
MapProposal(p) == [status |-> p.status, tally |-> CalculateProposalTally(p)]

\* the answer of getProposalById
ProposalDetail(p, total) ==
    [status |-> p.status, tally |-> CalculateProposalTally(p),
     turnout |-> CalculateProposalTurnout(p, total)]

-----------------------------------------------------------------------------

Near100(percents) == FoldSeq(+, 0, percents) \in 9998..10002

\* The percentages of a tally add up to 100, up to rounding, or are all 0 when
\* nobody voted; the option named as most voted is one that nothing exceeds, with
\* ties, zero votes and in every state of the vote.
TallyAddsUp ==
    page.read # "nothing" =>
        LET shown == MapProposal(page.proposal).tally
            percents == [i \in 1..Len(Options) |-> shown.percent[Options[i]]]
        IN  /\ Near100(percents) \/ \A k \in Keys : shown.percent[k] = 0
            /\ \A k \in Keys : shown.percent[k] <= shown.percent[shown.mostVotedOn]

\* Votes cast are shown: an answer given while nobody votes any more has the tally
\* the proposal has, and its turnout accounts for all bonded tokens if their number
\* is not below what was voted when it is read.
TurnoutIsComplete ==
    page.read = "network" /\ Sum(TallyOf(page.proposal)) <= page.bonded =>
        LET shown == ProposalDetail(page.proposal, page.bonded).turnout
        IN  /\ shown.voted + shown.votedAbstain = Sum(page.proposal.tally)
            /\ Near100(shown.percent)
=============================================================================
