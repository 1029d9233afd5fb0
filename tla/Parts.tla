------------------------------- MODULE Parts -------------------------------
(***************************************************************************)
(* Four of the components of Services: signatures and assembly, messages   *)
(* and amounts, governance, and the table of chains.  They share no state  *)
(* either and take the same variables in turn, so that PartsProofs can     *)
(* prove about them without the rest of Services in the context.           *)
(***************************************************************************)
EXTENDS Integers, FiniteSets, Sequences

CONSTANTS None, Null, Undefined, Doubles, MaxSafe

CONSTANTS       \* signatures and assembly
    KeyOwners, SigningThreshold, SigningChains, SafeRows, Account, Balance, SignedBodies,
    Fees, Seqs, Asks

CONSTANTS       \* messages and amounts
    MovingBodies, Rewards

CONSTANTS       \* governance
    Powers, Bonds, MaxVotes

CONSTANTS       \* chains
    Instances, Files, GasOf, Explored

VARIABLES v1, v2, v3, v4, v5, v6

-----------------------------------------------------------------------------

Sign == INSTANCE Signing WITH
    chain <- v1, safe <- v2, tx <- v3, confirms <- v4, creating <- v5, sent <- v6,
    Owners <- KeyOwners, Threshold <- SigningThreshold, Chains <- SigningChains,
    Bodies <- SignedBodies

Money == INSTANCE TxMessages WITH
    tx <- v1, auraTxs <- v2, messages <- v3, paid <- v4, page <- v5, Bodies <- MovingBodies

\* the keys of final_tally_result and tally, in the order of the indexer
TallyKeys == <<"yes", "abstain", "no", "no_with_veto">>

Gov == INSTANCE Governance WITH
    proposal <- v1, bonded <- v2, votes <- v3, page <- v4,
    Options <- TallyKeys

Table == INSTANCE Catalog WITH
    file <- v1, table <- v2, boot <- v3, overlapped <- v4, networks <- v5, request <- v6

\* What the components assume of their constants.
ASSUME PartsAssumption ==
    /\ Sign!SigningAssumption
    /\ Money!TxMessagesAssumption
    /\ Gov!GovernanceAssumption
    /\ Table!CatalogAssumption
=============================================================================
