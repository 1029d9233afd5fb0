----------------------------- MODULE MCServices -----------------------------
(* The components of Services on small instances of each.                       *)
EXTENDS Services

CONSTANTS o1, o2, o3

TwoOwners == {o1, o2}
ThreeOwners == {o1, o2, o3}

\* A chain of each family and one whose coinDecimals and prefix disagree; the safe
\* not in the table, or there with its account number and its next sequence.
AllChains ==
    {[kind |-> "cosmos", coinDecimals |-> 6, prefix |-> "aura"],
     [kind |-> "ethermint", coinDecimals |-> 18, prefix |-> "evmos"],
     [kind |-> "ethermint", coinDecimals |-> 18, prefix |-> "inj"]}
\* Doubles with a mantissa of three bits.
SomeDoubles == 0..8 \union {10, 12, 14, 16} \union {20, 24, 28, 32}
KnownSafes == {[accountNumber |-> Undefined, nextQueueSeq |-> Undefined],
               [accountNumber |-> 5, nextQueueSeq |-> 1]}
OnChain == [number |-> 5, sequence |-> 1]
Coins(type, amounts) == [type |-> type, amounts |-> amounts]
SomeSignedBodies == {<<Coins("send", <<1, 9>>), Coins("vote", <<>>)>>, <<Coins("multisend", <<1, 2>>)>>}
SomeFees == {<<[denom |-> "own", amount |-> 1]>>, <<[denom |-> "other", amount |-> 1]>>}
SomeAsks == {Undefined, 0, 2}

\* Several coins, outputs, validators, and withdrawals next to staking messages.
Msg(type, amounts, validator) == [type |-> type, amounts |-> amounts, validator |-> validator]
SomeMovingBodies ==
    {<<Msg("send", <<3, 9>>, "none")>>,
     <<Msg("multisend", <<1, 2>>, "none"), Msg("vote", <<>>, "none")>>,
     <<Msg("delegate", <<2>>, "a"), Msg("withdraw", <<>>, "a"), Msg("withdraw", <<>>, "b")>>,
     <<Msg("redelegate", <<1>>, "a"), Msg("send", <<7>>, "none")>>,
     <<Msg("send", <<9>>, "none"), Msg("undelegate", <<8>>, "b")>>,
     <<Msg("withdraw", <<>>, "b"), Msg("undelegate", <<4>>, "b")>>}

SomeProposals == {[id |-> 1, chain |-> "A", start |-> 0, end |-> 3],
                  [id |-> 1, chain |-> "B", start |-> 0, end |-> 2],
                  [id |-> 3, chain |-> "A", start |-> 1, end |-> 3]}

\* A chain is added in front of another.
Aura == [chainId |-> "A", prefix |-> "aura"]
Evmos == [chainId |-> "B", prefix |-> "evmos"]
ChainFiles == {<<Aura>>, <<Evmos, Aura>>}
Gas == [c \in {"A", "B"} |-> IF c = "A" THEN {"send"} ELSE {}]

SomeAddresses == <<"ann", "ann", "bob">>
SomeIdentities == <<"i", "j", "none">>
SomeBalances == {{}, {"9"}}
=============================================================================
