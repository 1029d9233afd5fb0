------------------------------ MODULE MCSigning ------------------------------
(* A safe that only the chain knows when the first request arrives.             *)
EXTENDS Signing, TLC

AllChains == {[kind |-> "cosmos", coinDecimals |-> 6, prefix |-> "aura"],
              [kind |-> "ethermint", coinDecimals |-> 18, prefix |-> "evmos"]}
Absent == {[accountNumber |-> Undefined, nextQueueSeq |-> Undefined]}
OnChain == [number |-> 5, sequence |-> 1]
SomeBodies == {<<[type |-> "send", amounts |-> <<1>>]>>}
SomeFees == {<<[denom |-> "own", amount |-> 1]>>}
=============================================================================
