----------------------------- MODULE DeviceQueues -----------------------------
(***************************************************************************)
(* Queue families of a device (PrivateDevice's constructor, device.cpp):   *)
(* one pass over the families picks one for each operation, then queues    *)
(* are requested and fetched.                                              *)
(***************************************************************************)
EXTENDS Naturals, Sequences, FiniteSetsExt

CONSTANTS Ops,          \* graphics, compute, transfer
    Graphics, MaxFamilies, MaxQueues    \* bounds: families, queues of one

VARIABLES
    families,   \* what the driver reports: sequence of [ops, queues]
    index, best,    \* the pass: next family, most operations of one so far
    chosen,     \* per operation its family, 0 while there is none
    phase,      \* "scan", "create", "fetch", "ready"
    requested,  \* per family the number of queues asked for
    fetched     \* queues fetched: <<family, number>>

vars == <<families, index, best, chosen, phase, requested, fetched>>

Init ==
    /\ families \in UNION {[1..n -> [ops : SUBSET Ops, queues : 1..MaxQueues]] : n \in 0..MaxFamilies}
    /\ index = 1 /\ best = 0 /\ chosen = [o \in Ops |-> 0] /\ phase = "scan"
    /\ requested = [f \in DOMAIN families |-> 0] /\ fetched = {}

\* A family serves what nothing serves yet, and everything it supports when it
\* supports more than any before.
Takes(f, o) == o \in families[f].ops /\ (chosen[o] = 0 \/ Cardinality(families[f].ops) > best)
NewBest(f) == Max({best, Cardinality(families[f].ops)})
scan ==
    /\ phase = "scan" /\ index <= Len(families)
    /\ chosen' = [o \in Ops |-> IF Takes(index, o) THEN index ELSE chosen[o]]
    /\ best' = NewBest(index)
    /\ IF families[index].ops = Ops THEN phase' = "create" /\ UNCHANGED index
       ELSE index' = index + 1 /\ UNCHANGED phase
    /\ UNCHANGED <<families, requested, fetched>>
endScan ==
    /\ phase = "scan" /\ index > Len(families) /\ phase' = "create"
    /\ UNCHANGED <<families, index, best, chosen, requested, fetched>>

\* The swapchain presenter gets a second queue of the graphics family.
separatePresentQueue == chosen[Graphics] # 0 /\ families[chosen[Graphics]].queues >= 2
Used == {chosen[o] : o \in Ops} \ {0}
createDevice ==
    /\ phase = "create" /\ phase' = "fetch"
    /\ requested' = [f \in DOMAIN families |->
         IF f \notin Used THEN 0 ELSE IF separatePresentQueue /\ f = chosen[Graphics] THEN 2 ELSE 1]
    /\ UNCHANGED <<families, index, best, chosen, fetched>>
getQueues ==
    /\ phase = "fetch" /\ phase' = "ready"
    /\ fetched' = {<<f, 0>> : f \in Used} \cup (IF separatePresentQueue THEN {<<chosen[Graphics], 1>>} ELSE {})
    /\ UNCHANGED <<families, index, best, chosen, requested>>

Next == scan \/ endScan \/ createDevice \/ getQueues
Spec == Init /\ [][Next]_vars

-----------------------------------------------------------------------------
\* Every operation some family supports has a family that supports it.
OperationsServed ==
    phase # "scan" => \A o \in Ops :
        IF \E f \in DOMAIN families : o \in families[f].ops THEN chosen[o] # 0 /\ o \in families[chosen[o]].ops
        ELSE chosen[o] = 0

\* No other choice uses fewer families.
FewestFamilies ==
    phase = "ready" => \A fs \in SUBSET DOMAIN families :
        UNION {families[f].ops : f \in fs} = UNION {families[f].ops : f \in DOMAIN families} => Cardinality(Used) <= Cardinality(fs)

\* No family is asked for more queues than it has, and no queue is fetched
\* that was not asked for.
QueuesExist ==
    /\ \A f \in DOMAIN families : requested[f] <= families[f].queues
    /\ \A q \in fetched : q[2] < requested[q[1]]

Safety == OperationsServed /\ FewestFamilies /\ QueuesExist
=============================================================================
