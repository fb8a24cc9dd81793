------------------------------ MODULE SampleMap ------------------------------
(***************************************************************************)
(* What the sample registry promises its callers: one shared map from      *)
(* sample ids to samples, changed one entry at a time, and readers that    *)
(* each answer from the map as it was at one instant of their call.        *)
(***************************************************************************)
CONSTANTS
    Ids,        \* the sample ids
    Samples,    \* what can be registered under an id
    NoSample,   \* the id is not registered
    Threads,    \* the threads that hold the registry
    NoView      \* the thread is not reading

VARIABLES
    map,        \* the samples registered now
    view        \* the map each reader answers from

Maps == [Ids -> Samples \cup {NoSample}]

Init ==
    /\ map = [i \in Ids |-> NoSample]
    /\ view = [t \in Threads |-> NoView]

\* register, register_with_metadata and remove: one entry, at one instant.
Put(i, s) ==
    /\ map' = [map EXCEPT ![i] = s]
    /\ UNCHANGED view

\* get and list_ids: the answer is fixed here ...
Look(t) ==
    /\ view[t] = NoView
    /\ view' = [view EXCEPT ![t] = map]
    /\ UNCHANGED map

\* ... and given here, from the same map.
Answer(t) ==
    /\ view[t] # NoView
    /\ view' = [view EXCEPT ![t] = NoView]
    /\ UNCHANGED map

\* The registry is dropped: nobody reads it and its samples go with it.
Drop ==
    /\ \A t \in Threads : view[t] = NoView
    /\ map' = [i \in Ids |-> NoSample]
    /\ UNCHANGED view

Next ==
    \/ \E i \in Ids, s \in Samples \cup {NoSample} : Put(i, s)
    \/ \E t \in Threads : Look(t) \/ Answer(t)
    \/ Drop

Spec == Init /\ [][Next]_<<map, view>>
=============================================================================
