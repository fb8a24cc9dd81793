--------------------------- MODULE SidecarSupervision ---------------------------
(***************************************************************************)
(* Out-of-process effects.  A sidecar is a child process that shares       *)
(* memory segments with a SidecarProcessor playing at a node of the graph. *)
(* The conductor loads sidecars (HotLoadSidecar) and supervises them in    *)
(* every tick: a child that exited, that ran out of memory, or whose       *)
(* heartbeat stood still for five seconds, is started again up to          *)
(* MaxRestarts times; after 200 ms a FallbackProcessor takes its node.  A  *)
(* child beats once for every block it is notified of, so a sidecar whose  *)
(* processor does not play is silent, unless another child beats for it.   *)
(*                                                                         *)
(* Segments are found by names made of the plugin's name: the conductor    *)
(* takes the name over when it creates them, the child opens it after it   *)
(* was started, and the last owner of a segment removes the name, whoever  *)
(* has it by then: a child may find the segments of a later instance.      *)
(* One instance stands for a spawned child, its handle, its segments and   *)
(* its processor.                                                          *)
(*                                                                         *)
(* Handles are pushed to the end of their list when they are spawned, and  *)
(* instances are numbered in that order: a list of handles, and what a     *)
(* pass over it collects, is a set of instances, the first one the least.  *)
(***************************************************************************)
EXTENDS Integers, Sequences, FiniteSets

CONSTANTS
    Nodes,         \* nodes of the graph that are loaded with sidecars
    Plugins,       \* names of plugins
    MaxRestarts,   \* 5 in the code
    Quota,         \* how many sidecars the memory limit has room for
    RingCap,       \* size of the topology ring
    MaxLoads,      \* bound: HotLoadSidecar commands
    MaxSpawns,     \* bound: spawns that succeed; later ones fail
    None, Fallback \* nothing; a FallbackProcessor

Instances == 1 .. MaxSpawns

ASSUME SidecarAssumption ==
    /\ MaxRestarts \in Nat /\ Quota \in Nat /\ RingCap \in Nat \ {0}
    /\ MaxLoads \in Nat /\ MaxSpawns \in Nat
    /\ None \notin Instances /\ Fallback \notin Instances /\ None # Fallback

VARIABLES
    sidecar,       \* what became of each instance spawned so far
    handles,       \* active_sidecars, by their instances
    usage,         \* current_memory_usage_bytes, in sidecars
    named,         \* the instance whose segments the names of a plugin lead to
    ring,          \* SwapProcessor mutations on their way to the audio thread
    playing,       \* the processor at each node
    phase,         \* where the tick is: idle, first supervise(), stalled, second
    toRestart,     \* to_restart, the instances that leave the list
    recovered,     \* the new processors supervise() returns
    stalled,       \* the instances whose nodes list_stalled_nodes() returned
    loads          \* bound: loads so far

tickVars == <<phase, toRestart, recovered, stalled>>
vars == <<sidecar, handles, usage, named, ring, playing, tickVars, loads>>

Spawned == 1 .. Len(sidecar)

First(S) == CHOOSE i \in S : \A j \in S : i <= j

Init ==
    /\ sidecar = <<>> /\ handles = {} /\ usage = 0
    /\ named = [p \in Plugins |-> None]
    /\ ring = <<>>
    /\ playing = [n \in Nodes |-> None]
    /\ phase = "idle"
    /\ toRestart = {} /\ recovered = {} /\ stalled = {}
    /\ loads = 0

-----------------------------------------------------------------------------
\* The child of j writes the heartbeat of the segments of i: it found them under
\* their name, lives, and is notified by its own processor, which plays.
BeatsFor(j, i) ==
    /\ sidecar[j].child = "up" /\ sidecar[j].attached = i
    /\ playing[sidecar[j].node] = j

\* Some child does: the heartbeat does not tell whose.
Beats(i) == \E j \in Spawned : BeatsFor(j, i)

Listed(i) == i \in handles

Becomes(i, s) == sidecar' = [sidecar EXCEPT ![i] = s]

\* A spawned sidecar.  attached is the instance whose segments the child writes, None
\* before it opened them and when it hangs or is dead.  last_heartbeat_version is 0
\* and the segment starts with the protocol version, so the first look finds a beat.
NewSidecar(p, n, restarts, proc) ==
    [plugin |-> p, node |-> n, restarts |-> restarts, status |-> "Running",
     child |-> "starting", attached |-> None, beat |-> TRUE, age |-> "fresh",
     proc |-> proc]

HasQuota == usage + 1 <= Quota
HasRoom == Len(ring) < RingCap

\* Mutated form: what a failed spawn had reserved stays reserved.
SpawnFailsReserved(p) ==
    /\ named' = [named EXCEPT ![p] = None]
    /\ usage' = usage + 1
    /\ UNCHANGED <<sidecar, handles>>

\* spawn_sidecar without success: no quota; or a segment or the child could not be
\* created, and the segments made so far are dropped again.
SpawnFails(p) ==
    /\ named' \in IF HasQuota THEN {[named EXCEPT ![p] = None]} ELSE {named}
    /\ UNCHANGED <<sidecar, handles, usage>>

SpawnSucceeds(p, n, restarts, proc) ==
    /\ HasQuota /\ Len(sidecar) < MaxSpawns
    /\ sidecar' = Append(sidecar, NewSidecar(p, n, restarts, proc))
    /\ handles' = handles \cup {Len(sidecar) + 1}
    /\ usage' = usage + 1
    /\ named' = [named EXCEPT ![p] = Len(sidecar) + 1]

\* HotLoadSidecar.  A processor the ring has no room for is dropped.
HotLoad(p, n) ==
    /\ phase = "idle" /\ loads < MaxLoads
    /\ loads' = loads + 1
    /\ \/ SpawnFails(p) /\ UNCHANGED ring
       \/ /\ SpawnSucceeds(p, n, 0, IF HasRoom THEN "held" ELSE "freed")
          /\ ring' = IF HasRoom
                     THEN Append(ring, [node |-> n, proc |-> Len(sidecar) + 1])
                     ELSE ring
    /\ UNCHANGED <<playing, tickVars>>

-----------------------------------------------------------------------------
(***************************************************************************)
(* A tick: supervise() of the manager, then that of the conductor's        *)
(* supervisor - stalled nodes, and the manager's once more -, and in the   *)
(* end the garbage of the audio thread.                                    *)
(***************************************************************************)
TimedOut(i) == sidecar[i].age = "5s"

\* exited || timed_out || oom_happened.
Failed(i, oom) == sidecar[i].child = "dead" \/ TimedOut(i) \/ i \in oom

\* Bypassed and crashed handles stay in the list untouched.
Watched(i) == Listed(i) /\ sidecar[i].status = "Running"

MayRestart(i) == sidecar[i].restarts < MaxRestarts

\* Mutated form: looking at a heartbeat starts its time anew.
SupervisedAfresh(i, oom) ==
    LET s == sidecar[i]
        status == IF ~Failed(i, oom) THEN "Running"
                  ELSE IF MayRestart(i) THEN "Restarting" ELSE "Crashed"
    IN [s EXCEPT !.status = status,
                 !.child = IF TimedOut(i) THEN "dead" ELSE @,
                 !.attached = IF TimedOut(i) THEN None ELSE @,
                 !.beat = FALSE,
                 !.age = "fresh"]

\* What supervise() makes of a handle: a child that timed out is killed, one whose
\* group was out of memory may live on beside the new one.  Only then the heartbeat
\* is looked at; once a handle left the running ones its beats and its age tell
\* nobody anything and are forgotten.
Supervised(i, oom) ==
    LET s == sidecar[i]
        status == IF ~Failed(i, oom) THEN "Running"
                  ELSE IF MayRestart(i) THEN "Restarting" ELSE "Crashed"
    IN [s EXCEPT !.status = status,
                 !.child = IF TimedOut(i) THEN "dead" ELSE @,
                 !.attached = IF TimedOut(i) THEN None ELSE @,
                 !.beat = FALSE,
                 !.age = IF s.beat \/ status # "Running" THEN "fresh" ELSE @]

\* The pass over all handles.  oom are those whose group counts a kill their handle has
\* not seen: the group has the plugin's name, and the kill may be of any child of the
\* plugin, even of one that was gone before the handle was made.  Those to be restarted
\* leave the list and give back their quota; nothing happens between two handles that
\* one of them could tell.
Supervise ==
    /\ \/ phase = "idle" /\ phase' = "first"
       \/ phase = "stalled" /\ stalled = {} /\ phase' = "second"
    /\ \E oom \in SUBSET {i \in Spawned : Watched(i)} :
         LET restarts == {i \in Spawned : Watched(i) /\ Failed(i, oom) /\ MayRestart(i)}
             last == {sidecar[i].plugin : i \in {i \in restarts : sidecar[i].proc = "freed"}}
         IN /\ sidecar' = [i \in Spawned |->
                              IF Watched(i) THEN Supervised(i, oom) ELSE sidecar[i]]
            /\ handles' = handles \ restarts
            /\ toRestart' = restarts
            /\ usage' = usage - Cardinality(restarts)
            /\ named' = [p \in Plugins |-> IF p \in last THEN None ELSE named[p]]
    /\ UNCHANGED <<ring, playing, recovered, stalled, loads>>

RestartCount(i) == sidecar[i].restarts + 1

Respawn ==
    /\ toRestart # {}
    /\ LET old == First(toRestart)
           p == sidecar[old].plugin
       IN /\ \/ SpawnFails(p) /\ UNCHANGED recovered
             \/ /\ SpawnSucceeds(p, sidecar[old].node, RestartCount(old), "held")
                /\ recovered' = recovered \cup {Len(sidecar) + 1}
          /\ toRestart' = toRestart \ {old}
    /\ UNCHANGED <<ring, playing, phase, stalled, loads>>

\* supervise() returned: its processors go to their nodes, and if the ring is full
\* they are dropped.
Reinsert ==
    /\ toRestart = {} /\ recovered # {}
    /\ LET i == First(recovered)
       IN /\ IF HasRoom
             THEN ring' = Append(ring, [node |-> sidecar[i].node, proc |-> i])
                  /\ UNCHANGED sidecar
             ELSE Becomes(i, [sidecar[i] EXCEPT !.proc = "freed"]) /\ UNCHANGED ring
          /\ recovered' = recovered \ {i}
    /\ UNCHANGED <<handles, usage, named, playing, phase, toRestart, stalled, loads>>

SuperviseDone == toRestart = {} /\ recovered = {}

ListStalledNodes ==
    /\ phase = "first" /\ SuperviseDone
    /\ stalled' = {i \in handles : sidecar[i].status = "Running" /\ sidecar[i].age # "fresh"}
    /\ phase' = "stalled"
    /\ UNCHANGED <<sidecar, handles, usage, named, ring, playing, toRestart, recovered, loads>>

\* Soft fallback, and mark_as_bypassed, which takes the first handle of the node.
FallBack ==
    /\ phase = "stalled" /\ stalled # {}
    /\ LET late == First(stalled)
           n == sidecar[late].node
           marked == First({i \in handles : sidecar[i].node = n})
       IN /\ ring' = IF HasRoom THEN Append(ring, [node |-> n, proc |-> Fallback]) ELSE ring
          /\ Becomes(marked, [sidecar[marked] EXCEPT !.status = "Bypassing",
                                                     !.beat = FALSE, !.age = "fresh"])
          /\ stalled' = stalled \ {late}
    /\ UNCHANGED <<handles, usage, named, playing, phase, toRestart, recovered, loads>>

\* drain_garbage: processors the audio thread retired are freed.
DrainGarbage ==
    /\ phase = "second" /\ SuperviseDone
    /\ LET retired == {i \in Spawned : sidecar[i].proc = "retired"}
           last == {sidecar[i].plugin : i \in {i \in retired : ~Listed(i)}}
       IN /\ sidecar' = [i \in Spawned |->
                            IF i \in retired THEN [sidecar[i] EXCEPT !.proc = "freed"]
                            ELSE sidecar[i]]
          /\ named' = [p \in Plugins |-> IF p \in last THEN None ELSE named[p]]
    /\ phase' = "idle"
    /\ UNCHANGED <<handles, usage, ring, playing, toRestart, recovered, stalled, loads>>

Tick ==
    \/ Supervise \/ Respawn \/ Reinsert \/ ListStalledNodes \/ FallBack \/ DrainGarbage

-----------------------------------------------------------------------------
\* The audio thread installs the next processor and retires the one before it.
Install ==
    /\ ring # <<>>
    /\ LET n == Head(ring).node
           old == playing[n]
       IN /\ playing' = [playing EXCEPT ![n] = Head(ring).proc]
          /\ IF old \in Spawned THEN Becomes(old, [sidecar[old] EXCEPT !.proc = "retired"])
             ELSE UNCHANGED sidecar
    /\ ring' = Tail(ring)
    /\ UNCHANGED <<handles, usage, named, tickVars, loads>>

\* The child opens the segments its arguments name, and exits if there are none.
Open(i) ==
    /\ sidecar[i].child = "starting"
    /\ LET seg == named[sidecar[i].plugin]
       IN Becomes(i, [sidecar[i] EXCEPT !.attached = seg,
                                        !.child = IF seg = None THEN "dead" ELSE "up"])
    /\ UNCHANGED <<handles, usage, named, ring, playing, tickVars, loads>>

\* A handle that failed leaves the running ones at the next look, and its heartbeat
\* and its child's end make no difference any more: only the children whose heartbeat
\* somebody will look at are followed.
LookedAt(i) == Watched(i) /\ ~Failed(i, {})
Matters(i) == LookedAt(i) \/ sidecar[i].attached \in {j \in Spawned : LookedAt(j)}

Beat(i) ==
    /\ Beats(i) /\ LookedAt(i) /\ ~sidecar[i].beat
    /\ Becomes(i, [sidecar[i] EXCEPT !.beat = TRUE])
    /\ UNCHANGED <<handles, usage, named, ring, playing, tickVars, loads>>

Hang(i) ==
    /\ Matters(i) /\ sidecar[i].child = "up"
    /\ Becomes(i, [sidecar[i] EXCEPT !.child = "hung", !.attached = None])
    /\ UNCHANGED <<handles, usage, named, ring, playing, tickVars, loads>>

Exit(i) ==
    /\ Matters(i) /\ sidecar[i].child \in {"starting", "up"}
    /\ Becomes(i, [sidecar[i] EXCEPT !.child = "dead", !.attached = None])
    /\ UNCHANGED <<handles, usage, named, ring, playing, tickVars, loads>>

\* The time since the conductor last saw i beat passes 200 ms, then 5 s: i does
\* not beat, or the conductor is late to look.  A tick itself takes no time.
Elapse(i) ==
    /\ LookedAt(i) /\ phase = "idle"
    /\ sidecar[i].beat \/ ~Beats(i)
    /\ \/ sidecar[i].age = "fresh" /\ Becomes(i, [sidecar[i] EXCEPT !.age = "200ms"])
       \/ sidecar[i].age = "200ms" /\ Becomes(i, [sidecar[i] EXCEPT !.age = "5s"])
    /\ UNCHANGED <<handles, usage, named, ring, playing, tickVars, loads>>

Next ==
    \/ Tick
    \/ \E p \in Plugins, n \in Nodes : HotLoad(p, n)
    \/ Install
    \/ \E i \in Spawned : Open(i) \/ Beat(i) \/ Hang(i) \/ Exit(i) \/ Elapse(i)

Spec == Init /\ [][Next]_vars

\* The conductor ticks, the audio thread plays, a started process runs and time
\* passes.  Nothing makes a child fail, and nothing makes it beat.
FairSpec ==
    /\ Spec
    /\ WF_vars(Tick) /\ WF_vars(Install)
    /\ WF_vars(\E i \in Spawned : Open(i))
    /\ \A i \in Instances : SF_vars(i \in Spawned /\ Elapse(i))

-----------------------------------------------------------------------------
Sidecar == [plugin : Plugins, node : Nodes, restarts : 0 .. MaxRestarts,
            status : {"Running", "Bypassing", "Restarting", "Crashed"},
            child : {"starting", "up", "hung", "dead"},
            attached : Instances \cup {None}, beat : BOOLEAN,
            age : {"fresh", "200ms", "5s"},
            proc : {"held", "retired", "freed"}]

TypeOK ==
    /\ sidecar \in Seq(Sidecar) /\ Len(sidecar) <= MaxSpawns
    /\ handles \in SUBSET Spawned /\ toRestart \in SUBSET Spawned
    /\ recovered \in SUBSET Spawned /\ stalled \in SUBSET handles
    /\ usage \in Nat /\ named \in [Plugins -> Instances \cup {None}]
    /\ ring \in Seq([node : Nodes, proc : Spawned \cup {Fallback}])
    /\ playing \in [Nodes -> Spawned \cup {None, Fallback}]
    /\ phase \in {"idle", "first", "stalled", "second"} /\ loads \in 0 .. MaxLoads

\* The memory quota is held by the sidecars in the list and by nobody else,
\* through failed spawns, restarts and restarts that fail.
QuotaExact == usage = Cardinality(handles)

\* Supervision comes to rest: whatever hangs, exits, runs out of memory, is displaced
\* by another load or never gets to its node because the ring is full, in the end
\* nothing is restarted, bypassed or on its way to a node any more, and the heartbeat
\* of every sidecar still listed as running is written for good: by its own child,
\* which plays at its node, or by the child of another instance of the same plugin
\* that plays and found these segments under the name they share.  In the second case
\* the sidecar itself need not play, and the code cannot tell.
SupervisionSettles ==
    <>[](/\ toRestart = {} /\ recovered = {} /\ stalled = {} /\ ring = <<>>
         /\ \A i \in Spawned : Watched(i) =>
              \/ BeatsFor(i, i)
              \/ \E j \in Spawned : sidecar[j].plugin = sidecar[i].plugin /\ BeatsFor(j, i))
=============================================================================
