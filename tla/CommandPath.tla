------------------------------ MODULE CommandPath ------------------------------
(***************************************************************************)
(* The way of a timestamped command from push() to the sample at which it  *)
(* is executed: the queue of MpscRing with, as its consumer, the kernel    *)
(* that renders a block (StandardKernel::execute).  The kernel splits the  *)
(* block at the timestamps: it renders up to a command's sample, executes  *)
(* it and every next command of the same timestamp, and goes on.  The      *)
(* first command that is due after the block is kept for the next one.     *)
(* Producers push at any time, also while a chunk is rendered: processors  *)
(* push through EngineHost from inside it.                                 *)
(***************************************************************************)
EXTENDS MpscRing

CONSTANTS
    BlockSizes,    \* the numbers of samples the device asks for
    MaxChunk,      \* MAX_BLOCK_SIZE
    MaxPerBlock,   \* MAX_COMMANDS_PER_BLOCK
    Horizon        \* bound: the clock is set back to this sample between blocks

\* An item is a command with its timestamp; all are due before Horizon.
ASSUME PathAssumption ==
    /\ \A x \in Items : x.due \in Nat /\ x.due < Horizon
    /\ BlockSizes \subseteq Nat \ {0}
    /\ MaxChunk \in Nat \ {0}
    /\ MaxPerBlock \in Nat \ {0}
    /\ Horizon \in Nat

VARIABLES
    kernel,        \* where execute() is, "outside" between blocks
    blockStart,    \* block_start_sample
    blockEnd,      \* block_end_sample
    now,           \* the next sample to render: block start + current_offset
    target,        \* where to execute cmd: block start + target_offset
    cmd,           \* the command in the kernel's hands
    stamp,         \* the timestamp of the batch being drained
    pending,       \* pending_command, kept between blocks
    processed,     \* commands_processed
    executed,      \* history: the commands executed, in order
    ready,         \* history: the positions of the commands that waited when the block began
    lastAt         \* history: where this block executed last

clockVars == <<blockStart, blockEnd, now>>
kernelVars == <<kernel, clockVars, target, cmd, stamp, pending, processed,
                executed, ready, lastAt>>
vars == <<ringVars, kernelVars>>

Init ==
    /\ RingInit
    /\ kernel = "outside"
    /\ blockStart = 0 /\ blockEnd = 0 /\ now = 0
    /\ target = 0 /\ stamp = 0 /\ processed = 0
    /\ cmd = None /\ pending = None
    /\ executed = <<>> /\ ready = {} /\ lastAt = 0

MaxOf(a, b) == IF a >= b THEN a ELSE b
MinOf(a, b) == IF a <= b THEN a ELSE b

\* The positions of the commands that are in the kernel's hands or could be popped.
Waiting ==
    {q \in Len(executed) .. tail - 1 :
        \A r \in Len(executed) .. q : r < head \/ sequences[Slot(r)] = r + 1}

-----------------------------------------------------------------------------
StartBlock(n) ==
    /\ kernel = "outside"
    /\ blockStart' = now
    /\ blockEnd' = now + n
    /\ cmd' = pending
    /\ pending' = None
    /\ processed' = 0
    /\ kernel' = "fetch"
    /\ ready' = Waiting
    /\ lastAt' = now
    /\ UNCHANGED <<ringVars, now, target, stamp, executed>>

\* The head of the loop: is there a command, or budget to look for one?
Budget == processed < MaxPerBlock

FetchPop ==
    /\ kernel = "fetch" /\ cmd = None /\ Budget
    /\ kernel' = "popping"
    /\ BeginPop
    /\ UNCHANGED <<clockVars, target, cmd, stamp, pending, processed, executed, ready, lastAt>>

FetchNothing ==
    /\ kernel = "popping"
    /\ FindNothing
    /\ kernel' = "rest"
    /\ UNCHANGED <<clockVars, target, cmd, stamp, pending, processed, executed, ready, lastAt>>

FetchPopped ==
    /\ kernel = "popping"
    /\ Release
    /\ cmd' = held
    /\ kernel' = "fetch"
    /\ UNCHANGED <<clockVars, target, stamp, pending, processed, executed, ready, lastAt>>

BudgetSpent ==
    /\ kernel = "fetch" /\ cmd = None /\ ~Budget
    /\ kernel' = "rest"
    /\ UNCHANGED <<ringVars, clockVars, target, cmd, stamp, pending, processed, executed, ready, lastAt>>

TakeUp ==
    /\ kernel = "fetch" /\ cmd # None /\ cmd.due < blockEnd
    /\ processed' = processed + 1
    /\ target' = IF cmd.due > blockStart THEN cmd.due ELSE now
    /\ kernel' = "render"
    /\ UNCHANGED <<ringVars, clockVars, cmd, stamp, pending, executed, ready, lastAt>>

\* Mutated form: the command that is due later is dropped.
KeepForLaterDropped ==
    /\ kernel = "fetch" /\ cmd # None /\ cmd.due >= blockEnd
    /\ cmd' = None
    /\ kernel' = "rest"
    /\ UNCHANGED <<ringVars, clockVars, target, stamp, pending, processed, executed, ready, lastAt>>

KeepForLater ==
    /\ kernel = "fetch" /\ cmd # None /\ cmd.due >= blockEnd
    /\ pending' = cmd
    /\ cmd' = None
    /\ kernel' = "rest"
    /\ UNCHANGED <<ringVars, clockVars, target, stamp, processed, executed, ready, lastAt>>

-----------------------------------------------------------------------------
\* process_sub_block_and_advance_transport, on one chunk of SubBlockIterator.
RenderTo(end) ==
    /\ now < end
    /\ now' = MinOf(now + MaxChunk, end)
    /\ UNCHANGED <<ringVars, kernel, blockStart, blockEnd, target, cmd, stamp,
                   pending, processed, executed, ready, lastAt>>

RenderUpToCommand == kernel = "render" /\ RenderTo(MinOf(target, blockEnd))

Execute ==
    /\ kernel = "render" /\ now >= target
    /\ executed' = Append(executed, cmd)
    /\ stamp' = cmd.due
    /\ cmd' = None
    /\ lastAt' = now
    /\ kernel' = "drain"
    /\ UNCHANGED <<ringVars, clockVars, target, pending, processed, ready>>

\* The loop that drains the commands of the same timestamp.
DrainPop ==
    /\ kernel = "drain" /\ Budget
    /\ kernel' = "draining"
    /\ BeginPop
    /\ UNCHANGED <<clockVars, target, cmd, stamp, pending, processed, executed, ready, lastAt>>

DrainEnds ==
    /\ \/ kernel = "drain" /\ ~Budget /\ UNCHANGED ringVars
       \/ kernel = "draining" /\ FindNothing
    /\ kernel' = "fetch"
    /\ UNCHANGED <<clockVars, target, cmd, stamp, pending, processed, executed, ready, lastAt>>

\* Mutated form: whatever the queue holds is executed with the batch.
SameStampAny(x) == TRUE

SameStamp(x) == x.due = stamp

DrainExecutes ==
    /\ kernel = "draining" /\ Release /\ SameStamp(held)
    /\ executed' = Append(executed, held)
    /\ processed' = processed + 1
    /\ lastAt' = now
    /\ kernel' = "drain"
    /\ UNCHANGED <<clockVars, target, cmd, stamp, pending, ready>>

DrainStops ==
    /\ kernel = "draining" /\ Release /\ ~SameStamp(held)
    /\ cmd' = held
    /\ kernel' = "fetch"
    /\ UNCHANGED <<clockVars, target, stamp, pending, processed, executed, ready, lastAt>>

-----------------------------------------------------------------------------
RenderRest == kernel = "rest" /\ RenderTo(blockEnd)

EndBlock ==
    /\ kernel = "rest" /\ now = blockEnd
    /\ now' = MinOf(now, Horizon)
    /\ pending' = IF pending = None THEN cmd ELSE pending
    /\ cmd' = None
    /\ kernel' = "outside"
    /\ UNCHANGED <<ringVars, blockStart, blockEnd, target, stamp, processed,
                   executed, ready, lastAt>>

PopSteps == PopStep /\ UNCHANGED kernelVars

AudioStep ==
    \/ \E n \in BlockSizes : StartBlock(n)
    \/ FetchPop \/ FetchNothing \/ FetchPopped \/ BudgetSpent
    \/ TakeUp \/ KeepForLater
    \/ RenderUpToCommand \/ Execute
    \/ DrainPop \/ DrainEnds \/ DrainExecutes \/ DrainStops
    \/ RenderRest \/ EndBlock
    \/ PopSteps

Pushing(p) == PushStep(p) /\ UNCHANGED kernelVars

Next ==
    \/ AudioStep
    \/ \E p \in Producers :
        Pushing(p) \/ \E x \in Items : BeginPush(p, x) /\ UNCHANGED kernelVars

Spec == Init /\ [][Next]_vars

\* The device calls for block after block, a thread inside push() is scheduled,
\* and a CAS does not fail for ever where it could succeed.
FairSpec ==
    /\ Spec
    /\ WF_vars(AudioStep)
    /\ \A p \in Producers :
        WF_vars(Pushing(p)) /\ SF_vars(Claim(p) /\ UNCHANGED kernelVars)

-----------------------------------------------------------------------------
TypeOK ==
    /\ RingTypeOK
    /\ kernel \in {"outside", "fetch", "popping", "render", "drain", "draining", "rest"}
    /\ blockStart \in Nat /\ blockEnd \in Nat /\ now \in Nat
    /\ target \in Nat /\ stamp \in Nat /\ processed \in 0 .. MaxPerBlock
    /\ cmd \in Items \cup {None} /\ pending \in Items \cup {None}
    /\ executed \in Seq(Items) /\ ready \subseteq Nat /\ lastAt \in Nat

\* Where a command is executed: at its sample, or, if that has passed, at the
\* start of the block or right behind the command before it.
OnItsSample(x) == now = MaxOf(x.due, MaxOf(blockStart, lastAt))

\* The next command to be executed, of those accepted.
NextUp == accepted[Len(executed) + 1]

\* Commands are executed in the order they were accepted, none twice and none
\* left out, each at its sample.  One that waited when a block began and is due
\* in it is executed in it, unless the block's budget is spent on others or
\* one in front of it is due later.
OnTime ==
    [][/\ executed' # executed =>
            /\ executed' = Append(executed, NextUp)
            /\ OnItsSample(NextUp)
       /\ EndBlock =>
            \/ \A q \in ready : q < Len(executed)
            \/ NextUp.due >= blockEnd
            \/ ~Budget]_vars

\* A command that push() accepted is executed in the end, however the
\* timestamps in front of it lie and however full the blocks are: again and again
\* everything accepted so far has been executed.
EveryCommandRuns == []<>(executed = accepted)
=============================================================================
