-------------------------- MODULE FrameResultBuffer --------------------------
(***************************************************************************)
(* FrameResultBuffer of src/nnrp/tools/ordered_buffer.py: results are      *)
(* added as they arrive and handed out by frame, or the smallest frame     *)
(* first, to calls that return at once and to coroutines that wait.        *)
(*                                                                         *)
(* Everything runs on one event loop, so an action is what happens between *)
(* two awaits.  A packet is the number of its add.  _ready is not part of  *)
(* the state: _wait_ready clears it right before it waits, so that all     *)
(* that matters of it is whom set() wakes.                                 *)
(***************************************************************************)
EXTENDS Integers, Sequences

CONSTANTS
  BufferedFrames, \* frame ids
  NextFrame,      \* stands for the smallest frame there is
  Waiters,        \* coroutines that wait
  Wraps,          \* asyncio.wait_for runs a coroutine in a task of its own,
                  \* as it does before Python 3.12
  MaxAdds         \* bound: packets added

ASSUME BufferedFramesAssumption == BufferedFrames \subseteq Nat /\ NextFrame \notin BufferedFrames
ASSUME WrapsAssumption == Wraps \in BOOLEAN
ASSUME MaxAddsAssumption == MaxAdds \in Nat

VARIABLES
  heap,     \* _heap: how many entries each frame id has
  byFrame,  \* _by_frame_id: the packet of each frame, 0 for none
  wait,     \* per coroutine: what it waits for and where in the wait it is
  added,    \* history: the frame of each packet added
  out,      \* history: the packets handed out
  skipped   \* history: pop_next passed over a smaller frame, or over all there were

contents   == <<heap, byFrame, out, skipped>>
bufferVars == <<contents, wait, added>>

NotWaiting == [phase |-> "idle", wants |-> NextFrame, timed |-> FALSE]

BufferInit ==
  /\ heap = [f \in BufferedFrames |-> 0]
  /\ byFrame = [f \in BufferedFrames |-> 0]
  /\ wait = [t \in Waiters |-> NotWaiting]
  /\ added = <<>>
  /\ out = <<>>
  /\ skipped = FALSE

Stored == {f \in BufferedFrames : byFrame[f] # 0}
Live   == {f \in Stored : heap[f] > 0}

\* The front of the heap once the stale entries before it are gone.
IsFirst(m) == m \in Live /\ \A f \in Live : m <= f

-----------------------------------------------------------------------------
(* The calls that return at once *)

\* Mutant of Woken: only an add to an empty buffer wakes.
Woken_First(w) == IF w.phase = "waiting" /\ Stored = {} THEN [w EXCEPT !.phase = "woken"] ELSE w

\* _ready.set().
Woken(w) == IF w.phase = "waiting" THEN [w EXCEPT !.phase = "woken"] ELSE w

\* add: the last packet of a frame wins.
Add(f) ==
  /\ Len(added) < MaxAdds
  /\ heap' = IF byFrame[f] = 0 THEN [heap EXCEPT ![f] = @ + 1] ELSE heap
  /\ byFrame' = [byFrame EXCEPT ![f] = Len(added) + 1]
  /\ added' = Append(added, f)
  /\ wait' = [t \in Waiters |-> Woken(wait[t])]
  /\ UNCHANGED <<out, skipped>>

Without(m) == [f \in BufferedFrames |-> IF f < m THEN 0 ELSE heap[f]]

HandOut(f) ==
  /\ byFrame' = [byFrame EXCEPT ![f] = 0]
  /\ out' = Append(out, byFrame[f])

\* pop_next hands out the front of the heap, ...
TakeNext(m) ==
  /\ IsFirst(m)
  /\ HandOut(m)
  /\ heap' = [Without(m) EXCEPT ![m] = @ - 1]
  /\ skipped' = (skipped \/ \E f \in Stored : f < m)

\* ... finds nothing, ...
FindNone ==
  /\ Live = {}
  /\ heap' = [f \in BufferedFrames |-> 0]
  /\ skipped' = (skipped \/ Stored # {})
  /\ UNCHANGED <<byFrame, out>>

\* ... or finds another frame than the expected one at the front.
FindOther(expected) ==
  /\ \E m \in Live \ {expected} : IsFirst(m) /\ heap' = Without(m)
  /\ skipped' = (skipped \/ (expected \in Stored /\ \A f \in Stored : expected <= f))
  /\ UNCHANGED <<byFrame, out>>

PopNext ==
  /\ (\E m \in Live : TakeNext(m)) \/ FindNone
  /\ UNCHANGED <<wait, added>>

PopExpected(expected) ==
  /\ TakeNext(expected) \/ FindOther(expected) \/ FindNone
  /\ UNCHANGED <<wait, added>>

PeekNext ==
  /\ (\E m \in Live : IsFirst(m) /\ heap' = Without(m)) \/ (Live = {} /\ heap' = [f \in BufferedFrames |-> 0])
  /\ UNCHANGED <<byFrame, out, skipped, wait, added>>

\* Mutant of TakeFrame: the entry at the front of the heap is dropped with it.
TakeFrame_Front(f) ==
  /\ f \in Stored
  /\ HandOut(f)
  /\ heap' = [g \in BufferedFrames |-> IF IsFirst(g) THEN heap[g] - 1 ELSE heap[g]]
  /\ UNCHANGED skipped

\* pop_frame: the heap keeps an entry that no longer means a packet.
TakeFrame(f) ==
  /\ f \in Stored
  /\ HandOut(f)
  /\ UNCHANGED <<heap, skipped>>

PopFrame(f) == TakeFrame(f) /\ UNCHANGED <<wait, added>>

-----------------------------------------------------------------------------
(* The coroutines: wait_for_frame and wait_for_next *)

TakeWanted(w) == IF w = NextFrame THEN \E m \in Live : TakeNext(m) ELSE TakeFrame(w)
FindNoWanted(w) == IF w = NextFrame THEN FindNone ELSE w \notin Stored /\ UNCHANGED contents

\* One turn of the loop.  Without a timeout the coroutine then waits; with one it
\* gives up, or waits in wait_for, which may first have to start a task.
Look(t, w, timed) ==
  /\ \/ TakeWanted(w) /\ wait' = [wait EXCEPT ![t] = NotWaiting]
     \/ /\ FindNoWanted(w)
        /\ \/ wait' = [wait EXCEPT ![t] = [phase |-> IF timed /\ Wraps THEN "starting" ELSE "waiting",
                                           wants |-> w, timed |-> timed]]
           \/ timed /\ wait' = [wait EXCEPT ![t] = NotWaiting]
  /\ UNCHANGED added

WaitBegin(t) ==
  /\ wait[t].phase = "idle"
  /\ \E w \in BufferedFrames \cup {NextFrame}, timed \in BOOLEAN : Look(t, w, timed)

\* The task that wait_for made runs: _wait_ready.
WaitStarts(t) ==
  /\ wait[t].phase = "starting"
  /\ wait' = [wait EXCEPT ![t].phase = "waiting"]
  /\ UNCHANGED <<contents, added>>

WaitResumes(t) ==
  /\ wait[t].phase = "woken"
  /\ Look(t, wait[t].wants, wait[t].timed)

\* wait_for times out, or the coroutine is cancelled, also when it is about to resume.
WaitEnds(t) ==
  /\ wait[t].phase # "idle"
  /\ wait' = [wait EXCEPT ![t] = NotWaiting]
  /\ UNCHANGED <<contents, added>>

-----------------------------------------------------------------------------

BufferNext ==
  \/ PopNext \/ PeekNext
  \/ \E f \in BufferedFrames : Add(f) \/ PopExpected(f) \/ PopFrame(f)
  \/ \E t \in Waiters : WaitBegin(t) \/ WaitStarts(t) \/ WaitResumes(t) \/ WaitEnds(t)

BufferSpec == BufferInit /\ [][BufferNext]_bufferVars

-----------------------------------------------------------------------------
(* Properties *)

BufferTypeOK ==
  /\ heap \in [BufferedFrames -> Nat]
  /\ byFrame \in [BufferedFrames -> 0 .. MaxAdds]
  /\ wait \in [Waiters -> [phase : {"idle", "starting", "waiting", "woken"},
                           wants : BufferedFrames \cup {NextFrame}, timed : BOOLEAN]]
  /\ added \in Seq(BufferedFrames)
  /\ out \in Seq(1 .. MaxAdds)
  /\ skipped \in BOOLEAN

\* A packet is handed out, there, or replaced by a later one of its frame; never
\* twice, and never after a later one of its frame.
HandedOutOnce ==
  /\ \A n \in DOMAIN added :
       \/ \E i \in DOMAIN out : out[i] = n
       \/ byFrame[added[n]] = n
       \/ \E m \in DOMAIN added : m > n /\ added[m] = added[n]
  /\ \A i, j \in DOMAIN out : i < j /\ added[out[i]] = added[out[j]] => out[i] < out[j]
  /\ \A i \in DOMAIN out : byFrame[added[out[i]]] # 0 => out[i] < byFrame[added[out[i]]]

Wants(t, f) == wait[t].wants \in {f, NextFrame}

\* Who waits without a timeout, or from Python 3.12 on with one, waits for what is
\* not there: an add wakes whoever it may concern, whoever pops what in between.  Of
\* a wait with a timeout where Wraps, nothing is said here: see WaitersSeeArrivals.
NobodyWaitsInVain ==
  \A t \in Waiters, f \in Stored : wait[t].phase = "waiting" /\ Wants(t, f) => wait[t].timed /\ Wraps

\* However packets are added, replaced, popped by frame and waited for, pop_next
\* and wait_for_next hand out the smallest frame the buffer holds, stale heap
\* entries or not; every result is handed out once, unless a later one of its frame
\* replaced it; and nobody who waits without a timeout waits for what is there.
\* With a timeout that holds from Python 3.12 on only, where wait_for starts no task.
\* The types of the state are checked with it.
ResultsInFrameOrder == BufferTypeOK /\ ~skipped /\ HandedOutOnce /\ NobodyWaitsInVain

\* "Wait until a packet for frame_id is available, then return it.  Returns None if
\* timeout expires before the frame arrives": no coroutine sleeps on while the buffer
\* holds what it waits for.  Up to Python 3.11, which the project supports, that fails
\* of wait_for_frame and wait_for_next with a timeout: a packet added before the task
\* of wait_for runs sets _ready, which _wait_ready then clears, and the call returns
\* None with the packet in the buffer.
WaitersSeeArrivals == \A t \in Waiters, f \in Stored : wait[t].phase = "waiting" => ~Wants(t, f)

=============================================================================
