--------------------------- MODULE ResponseQueue ---------------------------
(***************************************************************************)
(* The ring buffer a context keeps its responses in (mp_response_queue_t,  *)
(* py/mpstate.c), with the steps of its users interleaved: the writers are *)
(* the callers of multipython_notify (Python tasks on either core and the  *)
(* GPIO interrupt handler), the reader is the context that owns the queue  *)
(* (multipython_check_responses) and the peeker is the wakeup call task.   *)
(* No lock protects the queue, so each function is split at its accesses   *)
(* to the shared words buff[..], r_head and w_head.                        *)
(***************************************************************************)
EXTENDS Integers, Sequences

CONSTANTS
    Size,       \* MP_RESPONSE_QUEUE_SIZE
    Responses,  \* the mp_response_t values that get stored
    Writers,    \* callers of multipython_notify
    None        \* a zeroed mp_response_t; also the None check_responses returns

ASSUME SizeAssumption == Size \in Nat \ {0}
ASSUME NoneAssumption == None \notin Responses

VARIABLES
    buff, r_head, w_head,       \* mp_response_queue_t
    wpc, warg, wslot, wnext,    \* a writer's progress and its locals
    result,                     \* what its last mp_response_queue_write returned
    rpc, rval, rnext,           \* the reader's progress and its locals
    out,                        \* what the last check_responses returned
    ppc, pval, pslot,           \* the peeker's progress and its locals
    pstate,                     \* ghost: "fresh" until a read overlaps this peek
    owed                        \* ghost: stores that returned 1, less reads

queueVars == <<buff, r_head, w_head>>
writerVars == <<wpc, warg, wslot, wnext, result>>
readerVars == <<rpc, rval, rnext, out>>
peekerVars == <<ppc, pval, pslot, pstate>>
ringVars == <<queueVars, writerVars, readerVars, peekerVars, owed>>

Slots == 0..(Size - 1)

\* The head that follows head i: "next = head + 1; if next >= SIZE, next = 0".
SlotAfter(i) == IF i + 1 >= Size THEN 0 ELSE i + 1

\* How many responses lie between the heads, and where the i-th of them is.
Count == IF w_head >= r_head THEN w_head - r_head ELSE w_head + Size - r_head
SlotOf(i) == IF r_head + i >= Size THEN r_head + i - Size ELSE r_head + i

RingInit ==
    /\ buff = [i \in Slots |-> None]
    /\ r_head = 0
    /\ w_head = 0
    /\ wpc = [w \in Writers |-> "idle"]
    /\ warg = [w \in Writers |-> None]
    /\ wslot = [w \in Writers |-> 0]
    /\ wnext = [w \in Writers |-> 0]
    /\ result = [w \in Writers |-> 0]
    /\ rpc = "idle" /\ rval = None /\ rnext = 0 /\ out = None
    /\ ppc = "idle" /\ pval = None /\ pslot = 0 /\ pstate = "overtaken"
    /\ owed = 0

-----------------------------------------------------------------------------
(* mp_response_queue_write                                                  *)

\* The queue is full: nothing is stored and the call returns 0.
WriteRefused(w) ==
    /\ wpc[w] = "idle"
    /\ SlotAfter(w_head) = r_head
    /\ result' = [result EXCEPT ![w] = 0]
    /\ UNCHANGED <<queueVars, wpc, warg, wslot, wnext, readerVars, peekerVars, owed>>

\* Fault: the full queue is not noticed.
WriteCheckUnguarded(w, v) ==
    /\ wpc[w] = "idle"
    /\ wpc' = [wpc EXCEPT ![w] = "store"]
    /\ warg' = [warg EXCEPT ![w] = v]
    /\ wslot' = [wslot EXCEPT ![w] = w_head]
    /\ wnext' = [wnext EXCEPT ![w] = SlotAfter(w_head)]
    /\ UNCHANGED <<queueVars, result, readerVars, peekerVars, owed>>

\* There is room as far as this writer can see.
WriteCheck(w, v) ==
    /\ wpc[w] = "idle"
    /\ SlotAfter(w_head) # r_head
    /\ wpc' = [wpc EXCEPT ![w] = "store"]
    /\ warg' = [warg EXCEPT ![w] = v]
    /\ wslot' = [wslot EXCEPT ![w] = w_head]
    /\ wnext' = [wnext EXCEPT ![w] = SlotAfter(w_head)]
    /\ UNCHANGED <<queueVars, result, readerVars, peekerVars, owed>>

\* Fault: the response goes to the slot after the one that gets published.
WriteStoreAhead(w) ==
    /\ wpc[w] = "store"
    /\ buff' = [buff EXCEPT ![wnext[w]] = warg[w]]
    /\ wpc' = [wpc EXCEPT ![w] = "publish"]
    /\ UNCHANGED <<r_head, w_head, warg, wslot, wnext, result, readerVars, peekerVars, owed>>

\* The slot is named by w_head, which the build may keep in a register or load
\* again: the outcomes differ only when another writer has moved it.
WriteStore(w) ==
    /\ wpc[w] = "store"
    /\ \E i \in {wslot[w], w_head} : buff' = [buff EXCEPT ![i] = warg[w]]
    /\ wpc' = [wpc EXCEPT ![w] = "publish"]
    /\ UNCHANGED <<r_head, w_head, warg, wslot, wnext, result, readerVars, peekerVars, owed>>

WritePublish(w) ==
    /\ wpc[w] = "publish"
    /\ w_head' = wnext[w]
    /\ wpc' = [wpc EXCEPT ![w] = "idle"]
    /\ result' = [result EXCEPT ![w] = 1]
    /\ owed' = owed + 1
    /\ UNCHANGED <<buff, r_head, warg, wslot, wnext, readerVars, peekerVars>>

-----------------------------------------------------------------------------
(* mp_response_queue_read, called by multipython_check_responses            *)

ReadEmpty ==
    /\ rpc = "idle"
    /\ r_head = w_head
    /\ out' = None
    /\ UNCHANGED <<queueVars, writerVars, rpc, rval, rnext, peekerVars, owed>>

ReadCheck ==
    /\ rpc = "idle"
    /\ r_head # w_head
    /\ rpc' = "copy"
    /\ rnext' = SlotAfter(r_head)
    /\ UNCHANGED <<queueVars, writerVars, rval, out, peekerVars, owed>>

ReadCopy ==
    /\ rpc = "copy"
    /\ rval' = buff[r_head]
    /\ rpc' = "publish"
    /\ UNCHANGED <<queueVars, writerVars, rnext, out, peekerVars, owed>>

ReadPublish ==
    /\ rpc = "publish"
    /\ r_head' = rnext
    /\ rpc' = "idle"
    /\ out' = rval
    /\ pstate' = "overtaken"
    /\ owed' = owed - 1
    /\ UNCHANGED <<buff, w_head, writerVars, rval, rnext, ppc, pval, pslot>>

-----------------------------------------------------------------------------
(* mp_response_queue_peek, called by multipython_wakeup_call_task           *)

PeekEmpty ==
    /\ ppc \in {"idle", "done"}
    /\ r_head = w_head
    /\ ppc' = "idle"
    /\ pval' = None
    /\ UNCHANGED <<queueVars, writerVars, readerVars, pslot, pstate, owed>>

PeekCheck ==
    /\ ppc \in {"idle", "done"}
    /\ r_head # w_head
    /\ ppc' = "copy"
    /\ pslot' = r_head
    /\ pstate' = "fresh"
    /\ UNCHANGED <<queueVars, writerVars, readerVars, pval, owed>>

\* Fault: the peek looks at the writer's end of the queue.
PeekCopyNewest ==
    /\ ppc = "copy"
    /\ pval' = buff[w_head]
    /\ ppc' = "done"
    /\ UNCHANGED <<queueVars, writerVars, readerVars, pslot, pstate, owed>>

\* As in WriteStore, r_head may be loaded again before the copy.
PeekCopy ==
    /\ ppc = "copy"
    /\ \E i \in {pslot, r_head} : pval' = buff[i]
    /\ ppc' = "done"
    /\ UNCHANGED <<queueVars, writerVars, readerVars, pslot, pstate, owed>>

-----------------------------------------------------------------------------
WriterNext ==
    \E w \in Writers :
        \/ WriteRefused(w)
        \/ \E v \in Responses : WriteCheck(w, v)
        \/ WriteStore(w)
        \/ WritePublish(w)

ReaderNext == ReadEmpty \/ ReadCheck \/ ReadCopy \/ ReadPublish

PeekerNext == PeekEmpty \/ PeekCheck \/ PeekCopy

RingNext == WriterNext \/ ReaderNext \/ PeekerNext

RingSpec == RingInit /\ [][RingNext]_ringVars

-----------------------------------------------------------------------------
(* Properties                                                               *)

\* Both heads stay inside the buffer and every local has its type.
RingTypeOK ==
    /\ buff \in [Slots -> Responses \cup {None}]
    /\ r_head \in Slots /\ w_head \in Slots
    /\ wpc \in [Writers -> {"idle", "store", "publish"}]
    /\ warg \in [Writers -> Responses \cup {None}]
    /\ wslot \in [Writers -> Slots]
    /\ wnext \in [Writers -> Slots]
    /\ result \in [Writers -> {0, 1}]
    /\ rpc \in {"idle", "copy", "publish"}
    /\ rval \in Responses \cup {None} /\ rnext \in Slots
    /\ out \in Responses \cup {None}
    /\ ppc \in {"idle", "copy", "done"}
    /\ pval \in Responses \cup {None} /\ pslot \in Slots
    /\ pstate \in {"fresh", "overtaken"}
    /\ owed \in Int

\* mp_response_queue_write "returns the number of successful stores": every
\* store that returned 1 and has not been read is still between the heads.
StoresAccounted == owed = Count

\* A peek that overlaps no read shows the wakeup task the oldest response.
PeekShowsOldest ==
    ppc = "done" /\ pstate = "fresh" => Count > 0 /\ pval = buff[r_head]

\* The pending responses, oldest first, and the ring as a bounded queue: one
\* slot always stays empty, so it holds Size - 1 responses.
Pending == [i \in 1..Count |-> buff[SlotOf(i - 1)]]
Fifo == INSTANCE BoundedFifo WITH Capacity <- Size - 1, queue <- Pending
\* The ring buffer, with its callers' steps interleaved, behaves as that
\* queue: nothing lost, duplicated, reordered, or refused while there is room.
ImplementsFifo == Fifo!FifoSpec
=============================================================================
