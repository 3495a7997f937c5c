-------------------------------- MODULE Logger --------------------------------
(***************************************************************************)
(* The asynchronous logger: log() puts a line into the calling thread's    *)
(* single-producer ring, the consumer thread formats lines into m_fmt_buf  *)
(* and swaps it with m_write_buf, the writer thread swaps m_write_buf out  *)
(* and writes it.  start() runs in whatever thread logs first, and again   *)
(* in a thread that logs after stop().                                     *)
(*                                                                         *)
(* A section under a mutex is one step, except that stop() holds           *)
(* m_lifecycle_mutex over several, and the consumer m_slot_mutex while its *)
(* pc is "poll" or "drain".  What a thread does alone between two such     *)
(* sections belongs to the step before or behind it.  The consumer's       *)
(* wait_for has a timeout, so the consumer may go on at any time and       *)
(* notifying it only makes that sooner; the writer waits without one, and  *)
(* notifications of m_write_cv are modelled.  The log file can always be   *)
(* opened, and write() takes all it is given.                              *)
(***************************************************************************)
EXTENDS LogArgs, FiniteSets

CONSTANTS Threads,      \* threads that log
          Scripts,      \* what may happen: [lines, flushers, exits], per thread
                        \* the argument lists it logs at an enabled level, the
                        \* threads that then call flush(), and whether the crash
                        \* handler is installed and the process ends
          QueueEntries, \* m_per_thread_bytes / sizeof(LogEntry)
          MaxBatch,     \* kMaxDequeuePerRound
          Threshold,    \* kWriteThreshold, in lines
          None

ASSUME LoggerAssumption ==
    /\ None \notin Threads \cup {"stop"} /\ QueueEntries \in Nat
    /\ MaxBatch \in Nat \ {0} /\ Threshold \in Nat \ {0}

ASSUME ScriptsAssumption ==
    \A s \in Scripts : \A p \in Threads :
        /\ s.lines[p] \in Seq(ToSet(s.lines[p]))
        /\ \A args \in ToSet(s.lines[p]) : WellFormed(args)

VARIABLES
    script,             \* the script of this behaviour, never changes
    m_running, m_generation, m_need_flush,
    lifecycle,          \* who holds m_lifecycle_mutex
    rings,              \* per thread: the rings of all its slots, the last is t_slot's
    m_slots,            \* the registered slots, <<thread, number>>
    m_poll_index,
    pc, next,           \* per thread: where it is in log(), with which line
    consumer, idx, polled, batch,     \* the consumer and its locals
    m_fmt_buf, m_write_buf, m_write_ready,
    writer, buf,        \* the writer and its local buffer
    m_log_fd,           \* the log file is open
    stopPc,             \* the thread that calls stop(), or "crashed"
    output,             \* history: the lines written, in order
    misplaced,          \* history: those of them that went to stderr
    published,          \* history: the lines in a ring or beyond
    exposed             \* history: lines whose log() a stop() overlapped

lifeVars == <<m_running, m_generation, lifecycle>>
ringVars == <<rings, m_slots, m_poll_index>>
logVars == <<script, pc, next, published>>
pollVars == <<idx, polled, batch>>
bufVars == <<m_fmt_buf, m_write_buf, m_write_ready>>
fileVars == <<m_log_fd, misplaced>>
stopVars == <<stopPc, exposed>>
vars == <<lifeVars, ringVars, logVars, pollVars, bufVars, output, fileVars, stopVars,
          m_need_flush, consumer, writer, buf>>

-----------------------------------------------------------------------------
(* The ring.                                                               *)

NextPow2(v) == CHOOSE n \in {2 ^ k : k \in 1..(v + 1)} :
                  v <= n /\ \A k \in 1..(v + 1) : v <= 2 ^ k => n <= 2 ^ k

Capacity == NextPow2(QueueEntries)
Cell(pos) == pos % Capacity

NewRing(generation) ==
    [sequence |-> [i \in 0..(Capacity - 1) |-> i],
     storage |-> [i \in 0..(Capacity - 1) |-> None],
     pos |-> 0, dq |-> 0, generation |-> generation]

\* Regression: the cell is compared with the position behind it.
CanClaimOneMore(r) == r.sequence[Cell(r.pos)] + Capacity - 1 >= r.pos

\* tryClaim succeeds.
CanClaim(r) == r.sequence[Cell(r.pos)] >= r.pos

Claim(r) == [r EXCEPT !.pos = @ + 1]

\* The claimed entry is filled in, and published.
Publish(r, entry) ==
    LET pos == r.pos - 1
    IN [r EXCEPT !.storage[Cell(pos)] = entry, !.sequence[Cell(pos)] = pos + 1]

\* empty() is false.
NotEmpty(r) == r.sequence[Cell(r.dq)] = r.dq + 1

\* What n calls of tryDequeue in a row return and leave.
Oldest(r, n) == [k \in 1..n |-> r.storage[Cell(r.dq + k - 1)]]

Dequeue(r, n) ==
    [r EXCEPT !.dq = @ + n,
              !.sequence = [c \in DOMAIN @ |->
                  IF Cell(c - r.dq + Capacity * r.dq) < n
                    THEN r.dq + Cell(c - r.dq + Capacity * r.dq) + Capacity
                    ELSE @[c]]]

Ring(s) == rings[s[1]][s[2]]
Mine(p) == <<p, Len(rings[p])>>

-----------------------------------------------------------------------------
(* log(), on thread p.                                                     *)

Line(p) == <<p, next[p]>>
LogStep(p, from, to) == pc[p] = from /\ pc' = [pc EXCEPT ![p] = to]

\* ensureStarted looks at m_running.
LogCall(p) ==
    /\ next[p] < Len(script.lines[p])
    /\ next' = [next EXCEPT ![p] = @ + 1]
    /\ LogStep(p, "idle", IF m_running THEN "slot" ELSE "start")
    /\ UNCHANGED <<lifeVars, ringVars, script, published, pollVars, bufVars, output, fileVars,
                   stopVars, m_need_flush, consumer, writer, buf>>

\* start(), in one step although it holds m_lifecycle_mutex throughout: forget
\* the slots of an earlier life and start the two threads.
Start(p) ==
    /\ lifecycle = None
    /\ LogStep(p, "start", "slot")
    /\ IF m_running
         THEN UNCHANGED <<lifeVars, ringVars, consumer, writer>>
         ELSE /\ m_slots' = <<>> /\ m_poll_index' = 0
              /\ m_generation' = m_generation + 1
              /\ m_running' = TRUE
              /\ consumer' = "open" /\ writer' = "lock"
              /\ UNCHANGED <<lifecycle, rings>>
    /\ UNCHANGED <<script, next, published, pollVars, bufVars, output, fileVars, stopVars, m_need_flush, buf>>

\* The thread's slot, if it is of this life.  Otherwise registerThisThread
\* makes one, with the generation it reads ...
FindSlot(p) ==
    LET mine == rings[p] # <<>> /\ Ring(Mine(p)).generation = m_generation
    IN /\ LogStep(p, "slot", IF mine THEN "claim" ELSE "push")
       /\ rings' = IF mine THEN rings
                   ELSE [rings EXCEPT ![p] = Append(@, NewRing(m_generation))]
       /\ UNCHANGED <<lifeVars, m_slots, m_poll_index, script, next, published, pollVars, bufVars,
                      output, fileVars, stopVars, m_need_flush, consumer, writer, buf>>

\* ... and is registered under m_slot_mutex.
PushSlot(p) ==
    /\ LogStep(p, "push", "claim")
    /\ consumer \notin {"poll", "drain"}
    /\ m_slots' = Append(m_slots, Mine(p))
    /\ UNCHANGED <<lifeVars, rings, m_poll_index, script, next, published, pollVars, bufVars,
                   output, fileVars, stopVars, m_need_flush, consumer, writer, buf>>

\* tryClaim, setArgs and publish; a full ring drops the line.  What setArgs
\* leaves in the entry is computed where the entry is formatted.
Enqueue(p) ==
    LET free == CanClaim(Ring(Mine(p)))
    IN /\ LogStep(p, "claim", "idle")
       /\ rings' = IF free THEN [rings EXCEPT ![p][Len(rings[p])] = Publish(Claim(@), Line(p))]
                   ELSE rings
       /\ published' = IF free THEN published \cup {Line(p)} ELSE published
       /\ UNCHANGED <<lifeVars, m_slots, m_poll_index, script, next, pollVars, bufVars, output, fileVars,
                      stopVars, m_need_flush, consumer, writer, buf>>

Log(p) ==
    \/ Start(p) \/ FindSlot(p) \/ PushSlot(p) \/ Enqueue(p)

-----------------------------------------------------------------------------
(* The consumer.                                                           *)

ConsumerStep(from, to) == consumer = from /\ consumer' = to

\* consumerRun opens the file, after closing one that is still open.
OpenLogFile ==
    /\ ConsumerStep("open", "top")
    /\ m_log_fd' = TRUE
    /\ UNCHANGED <<lifeVars, ringVars, logVars, pollVars, bufVars, output, misplaced,
                   stopVars, m_need_flush, writer, buf>>

\* The consumer takes m_slot_mutex for a round over the slots, or for the
\* final drain.
ConsumerTop ==
    /\ ConsumerStep("top", IF m_running THEN "poll" ELSE "drain")
    /\ idx' = IF m_running /\ m_slots # <<>> THEN (m_poll_index % Len(m_slots)) + 1 ELSE 1
    /\ UNCHANGED <<lifeVars, ringVars, logVars, polled, batch, bufVars, output, fileVars, stopVars,
                   m_need_flush, writer, buf>>

\* The next slot's turn ends after n lines: tryDequeue succeeds n times, and
\* then it fails or the batch is full.
Turn(n) ==
    LET r == Ring(m_slots[idx])
    IN /\ \A k \in 0..(n - 1) : r.sequence[Cell(r.dq + k)] >= r.dq + k + 1
       /\ Len(batch) + n = MaxBatch \/ r.sequence[Cell(r.dq + n)] < r.dq + n + 1
       /\ rings' = [rings EXCEPT ![m_slots[idx][1]][m_slots[idx][2]] = Dequeue(r, n)]
       /\ batch' = batch \o Oldest(r, n)

MorePolling == polled < Len(m_slots) /\ Len(batch) < MaxBatch

Poll ==
    /\ ConsumerStep("poll", "poll") /\ MorePolling
    /\ \E n \in 0..(MaxBatch - Len(batch)) : Turn(n)
    /\ idx' = (idx % Len(m_slots)) + 1 /\ polled' = polled + 1
    /\ UNCHANGED <<lifeVars, m_slots, m_poll_index, logVars, bufVars, output, fileVars, stopVars,
                   m_need_flush, writer, buf>>

WriteMutexFree == writer # "drowsy"

NotifyWriter == writer' = IF writer = "asleep" THEN "lock" ELSE writer

\* formatLine: each entry becomes a line at the end of the buffer.  (What the
\* arguments become is LogArgs' RunFormat; the prefix is left out.)
FormatLines(entries) == m_fmt_buf \o entries

\* With lines formatted: swap the buffers and tell the writer.
HandOver(lines, cond) ==
    IF cond
      THEN /\ m_write_buf' = lines /\ m_fmt_buf' = m_write_buf
           /\ m_write_ready' = TRUE /\ NotifyWriter
      ELSE m_fmt_buf' = lines /\ UNCHANGED <<m_write_buf, m_write_ready, writer>>

\* The batch is formatted and, if there is enough of it, handed over; without
\* a line the consumer goes idle and hands over what there is.
PollEnd ==
    LET lines == FormatLines(batch)
    IN /\ ConsumerStep("poll", IF batch = <<>> THEN "idle" ELSE "top")
       /\ ~MorePolling /\ WriteMutexFree
       /\ m_poll_index' = idx - 1
       /\ HandOver(lines, IF batch = <<>> THEN lines # <<>> ELSE Len(lines) >= Threshold)
       /\ idx' = 1 /\ polled' = 0 /\ batch' = <<>>
       /\ UNCHANGED <<lifeVars, rings, m_slots, logVars, output, fileVars, stopVars, m_need_flush, buf>>

HasData == \E i \in DOMAIN m_slots : NotEmpty(Ring(m_slots[i]))

\* Regression: the writer is not woken for a flush without lines.
IdleForgets ==
    /\ ConsumerStep("idle", "top")
    /\ UNCHANGED <<lifeVars, ringVars, logVars, pollVars, bufVars, output, fileVars, stopVars,
                   m_need_flush, writer, buf>>

\* Nothing to do: wait, or wake the writer for a flush: it owns the fsync and
\* clears m_need_flush.
Idle ==
    LET wake == ~HasData /\ m_running /\ m_need_flush
    IN /\ ConsumerStep("idle", "top")
       /\ wake => WriteMutexFree
       /\ m_write_ready' = (m_write_ready \/ wake)
       /\ IF wake THEN NotifyWriter ELSE UNCHANGED writer
       /\ UNCHANGED <<lifeVars, ringVars, logVars, pollVars, m_fmt_buf, m_write_buf,
                      output, fileVars, stopVars, m_need_flush, buf>>

\* Regression: the final drain takes one batch of each slot.
DrainOnce ==
    /\ IF batch # <<>>
         THEN /\ ConsumerStep("drain", "drain")
              /\ m_fmt_buf' = FormatLines(batch) /\ batch' = <<>>
              /\ UNCHANGED <<idx, rings>>
       ELSE IF idx <= Len(m_slots)
         THEN /\ ConsumerStep("drain", "drain")
              /\ \E n \in 0..MaxBatch : Turn(n)
              /\ idx' = idx + 1
              /\ UNCHANGED m_fmt_buf
       ELSE /\ ConsumerStep("drain", "handover")
            /\ idx' = 1 /\ UNCHANGED <<rings, batch, m_fmt_buf>>
    /\ UNCHANGED <<lifeVars, m_slots, m_poll_index, logVars, polled, m_write_buf,
                   m_write_ready, output, fileVars, stopVars, m_need_flush, writer, buf>>

\* Final drain: batch by batch, each formatted, until a slot has no more.
Drain ==
    /\ IF batch # <<>>
         THEN /\ ConsumerStep("drain", "drain")
              /\ m_fmt_buf' = FormatLines(batch) /\ batch' = <<>>
              /\ UNCHANGED <<idx, rings>>
       ELSE IF idx <= Len(m_slots)
         THEN /\ ConsumerStep("drain", "drain")
              /\ \E n \in 0..MaxBatch : Turn(n)
              /\ idx' = IF batch' = <<>> THEN idx + 1 ELSE idx
              /\ UNCHANGED m_fmt_buf
       ELSE /\ ConsumerStep("drain", "handover")
            /\ idx' = 1 /\ UNCHANGED <<rings, batch, m_fmt_buf>>
    /\ UNCHANGED <<lifeVars, m_slots, m_poll_index, logVars, polled, m_write_buf,
                   m_write_ready, output, fileVars, stopVars, m_need_flush, writer, buf>>

\* The last lines are handed over, and the writer is notified in any case.
LastHandOver ==
    /\ ConsumerStep("handover", "done") /\ WriteMutexFree
    /\ IF m_fmt_buf # <<>> THEN HandOver(m_fmt_buf, TRUE) ELSE NotifyWriter /\ UNCHANGED bufVars
    /\ UNCHANGED <<lifeVars, ringVars, logVars, pollVars, output, fileVars, stopVars,
                   m_need_flush, buf>>

Consumer ==
    \/ OpenLogFile \/ ConsumerTop \/ Poll \/ PollEnd \/ Idle \/ Drain \/ LastHandOver

-----------------------------------------------------------------------------
(* The writer.                                                             *)

WriterStep(from, to) == writer = from /\ writer' = to

\* Under m_write_mutex: take the buffer, leave, or decide to wait.
WriterTake ==
    /\ WriterStep("lock", IF m_write_ready THEN "write"
                          ELSE IF ~m_running THEN "leaving" ELSE "drowsy")
    /\ m_write_ready' = FALSE
    /\ buf' = IF m_write_ready THEN m_write_buf ELSE buf
    /\ m_write_buf' = IF m_write_ready THEN buf ELSE m_write_buf
    /\ UNCHANGED <<lifeVars, ringVars, logVars, pollVars, m_fmt_buf,
                   output, fileVars, stopVars, m_need_flush, consumer>>

\* Only now does it wait, and give up m_write_mutex.
WriterSleeps ==
    /\ WriterStep("drowsy", "asleep")
    /\ UNCHANGED <<lifeVars, ringVars, logVars, pollVars, bufVars, output, fileVars, stopVars,
                   m_need_flush, consumer, buf>>

\* The lines go to the file, or to stderr if it is not open; fsync.  (A file
\* that is too long is first closed, renamed and replaced by another.)
Write ==
    /\ WriterStep("write", "lock")
    /\ output' = output \o buf
    /\ misplaced' = IF m_log_fd THEN misplaced ELSE misplaced \cup ToSet(buf)
    /\ buf' = <<>> /\ m_need_flush' = FALSE
    /\ UNCHANGED <<lifeVars, ringVars, logVars, pollVars, bufVars, m_log_fd,
                   stopVars, consumer>>

\* The writer's end: its buffer is empty, the file is closed.
CloseLogFile ==
    /\ WriterStep("leaving", "done")
    /\ m_log_fd' = FALSE
    /\ UNCHANGED <<lifeVars, ringVars, logVars, pollVars, bufVars, output, misplaced,
                   stopVars, m_need_flush, consumer, buf>>

Writer == WriterTake \/ WriterSleeps \/ Write \/ CloseLogFile

-----------------------------------------------------------------------------
(* flush() and stop().                                                     *)

Flush(p) ==
    /\ p \in script.flushers /\ next[p] = Len(script.lines[p])
    /\ LogStep(p, "idle", "flushed")
    /\ m_need_flush' = (m_need_flush \/ m_running)
    /\ UNCHANGED <<lifeVars, ringVars, script, next, published, pollVars, bufVars, output, fileVars, stopVars,
                   consumer, writer, buf>>

StopStep(from, to) == stopPc = from /\ stopPc' = to

InsideLog == {p \in Threads : pc[p] \notin {"idle", "flushed"}}

\* flushAll: both buffers go to the file, the newer one first.  It goes ahead
\* although its try_lock may have failed, which is harmless where m_write_mutex
\* is held here; that it may meet the consumer in the middle of formatting a
\* line or of a swap is not modelled.
FlushAll ==
    /\ output' = IF m_log_fd THEN output \o m_fmt_buf \o m_write_buf ELSE output
    /\ m_fmt_buf' = IF m_log_fd THEN <<>> ELSE m_fmt_buf
    /\ m_write_buf' = IF m_log_fd THEN <<>> ELSE m_write_buf

\* rocketCrashHandler: flush, and die of the signal.
Crash ==
    /\ script.exits
    /\ stopPc # "crashed" /\ stopPc' = "crashed"
    /\ FlushAll
    /\ UNCHANGED <<lifeVars, ringVars, logVars, pollVars, m_write_ready, fileVars,
                   exposed, m_need_flush, consumer, writer, buf>>

\* atexitFlush, with the logger's threads still running; ~Logger stops them then.
AtExit ==
    /\ script.exits
    /\ StopStep("idle", "exiting")
    /\ FlushAll
    /\ UNCHANGED <<lifeVars, ringVars, logVars, pollVars, m_write_ready, fileVars,
                   exposed, m_need_flush, consumer, writer, buf>>

\* stop(): with the mutex, end a running logger ...
StopFlag ==
    /\ lifecycle = None
    /\ StopStep(IF script.exits THEN "exiting" ELSE "idle",
                IF m_running THEN "notify" ELSE "returned")
    /\ lifecycle' = IF m_running THEN "stop" ELSE None
    /\ m_running' = FALSE
    /\ exposed' = exposed \cup {Line(p) : p \in InsideLog}
    /\ UNCHANGED <<m_generation, ringVars, logVars, pollVars, bufVars, output, fileVars,
                    m_need_flush, consumer, writer, buf>>

\* ... notify both threads, without their mutexes ...
StopNotify ==
    /\ StopStep("notify", "join")
    /\ NotifyWriter
    /\ UNCHANGED <<lifeVars, ringVars, logVars, pollVars, bufVars, output, fileVars, 
                   exposed, m_need_flush, consumer, buf>>

\* ... and join them.
StopJoin ==
    /\ StopStep("join", "returned")
    /\ consumer = "done" /\ writer = "done"
    /\ lifecycle' = None
    /\ UNCHANGED <<m_running, m_generation, ringVars, logVars, pollVars, bufVars,
                   output, fileVars, exposed,
                   m_need_flush, consumer, writer, buf>>

Stopper == StopNotify \/ StopJoin

-----------------------------------------------------------------------------

Init ==
    /\ script \in Scripts
    /\ m_running = FALSE /\ m_generation = 0 /\ lifecycle = None
    /\ m_need_flush = FALSE
    /\ rings = [p \in Threads |-> <<>>] /\ m_slots = <<>> /\ m_poll_index = 0
    /\ pc = [p \in Threads |-> "idle"] /\ next = [p \in Threads |-> 0]
    /\ consumer = "none" /\ idx = 1 /\ polled = 0 /\ batch = <<>>
    /\ m_fmt_buf = <<>> /\ m_write_buf = <<>> /\ m_write_ready = FALSE
    /\ writer = "none" /\ buf = <<>>
    /\ stopPc = "idle" /\ m_log_fd = FALSE /\ misplaced = {}
    /\ output = <<>> /\ published = {} /\ exposed = {}

Next ==
    /\ stopPc # "crashed"
    /\ \/ \E p \in Threads : LogCall(p) \/ Flush(p) \/ Log(p)
       \/ Consumer \/ Writer \/ Stopper
       \/ StopFlag \/ Crash \/ AtExit

\* The threads of the program go on until it dies; nobody has to log, flush,
\* stop or exit.
Fairness ==
    /\ \A p \in Threads : WF_vars(stopPc # "crashed" /\ Log(p))
    /\ WF_vars(stopPc # "crashed" /\ Consumer)
    /\ WF_vars(stopPc # "crashed" /\ Writer)
    /\ WF_vars(stopPc # "crashed" /\ Stopper)

Spec == Init /\ [][Next]_vars /\ Fairness

-----------------------------------------------------------------------------
(* Properties.                                                             *)

AllLines == UNION {UNION {{p} \X DOMAIN s.lines[p] : p \in Threads} : s \in Scripts}

Times(l, s) == Cardinality({i \in DOMAIN s : s[i] = l})

\* The argument lists that come out of an entry as they went in.
IntactLists ==
    {args \in UNION {ToSet(s.lines[p]) : p \in Threads, s \in Scripts} : Intact(args)}

\* The published lines of a ring that are not yet dequeued, oldest first.
Unread(r) ==
    LET n == Cardinality({k \in r.dq..(r.pos - 1) : r.sequence[Cell(k)] = k + 1})
    IN [i \in 1..n |-> r.storage[Cell(r.dq + i - 1)]]

AllSlots == UNION {{p} \X DOMAIN rings[p] : p \in Threads}

\* Every line that log() has published is in exactly one place (a ring, the
\* batch, one of the three buffers or the output) and no other line is anywhere:
\* the ring neither overwrites a line nor hands it out twice, and no swap
\* duplicates or drops a buffer, in spite of restarts and of a flushAll between
\* them.
Conserved ==
    \A l \in AllLines :
        Times(l, batch) + Times(l, m_fmt_buf) + Times(l, m_write_buf) + Times(l, buf)
        + Times(l, output)
        + Cardinality({s \in AllSlots : Times(l, Unread(Ring(s))) = 1})
        = IF l \in published THEN 1 ELSE 0

\* stop() leaves no line behind in a ring, and a restart drops none with the
\* old slots, except lines whose log() call the stop() overlapped.
NotAbandoned ==
    \A s \in AllSlots :
        s \notin ToSet(m_slots) \/ consumer = "done" =>
            \A i \in DOMAIN Unread(Ring(s)) : Unread(Ring(s))[i] \in exposed

\* What is written is what was logged: the three places that know the layout of
\* the arguments (the pass that measures it, the one that writes it and
\* runFormat) agree, so that nothing is written beyond the entry or its heap
\* block and every argument is read back, except those that the format cannot
\* carry: a null C string (its offset is never written), a char, float or long
\* double and what is behind it (tagged as a pointer, of another size), and a
\* string whose offset does not fit 16 bits.  And it is written to the file,
\* which the consumer opens and the writer closes, unless the logger was
\* restarted.
LinesIntact ==
    /\ m_generation = 1 => misplaced = {}
    /\ \A i \in DOMAIN output : script.lines[output[i][1]][output[i][2]] \in IntactLists

\* If nobody calls stop(), every published line is written in the end and every
\* flush() is done, with or without lines to write.  And a stop() returns: both
\* threads end although it notifies them without holding their mutexes.
Settles ==
    <>[](IF stopPc \in {"idle", "exiting"}
           THEN published = ToSet(output) /\ ~m_need_flush
           ELSE stopPc \in {"returned", "crashed"})
=============================================================================
