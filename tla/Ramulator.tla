----------------------------- MODULE Ramulator -----------------------------
(***************************************************************************)
(* The DRAM side: the glue that hands requests to Ramulator and its        *)
(* answers back (ramulator.cc), and one memory controller (Controller.h):  *)
(* read and write queues, the switch between serving one and the other,    *)
(* answers on their way.                                                   *)
(*                                                                         *)
(* Timing is left out: which request of the queue being served goes next,  *)
(* and which answer arrives first, is any choice.  The commands a request  *)
(* takes are one step: the one that takes it out of its queue, be it the   *)
(* activation of its row (it is in actq then) or the access itself.        *)
(***************************************************************************)
EXTENDS Integers, Sequences, FiniteSets, SequencesExt

CONSTANTS
  Lines,       \* line addresses
  Ids,         \* request buffers of Scarab, which stand for its Mem_Req
  ReadMax,     \* RAMULATOR_READQ_ENTRIES
  WriteMax,    \* RAMULATOR_WRITEQ_ENTRIES
  HighMark,    \* unsigned(wr_high_watermark * writeq.max)
  LowMark      \* unsigned(wr_low_watermark * writeq.max)

ASSUME QueuesAssumption ==
  /\ ReadMax \in Nat \ {0} /\ WriteMax \in Nat \ {0}
  /\ HighMark \in 0 .. WriteMax - 1
  /\ LowMark \in 0 .. WriteMax

VARIABLES
  readq,          \* reads not begun, at most one of a line
  writeq,         \* writes not begun
  pending,        \* reads begun: in or pending with their data coming
  write_mode,     \* writes are being served
  inflight,       \* inflight_read_reqs: requests waiting for a line
  resp            \* resp_queue: requests to hand back to Scarab

dramVars == <<readq, writeq, pending, write_mode, inflight, resp>>

DramTypeOK ==
  /\ readq \subseteq Lines /\ pending \subseteq Lines
  /\ writeq \in Seq(Lines)
  /\ write_mode \in BOOLEAN
  /\ inflight \in [Lines -> Seq(Ids)]
  /\ resp \in Seq(Ids)

DramInit ==
  /\ readq = {} /\ pending = {}
  /\ writeq = <<>>
  /\ write_mode = FALSE
  /\ inflight = [line \in Lines |-> <<>>]
  /\ resp = <<>>

(***************************************************************************)
(* ramulator_send                                                          *)
(***************************************************************************)

\* Is there room?  A line asked for already needs none.
ReadAccepted(line) == inflight[line] # <<>> \/ Cardinality(readq) < ReadMax

WriteAccepted == Len(writeq) < WriteMax

\* Slip: a second request of a line starts a list of its own.
Waiting_Overwrite(line, id) == <<id>>

Waiting(line, id) == Append(inflight[line], id)

\* A write still queued answers a read of its line at once.
SendRead(line, id) ==
  /\ ReadAccepted(line)
  /\ inflight' = [inflight EXCEPT ![line] = Waiting(line, id)]
  /\ CASE inflight[line] # <<>> -> UNCHANGED <<readq, pending>>
       [] inflight[line] = <<>> /\ Contains(writeq, line) ->
            pending' = pending \cup {line} /\ UNCHANGED readq
       [] OTHER -> readq' = readq \cup {line} /\ UNCHANGED pending
  /\ UNCHANGED <<writeq, write_mode, resp>>

\* The request of a write is not kept: its buffer is free at once.
SendWrite(line) ==
  /\ WriteAccepted
  /\ writeq' = Append(writeq, line)
  /\ UNCHANGED <<readq, pending, write_mode, inflight, resp>>

(***************************************************************************)
(* Controller::tick                                                        *)
(***************************************************************************)

\* Slip: reads are served again when fewer writes than that are left.
NextMode_OffByOne ==
  \/ write_mode /\ ~ (Len(writeq) + 1 < LowMark /\ readq # {})
  \/ ~ write_mode /\ Len(writeq) > HighMark

NextMode ==
  \/ write_mode /\ ~ (Len(writeq) < LowMark /\ readq # {})
  \/ ~ write_mode /\ Len(writeq) > HighMark

\* A tick that finds no command ready: the mode may still change.
SwitchMode ==
  /\ NextMode # write_mode
  /\ write_mode' = NextMode
  /\ UNCHANGED <<readq, writeq, pending, inflight, resp>>

ServeRead(line) ==
  /\ ~ NextMode /\ write_mode' = FALSE
  /\ line \in readq
  /\ readq' = readq \ {line}
  /\ pending' = pending \cup {line}
  /\ UNCHANGED <<writeq, inflight, resp>>

ServeWrite(i) ==
  /\ NextMode /\ write_mode' = TRUE
  /\ i \in DOMAIN writeq
  /\ writeq' = RemoveAt(writeq, i)
  /\ UNCHANGED <<readq, pending, inflight, resp>>

\* enqueue_response: all the requests of the line are answered together.
Complete(line) ==
  /\ line \in pending
  /\ pending' = pending \ {line}
  /\ resp' = resp \o inflight[line]
  /\ inflight' = [inflight EXCEPT ![line] = <<>>]
  /\ UNCHANGED <<readq, writeq, write_mode>>

DramStep ==
  \/ SwitchMode
  \/ \E line \in Lines : ServeRead(line) \/ Complete(line)
  \/ \E i \in DOMAIN writeq : ServeWrite(i)

\* ramulator_tick: the oldest answer is handed back when Scarab has room.
Deliver ==
  /\ resp # <<>>
  /\ resp' = Tail(resp)
  /\ UNCHANGED <<readq, writeq, pending, write_mode, inflight>>
=============================================================================
