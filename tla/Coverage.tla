------------------------------ MODULE Coverage ------------------------------
(***************************************************************************)
(* The programs for which gathers and broadcasts reach every reader, put   *)
(* as a condition on the program: what the passes rely on without checking *)
(* it.  A value produced on one device is taken                            *)
(*   - after a broadcast of the whole of it, or                            *)
(*   - by a loop with the same bounds, each iteration its own row.         *)
(* A loop takes what it loads, and also what it does not store of the rows *)
(* it stores to, since these travel whole.                                 *)
(***************************************************************************)
EXTENDS ScheduleEmission

TakesIn(item, i) ==
  LoadsOf(item, i)
  \cup ({c \in Cells : c[2] = i /\ \E a \in Stores(item) : a.mem = c[1]} \ StoresOf(item, i))

Takes(item) ==
  IF item.kind = "serial" THEN item.reads
  ELSE UNION {TakesIn(item, i) : i \in item.lb .. item.ub - 1}

(* Some run of item j comes after a run of item k.                         *)
RunsBefore(prog, k, j) ==
  LET trace == Trace(prog)
  IN  \E s, t \in DOMAIN trace : s < t /\ trace[s] = k /\ trace[t] = j

StaysOnDevice(prog, k, j, m) ==
  LET producer == prog.items[k]
      consumer == prog.items[j]
  IN  /\ consumer.kind = "parallel"
      /\ <<consumer.lb, consumer.ub>> = <<producer.lb, producer.ub>>
      /\ \A a \in AccessesTo(consumer, m) : a.form = "exact" /\ a.dim = 0 /\ a.off = 0

ReadersServed(prog) ==
  \A k \in Parallel(prog) : \A j \in Items(prog) :
    RunsBefore(prog, k, j) /\ ~needBroadcast(prog, k) =>
      \A c \in WrittenBy(prog.items[k]) \cap Takes(prog.items[j]) : StaysOnDevice(prog, k, j, c[1])

(* "This assumes all buffers are contiguous in the source buffer", and a   *)
(* rank-1 buffer is taken to start at its first element.                   *)
Contiguous(slabs) ==
  /\ \A i \in 1 .. Len(slabs) - 1 :
       /\ slabs[i + 1].mem = slabs[i].mem
       /\ slabs[i + 1].lo = slabs[i].lo + slabs[i].len
  /\ slabs # <<>> /\ ~ RankOf[slabs[1].mem] >= 2 => slabs[1].lo = 0

Covered(prog) ==
  /\ ReadersServed(prog)
  /\ \A level \in ToSet(LevelVector(prog)) : Contiguous(toBroadcast(level))
=============================================================================
