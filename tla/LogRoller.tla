------------------------------ MODULE LogRoller -----------------------------
(***************************************************************************)
(* fibre_logging's rolling file (logging/src/roller.rs).  Records are      *)
(* numbered and of size one; a period is the time cut to the granularity.  *)
(* A rolled file is named by its period, its sequence in the period and    *)
(* whether it is compressed.  The process may crash between any two file   *)
(* operations, and a file operation may fail; a restart opens the active   *)
(* file again.  Directory listings, name formats and gzip are external.    *)
(***************************************************************************)
EXTENDS Integers, Sequences, SequencesExt, FiniteSets, FiniteSetsExt

CONSTANTS Policies, \* [maxSize, retained, uncompressed, maxTime, perPeriod, records, crashes, faults]; None where unset
          None

VARIABLES policy, now, files, active, roller, hist
vars == <<policy, now, files, active, roller, hist>>

(* calculate_period_start; a granularity of "never" has one period *)
PeriodStart(t) == IF policy.perPeriod = None THEN 0 ELSE t \div policy.perPeriod

File(period, seq, gz, body, whole) == [period |-> period, seq |-> seq, gz |-> gz, body |-> body, whole |-> whole]
Name(f) == <<f.period, f.seq, f.gz>>

(* RolledFile::cmp: the newest period first, in it the highest sequence; equals in any order *)
NotAfter(f, g) == f.period > g.period \/ (f.period = g.period /\ f.seq >= g.seq)
Sorted(found, order) ==
  /\ Len(order) = Cardinality(found) /\ ToSet(order) = found
  /\ \A i, j \in 1 .. Len(order) : i < j => NotAfter(order[i], order[j])

Off == [pc |-> "off", period |-> 0, size |-> 0, null |-> FALSE, buf |-> <<>>, found |-> {}, todo |-> <<>>, then |-> "idle", rec |-> 0]

Init ==
  /\ policy \in Policies
  /\ now = 0 /\ files = {} /\ active = None
  /\ roller = Off
  /\ hist = [next |-> 1, lost |-> {}, crashes |-> 0, faults |-> 0, torn |-> FALSE, clobbered |-> FALSE]

Content == IF active = None THEN <<>> ELSE active
(* new_at_time and open_file: the active file goes on, under the period of now *)
Open ==
  /\ roller.pc = "off"
  /\ active' = Content
  /\ roller' = [Off EXCEPT !.pc = "idle", !.period = PeriodStart(now), !.size = Len(Content)]
  /\ UNCHANGED <<policy, now, files, hist>>

(* write_internal: a roll first when the period is over *)
Write ==
  /\ roller.pc = "idle" /\ hist.next <= policy.records
  /\ roller' = [roller EXCEPT !.pc = IF PeriodStart(now) > roller.period THEN "close" ELSE "put", !.then = "put",
                              !.rec = hist.next]
  /\ hist' = [hist EXCEPT !.next = @ + 1]
  /\ UNCHANGED <<policy, now, files, active>>
(* and one after the write that fills the file *)
Put ==
  /\ roller.pc = "put"
  /\ LET full == policy.maxSize # None /\ roller.size + 1 >= policy.maxSize
     IN  roller' = [roller EXCEPT !.pc = IF full THEN "close" ELSE "idle", !.then = "idle", !.size = @ + 1,
                                  !.buf = IF roller.null THEN @ ELSE Append(@, roller.rec)]
  /\ hist' = IF roller.null THEN [hist EXCEPT !.lost = @ \cup {roller.rec}] ELSE hist
  /\ UNCHANGED <<policy, now, files, active>>
Flush ==
  /\ roller.pc = "idle" /\ roller.buf # <<>>
  /\ active' = active \o roller.buf
  /\ roller' = [roller EXCEPT !.buf = <<>>]
  /\ UNCHANGED <<policy, now, files, hist>>

(* roll 1: the writer is swapped for one on /dev/null, and dropped with what it buffered *)
CloseWriter ==
  /\ roller.pc = "close"
  /\ active' = IF active = None THEN None ELSE active \o roller.buf
  /\ roller' = [roller EXCEPT !.pc = "rename", !.null = TRUE, !.buf = <<>>]
  /\ UNCHANGED <<policy, now, files, hist>>

MutNextSequence(found) == 1
(* roll 3: the next free sequence of the current period *)
NextSequence(found) == Max({0} \cup {f.seq : f \in {g \in found : g.period = roller.period}}) + 1
(* roll 2 to 4: find_rolled_files, and the active file takes its rolled name *)
Rename ==
  /\ roller.pc = "rename"
  /\ LET f == File(roller.period, NextSequence(files), FALSE, Content, TRUE)
         over == {g \in files : Name(g) = Name(f)}
     IN  /\ files' = IF active = None THEN files ELSE (files \ over) \cup {f}
         /\ roller' = [roller EXCEPT !.pc = "open", !.found = files \cup {f}]
         /\ hist' = [hist EXCEPT !.clobbered = @ \/ (active # None /\ over # {})]
  /\ active' = None
  /\ UNCHANGED <<policy, now>>
(* roll 5: a new active file, in the period of now *)
Reopen ==
  /\ roller.pc = "open"
  /\ active' = Content
  /\ \E order \in [1 .. Cardinality(roller.found) -> roller.found] :
       /\ Sorted(roller.found, order)
       /\ roller' = [roller EXCEPT !.pc = "retain", !.null = FALSE, !.size = Len(Content), !.period = PeriodStart(now),
                                   !.found = {}, !.todo = order]
  /\ UNCHANGED <<policy, now, files, hist>>
(* an error of 1 to 5 ends the roll and the write; the writer stays on /dev/null *)
RollFails ==
  /\ roller.pc \in {"rename", "open"} /\ hist.faults < policy.faults
  /\ roller' = [roller EXCEPT !.pc = "idle", !.found = {}]
  /\ hist' = [hist EXCEPT !.faults = @ + 1, !.lost = IF roller.then = "put" THEN @ \cup {roller.rec} ELSE @]
  /\ UNCHANGED <<policy, now, files, active>>

(* the files past the first n of the list that are still there, in its order *)
Beyond(list, n) == IF n = None THEN <<>> ELSE SubSeq(list, n + 1, Len(list))
Keep(list, n) == IF n = None THEN list ELSE SubSeq(list, 1, Min({n, Len(list)}))
There(list) == SelectSeq(list, LAMBDA f : f \in files)

(* cleanup 1: the files past the retention limit go, one by one *)
Retain ==
  /\ roller.pc = "retain"
  /\ LET old == There(Beyond(roller.todo, policy.retained))
     IN  IF old # <<>>
         THEN files' = files \ {old[1]} /\ UNCHANGED roller
         ELSE /\ roller' = [roller EXCEPT !.pc = "compress", !.todo = Keep(@, policy.retained)]
              /\ UNCHANGED files
  /\ UNCHANGED <<policy, now, active, hist>>
ToCompress == SelectSeq(There(Beyond(roller.todo, policy.uncompressed)), LAMBDA f : ~f.gz)
(* cleanup 2, compress_file: the copy is written, *)
CompressStart ==
  /\ roller.pc = "compress" /\ ToCompress # <<>>
  /\ LET f == ToCompress[1]
     IN  /\ files' = {g \in files : Name(g) # <<f.period, f.seq, TRUE>>} \cup {File(f.period, f.seq, TRUE, <<>>, FALSE)}
         /\ roller' = [roller EXCEPT !.pc = "copy", !.found = {f}]
  /\ UNCHANGED <<policy, now, active, hist>>
(* finished, *)
CompressCopy ==
  /\ roller.pc = "copy"
  /\ \E f \in roller.found :
       files' = {g \in files : Name(g) # <<f.period, f.seq, TRUE>>} \cup {File(f.period, f.seq, TRUE, f.body, TRUE)}
  /\ roller' = [roller EXCEPT !.pc = "unlink"]
  /\ UNCHANGED <<policy, now, active, hist>>
(* and the original removed *)
CompressEnd ==
  /\ roller.pc = "unlink"
  /\ files' = files \ roller.found
  /\ roller' = [roller EXCEPT !.pc = "compress", !.found = {}]
  /\ UNCHANGED <<policy, now, active, hist>>
Cleaned ==
  /\ roller.pc = "compress" /\ ToCompress = <<>>
  /\ roller' = [roller EXCEPT !.pc = roller.then, !.todo = <<>>]
  /\ UNCHANGED <<policy, now, files, active, hist>>

(* the record a write holds that has not been put yet *)
Held == IF roller.pc = "put" \/ (roller.pc # "idle" /\ roller.then = "put") THEN {roller.rec} ELSE {}
(* the process dies: what was buffered is lost, and a half-written copy stays *)
Crash ==
  /\ roller.pc # "off" /\ hist.crashes < policy.crashes
  /\ roller' = Off
  /\ hist' = [hist EXCEPT !.crashes = @ + 1,
                          !.lost = @ \cup ToSet(roller.buf) \cup Held,
                          !.torn = @ \/ roller.pc \in {"retain", "copy", "unlink"}]
  /\ UNCHANGED <<policy, now, files, active>>
Tick == now < policy.maxTime /\ now' = now + 1 /\ UNCHANGED <<policy, files, active, roller, hist>>

Next == Open \/ Write \/ Put \/ Flush \/ CloseWriter \/ Rename \/ Reopen \/ RollFails \/ Retain
        \/ CompressStart \/ CompressCopy \/ CompressEnd \/ Cleaned \/ Crash \/ Tick
Spec == Init /\ [][Next]_vars

-----------------------------------------------------------------------------
Kept == {f \in files : f.whole}
InFiles == UNION {ToSet(f.body) : f \in Kept}
Everything == InFiles \cup ToSet(Content) \cup ToSet(roller.buf)

(* A roll never renames over a file, and the rolled files in the order of  *)
(* period and sequence, then the active file, then the buffer, hold the    *)
(* records in the order they were written.                                 *)
LogsInOrder ==
  /\ ~hist.clobbered
  /\ \A f \in Kept, i \in ToSet(Content) \cup ToSet(roller.buf) : \A r \in ToSet(f.body) : r < i
  /\ \A i \in ToSet(Content), j \in ToSet(roller.buf) : i < j
  /\ \A f, g \in Kept : Name(f) # Name(g) /\ NotAfter(g, f) /\ ~NotAfter(f, g) =>
       \A r \in ToSet(f.body), s \in ToSet(g.body) : r < s

(* A record that no crash and no failed write lost is still there, or went *)
(* with the oldest files: retention keeps the most recent ones.            *)
OldestGoFirst ==
  \A r \in (1 .. hist.next - 1) \ hist.lost :
    r \notin Everything \cup Held => policy.retained # None /\ \A s \in InFiles : r < s
(* the same between clean-ups, as long as no crash interrupted one *)
RetentionKeepsNewest == ~hist.torn /\ roller.pc # "retain" => OldestGoFirst
=============================================================================
