----------------------------- MODULE SpanTraces -----------------------------
(***************************************************************************)
(* fibre_tracing's layer (tracing/src/lib.rs): spans under a root join its *)
(* trace, and closing the root finishes the trace.  The maps `belongs`,    *)
(* `open` and `finished` have a lock each, and the layer's calls take one  *)
(* after the other; the calls of different threads interleave between.     *)
(*                                                                         *)
(* External is tracing_subscriber's registry: it calls on_new_span before  *)
(* anyone else sees the span, keeps a span as long as a child of it lives, *)
(* and calls on_close once, when its handle and its children are gone.     *)
(***************************************************************************)
EXTENDS Integers, Sequences, SequencesExt, FiniteSets, FiniteSetsExt

CONSTANTS Threads, Spans, Ring, None

VARIABLES reg, th, belongs, open, finished, hist
vars == <<reg, th, belongs, open, finished, hist>>

Unborn == [state |-> "unborn", parent |-> None, root |-> FALSE]
Rest == [pc |-> "idle", span |-> None, root |-> None, ids |-> <<>>]

Init ==
  /\ reg = [s \in Spans |-> Unborn]
  /\ th = [t \in Threads |-> Rest]
  /\ belongs = [s \in Spans |-> None]
  /\ open = [s \in Spans |-> None]
  /\ finished = <<>>
  /\ hist = [heard |-> {}]

Children(s) == {c \in Spans : reg[c].parent = s /\ reg[c].state \notin {"unborn", "closed"}}

(* a thread opens a span, under one that is open or under none *)
NewSpan(t, s) ==
  /\ th[t].pc = "idle" /\ reg[s].state = "unborn"
  /\ \E root \in BOOLEAN, p \in {None} \cup {q \in Spans : reg[q].state = "open"} :
       /\ reg' = [reg EXCEPT ![s] = [state |-> "new", parent |-> p, root |-> root]]
       /\ th' = [th EXCEPT ![t] = [@ EXCEPT !.pc = "lookup", !.span = s]]
  /\ UNCHANGED <<belongs, open, finished, hist>>

Born(t) == reg' = [reg EXCEPT ![th[t].span].state = "open"] /\ th' = [th EXCEPT ![t] = Rest]
(* on_new_span: a root is its own; another span belongs where its parent does, or nowhere *)
Lookup(t) ==
  /\ th[t].pc = "lookup"
  /\ LET s == th[t].span
         root == IF reg[s].root THEN s ELSE IF reg[s].parent = None THEN None ELSE belongs[reg[s].parent]
     IN  IF root = None THEN Born(t)
         ELSE th' = [th EXCEPT ![t].pc = "join", ![t].root = root] /\ UNCHANGED reg
  /\ UNCHANGED <<belongs, open, finished, hist>>

IndexOf(trace, s) == IF \E i \in DOMAIN trace : trace[i].id = s THEN CHOOSE i \in DOMAIN trace : trace[i].id = s ELSE 0
(* the span's entry: its parent's place in the trace and its depth *)
Entry(trace, s) ==
  LET at == IndexOf(trace, reg[s].parent)
  IN  [id |-> s, parent |-> at, depth |-> IF at = 0 THEN 0 ELSE trace[at].depth + 1, closed |-> FALSE]
Join(t) ==
  /\ th[t].pc = "join"
  /\ LET s == th[t].span
         r == th[t].root
         trace == IF reg[s].root THEN <<>> ELSE open[r]
     IN  IF trace = None THEN Born(t) /\ UNCHANGED open
         ELSE /\ open' = [open EXCEPT ![r] = Append(trace, Entry(trace, s))]
              /\ th' = [th EXCEPT ![t].pc = "belong"] /\ UNCHANGED reg
  /\ UNCHANGED <<belongs, finished, hist>>
Belong(t) ==
  /\ th[t].pc = "belong"
  /\ belongs' = [belongs EXCEPT ![th[t].span] = th[t].root]
  /\ Born(t)
  /\ UNCHANGED <<open, finished, hist>>

(* the handle goes; the last of it and its children's calls on_close *)
DropSpan(t, s) ==
  /\ th[t].pc = "idle" /\ reg[s].state = "open"
  /\ reg' = [reg EXCEPT ![s].state = "dropped"]
  /\ UNCHANGED <<th, belongs, open, finished, hist>>
(* on_close: out of `belongs` first *)
Close(t, s) ==
  /\ th[t].pc = "idle" /\ reg[s].state = "dropped" /\ Children(s) = {}
  /\ reg' = [reg EXCEPT ![s].state = IF belongs[s] = None THEN "closed" ELSE "closing"]
  /\ belongs' = [belongs EXCEPT ![s] = None]
  /\ th' = IF belongs[s] = None THEN th ELSE [th EXCEPT ![t] = [@ EXCEPT !.pc = "close", !.span = s, !.root = belongs[s]]]
  /\ UNCHANGED <<open, finished, hist>>

Gone(t) == reg' = [reg EXCEPT ![th[t].span].state = "closed"] /\ th' = [th EXCEPT ![t] = Rest]
MutEndsTrace(s, root) == TRUE
(* only the root's own close ends the trace *)
EndsTrace(s, root) == s = root
CloseEntry(t) ==
  /\ th[t].pc = "close"
  /\ LET s == th[t].span
         r == th[t].root
         trace == [i \in DOMAIN open[r] |-> [open[r][i] EXCEPT !.closed = @ \/ open[r][i].id = s]]
     IN  IF open[r] = None THEN Gone(t) /\ UNCHANGED open
         ELSE IF EndsTrace(s, r)
         THEN /\ open' = [open EXCEPT ![r] = None] /\ UNCHANGED reg
              /\ th' = [th EXCEPT ![t].pc = "clear", ![t].ids = trace]
         ELSE open' = [open EXCEPT ![r] = trace] /\ Gone(t)
  /\ UNCHANGED <<belongs, finished, hist>>
(* the ids the trace took leave `belongs`; the listeners hear of the trace *)
Clear(t) ==
  /\ th[t].pc = "clear"
  /\ belongs' = [s \in Spans |-> IF IndexOf(th[t].ids, s) # 0 THEN None ELSE belongs[s]]
  /\ th' = [th EXCEPT ![t].pc = "finish"]
  /\ hist' = [hist EXCEPT !.heard = @ \cup {[root |-> th[t].root, spans |-> th[t].ids]}]
  /\ UNCHANGED <<reg, open, finished>>
(* the ring keeps the last traces *)
Finish(t) ==
  /\ th[t].pc = "finish"
  /\ LET all == Append(finished, [root |-> th[t].root, spans |-> th[t].ids])
     IN  finished' = IF Ring = 0 THEN finished ELSE SubSeq(all, Max({1, Len(all) - Ring + 1}), Len(all))
  /\ Gone(t)
  /\ UNCHANGED <<belongs, open, hist>>
(* Traces::clear *)
ClearRing ==
  /\ finished # <<>> /\ finished' = <<>>
  /\ UNCHANGED <<reg, th, belongs, open, hist>>

Next ==
  \/ \E t \in Threads, s \in Spans : NewSpan(t, s) \/ DropSpan(t, s) \/ Close(t, s)
  \/ \E t \in Threads : Lookup(t) \/ Join(t) \/ Belong(t) \/ CloseEntry(t) \/ Clear(t) \/ Finish(t)
  \/ ClearRing
Spec == Init /\ [][Next]_vars

-----------------------------------------------------------------------------
(* the root a span is under: the nearest marked one on the way up *)
UnderOf[n \in 0 .. Cardinality(Spans)] ==
  [s \in Spans |-> IF reg[s].root THEN s ELSE IF n = 0 \/ reg[s].parent = None THEN None ELSE UnderOf[n - 1][reg[s].parent]]
Under(s) == UnderOf[Cardinality(Spans)][s]

(* A finished trace holds the root and every span that opened under it,    *)
(* each once, closed, after its parent and one deeper; and a closed span   *)
(* leaves nothing behind in the maps.                                      *)
TracesWhole ==
  /\ \A h \in hist.heard :
       /\ {h.spans[i].id : i \in DOMAIN h.spans} = {s \in Spans : reg[s].state # "unborn" /\ Under(s) = h.root}
       /\ \A i \in DOMAIN h.spans :
            LET e == h.spans[i]
            IN  /\ e.closed /\ \A j \in DOMAIN h.spans : h.spans[j].id = e.id => i = j
                /\ IF i = 1 THEN e.id = h.root /\ e.parent = 0
                   ELSE e.parent \in 1 .. i - 1 /\ h.spans[e.parent].id = reg[e.id].parent
                        /\ e.depth = h.spans[e.parent].depth + 1
  /\ \A s \in Spans : reg[s].state = "closed" => belongs[s] = None /\ open[s] = None
  /\ Len(finished) <= Ring
=============================================================================
