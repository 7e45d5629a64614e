------------------------------ MODULE Container -----------------------------
(***************************************************************************)
(* fibre_ioc's Container (ioc/src/container.rs, core.rs).  Threads resolve *)
(* and register services; a factory resolves what its service depends on,  *)
(* on the thread that runs it.  A thread's calls of `get` nest, so it has  *)
(* a stack of frames.  The map of providers is a DashMap: a `get` keeps    *)
(* the key's shard read-locked until it returns, readers never wait for a  *)
(* waiting writer, and a registration waits until the shard is free.       *)
(***************************************************************************)
EXTENDS Integers, Sequences, SequencesExt, FiniteSets, FiniteSetsExt

CONSTANTS Threads,
          Clients,  \* [keys, shard, kind, needs, gets, registrations]: what a factory resolves, in order
          None

VARIABLES client, providers, th, hist
vars == <<client, providers, th, hist>>

Keys == client.keys
(* a registration: Provider::Singleton with its cell, or Provider::Transient *)
Provider(kind, gen) == [kind |-> kind, gen |-> gen, cell |-> None, by |-> None]
Frame(k) == [key |-> k, pc |-> "guard", at |-> 1, made |-> None]

Init ==
  /\ client \in Clients
  /\ providers = [k \in Keys |-> IF client.kind[k] = None THEN None ELSE Provider(client.kind[k], 0)]
  /\ th = [t \in Threads |-> [frames |-> <<>>, resolving |-> {}, panicked |-> FALSE]]
  /\ hist = [gets |-> 0, made |-> 0, gen |-> 1, gave |-> [k \in Keys |-> {}]]

Top(t) == Last(th[t].frames)
Depth(t) == Len(th[t].frames)
Set(t, f) == [th[t] EXCEPT !.frames[Depth(t)] = f]

(* the shard of a key is read-locked by every frame that is past its lookup *)
Reads(t, sh) == \E i \in 1 .. Depth(t) : client.shard[th[t].frames[i].key] = sh /\ th[t].frames[i].pc # "guard"
(* what every registration does: insert replaces, once the shard is free *)
Register(t, k, p, made) ==
  /\ Depth(t) = 0 /\ hist.gen <= client.registrations
  /\ \A u \in Threads : ~Reads(u, client.shard[k])
  /\ providers' = [providers EXCEPT ![k] = p]
  /\ hist' = [hist EXCEPT !.gen = @ + 1, !.made = made, !.gave[k] = {}]
  /\ UNCHANGED <<client, th>>
(* an instance is a singleton whose cell is full from the start *)
AddInstance(t, k) == Register(t, k, [Provider("singleton", hist.gen) EXCEPT !.cell = hist.made + 1], hist.made + 1)
(* add_singleton, and add_singleton_trait, whose value is an Arc of the trait *)
AddSingleton(t, k) == Register(t, k, Provider("singleton", hist.gen), hist.made)
AddTransient(t, k) == Register(t, k, Provider("transient", hist.gen), hist.made)

(* a call of get, by the application *)
Get(t, k) ==
  /\ Depth(t) = 0 /\ hist.gets < client.gets
  /\ th' = [th EXCEPT ![t] = [@ EXCEPT !.frames = <<Frame(k)>>, !.panicked = FALSE]]
  /\ hist' = [hist EXCEPT !.gets = @ + 1]
  /\ UNCHANGED <<client, providers>>

MutGuarded(t, k) == FALSE
(* ResolutionGuard::new: the key is being resolved on this thread already *)
Guarded(t, k) == k \in th[t].resolving
(* the panic unwinds every frame; guards leave the set, cells being made stay empty *)
Unwind(t) ==
  /\ th' = [th EXCEPT ![t] = [frames |-> <<>>, resolving |-> {}, panicked |-> TRUE]]
  /\ providers' = [k \in Keys |-> IF providers[k] # None /\ providers[k].by = t THEN [providers[k] EXCEPT !.by = None] ELSE providers[k]]
Guard(t) ==
  /\ Depth(t) > 0 /\ Top(t).pc = "guard"
  /\ LET k == Top(t).key
     IN  IF Guarded(t, k) THEN Unwind(t)
         ELSE /\ th' = [th EXCEPT ![t] = [Set(t, [Top(t) EXCEPT !.pc = "provider"]) EXCEPT !.resolving = @ \cup {k}]]
              /\ UNCHANGED providers
  /\ UNCHANGED <<client, hist>>

(* what `get` hands out: a clone of the singleton's Arc, or the transient itself *)
Return(t) ==
  th' = [th EXCEPT ![t] = [frames |-> Front(th[t].frames), resolving |-> @.resolving \ {Top(t).key}, panicked |-> FALSE]]
Gave(k, v) == hist' = [hist EXCEPT !.gave[k] = @ \cup {[kind |-> providers[k].kind, gen |-> providers[k].gen, v |-> v]}]
(* OnceLock::get_or_init: the value, or the right to make it; another maker is waited for *)
Provide(t) ==
  /\ Depth(t) > 0 /\ Top(t).pc = "provider"
  /\ LET k == Top(t).key
         p == providers[k]
     IN  \/ p = None /\ Return(t) /\ UNCHANGED <<providers, hist>>
         \/ /\ p # None /\ p.cell # None
            /\ Return(t) /\ Gave(k, p.cell) /\ UNCHANGED providers
         \/ /\ p # None /\ p.cell = None /\ (p.kind = "singleton" => p.by = None)
            /\ providers' = IF p.kind = "singleton" THEN [providers EXCEPT ![k].by = t] ELSE providers
            /\ th' = [th EXCEPT ![t] = Set(t, [Top(t) EXCEPT !.pc = "factory"])]
            /\ UNCHANGED hist
  /\ UNCHANGED client

(* the factory resolves the next service it needs *)
Factory(t) ==
  /\ Depth(t) > 0 /\ Top(t).pc = "factory" /\ Top(t).at <= Len(client.needs[Top(t).key])
  /\ LET need == client.needs[Top(t).key][Top(t).at]
     IN  th' = [th EXCEPT ![t] = [Set(t, [Top(t) EXCEPT !.at = @ + 1]) EXCEPT !.frames = Append(@, Frame(need))]]
  /\ UNCHANGED <<client, providers, hist>>
(* and makes its own, which the cell keeps *)
Made(t) ==
  /\ Depth(t) > 0 /\ Top(t).pc = "factory" /\ Top(t).at > Len(client.needs[Top(t).key])
  /\ LET k == Top(t).key
         v == hist.made + 1
     IN  /\ providers' = IF providers[k].kind = "singleton" THEN [providers EXCEPT ![k].cell = v, ![k].by = None] ELSE providers
         /\ Return(t)
         /\ hist' = [hist EXCEPT !.made = v,
                                 !.gave[k] = @ \cup {[kind |-> providers[k].kind, gen |-> providers[k].gen, v |-> v]}]
  /\ UNCHANGED client

Next ==
  \E t \in Threads :
    \/ \E k \in Keys : Get(t, k) \/ AddInstance(t, k) \/ AddSingleton(t, k) \/ AddTransient(t, k)
    \/ Guard(t) \/ Provide(t) \/ Factory(t) \/ Made(t)
Spec == Init /\ [][Next]_vars

-----------------------------------------------------------------------------
(* a thread waits for the thread that makes the singleton it asks for *)
WaitsFor(t, u) ==
  /\ Depth(t) > 0 /\ Top(t).pc = "provider" /\ providers[Top(t).key] # None /\ providers[Top(t).key].cell = None
  /\ providers[Top(t).key].kind = "singleton" /\ providers[Top(t).key].by = u
Reaches[n \in 0 .. Cardinality(Threads)] ==
  [t \in Threads |-> [u \in Threads |-> WaitsFor(t, u) \/ (n > 0 /\ \E x \in Threads : WaitsFor(t, x) /\ Reaches[n - 1][x][u])]]

(* "The container automatically detects circular dependencies during       *)
(* resolution and will always panic": threads that resolve never wait for  *)
(* one another in a circle.                                                *)
NeverInACircle == \A t \in Threads : ~Reaches[Cardinality(Threads)][t][t]

Depends[n \in 0 .. Cardinality(Keys)] ==
  [k \in Keys |-> LET d == ToSet(client.needs[k]) IN d \cup (IF n = 0 THEN {} ELSE UNION {Depends[n - 1][j] : j \in d})]
Acyclic == \A k \in Keys : k \notin Depends[Cardinality(Keys)][k]

(* As long as a registration stands, everyone who asks for its singleton   *)
(* is given the same instance; a thread that is not resolving has no key   *)
(* left in its set, however its calls ended; it panics only if the         *)
(* dependencies have a circle, and without one no threads wait for one     *)
(* another in a circle.  One container: the set of a thread is shared by   *)
(* all it resolves from (core.rs:12).                                      *)
ResolvesRight ==
  /\ \A k \in Keys : \A a, b \in hist.gave[k] : a.kind = "singleton" /\ b.kind = "singleton" => a = b
  /\ \A t \in Threads : th[t].resolving = {f.key : f \in ToSet(SelectSeq(th[t].frames, LAMBDA g : g.pc # "guard"))}
  /\ \A t \in Threads : Depth(t) <= Cardinality(Keys) + 1
  /\ Acyclic => NeverInACircle /\ \A t \in Threads : ~th[t].panicked
=============================================================================
