------------------------------ MODULE MCLocks -------------------------------
(***************************************************************************)
(* The hybrid mutex and reader-writer lock, and the reader-biased one:     *)
(* `which` says what a behaviour is about.                                 *)
(***************************************************************************)
EXTENDS HybridLock, TLC

CONSTANTS t1, k1, k2   \* a thread and two tasks

(* One call each of a thread and two tasks, and two calls each of two *)
Each   == t1 :> 1 @@ k1 :> 1 @@ k2 :> 1
Few    == {Each, t1 :> 2 @@ k1 :> 2 @@ k2 :> 0, t1 :> 0 @@ k1 :> 2 @@ k2 :> 2}

OfSlot == t1 :> 1 @@ k1 :> 2 @@ k2 :> 1

VARIABLES which,
          visible, slots, loaded, inSlot, drains,
          wlocked, wreaders, wpending, wqueued, wlist, wspin, wnode, warmed, wpermit, whandles, wmode, wpc, wafter, wops

Biased    == INSTANCE HybridRwLockV2 WITH Slots <- 2, SlotOf <- OfSlot, Budgets <- {Each}, Drops <- {}, LostRaces <- TRUE,
               visible <- visible, slots <- slots, seen <- loaded, inSlot <- inSlot, at <- drains,
               writeLocked <- wlocked, readers <- wreaders, pending <- wpending, queued <- wqueued,
               list <- wlist, listLock <- wspin, node <- wnode, armed <- warmed, permit <- wpermit,
               handles <- whandles, mode <- wmode, pc <- wpc, after <- wafter, ops <- wops
(* ... whose write futures may be dropped while they drain the slots *)
Dropping  == INSTANCE HybridRwLockV2 WITH Slots <- 2, SlotOf <- OfSlot, Budgets <- {Each}, Drops <- {"drain"}, LostRaces <- FALSE,
               visible <- visible, slots <- slots, seen <- loaded, inSlot <- inSlot, at <- drains,
               writeLocked <- wlocked, readers <- wreaders, pending <- wpending, queued <- wqueued,
               list <- wlist, listLock <- wspin, node <- wnode, armed <- warmed, permit <- wpermit,
               handles <- whandles, mode <- wmode, pc <- wpc, after <- wafter, ops <- wops

biased  == <<visible, slots, loaded, inSlot, drains, wlocked, wreaders, wpending, wqueued, wlist, wspin,
            wnode, warmed, wpermit, whandles, wmode, wpc, wafter, wops>>
mcvars  == <<which, vars, biased>>

NoBiased == visible = 0 /\ slots = 0 /\ loaded = 0 /\ inSlot = 0 /\ drains = 0 /\ wlocked = 0
            /\ wreaders = 0 /\ wpending = 0 /\ wqueued = 0 /\ wlist = 0 /\ wspin = 0 /\ wnode = 0
            /\ warmed = 0 /\ wpermit = 0 /\ whandles = 0 /\ wmode = 0 /\ wpc = 0 /\ wafter = 0 /\ wops = 0

(* Only what a behaviour is about moves: the rest stays as it is, the lock in an initial state. *)
MCInit ==
  /\ Init
  /\ \/ which = "lock" /\ NoBiased
     \/ which = "biased" /\ Biased!Init
  /\ which = "biased" => kind = "mutex" /\ ops = Each

MCNext ==
  \/ which = "lock" /\ Next /\ UNCHANGED <<which, biased>>
  \/ which = "biased" /\ Biased!Next /\ UNCHANGED <<which, vars>>

(* A caller of the lock that contends gets to run, also when others keep   *)
(* barging in.                                                             *)
MCSpec ==
  /\ MCInit /\ [][MCNext]_mcvars
  /\ \A p \in Proc : SF_mcvars(which = "lock" /\ Step(p) /\ UNCHANGED <<which, biased>>)

DropSpec ==
  /\ Init /\ kind = "mutex" /\ ops = Each
  /\ which = "dropping" /\ Dropping!Init
  /\ [][Dropping!Next /\ UNCHANGED <<which, vars>>]_mcvars

-----------------------------------------------------------------------------
(* Biased lock: a writer's guard excludes every other guard, every count   *)
(* of readers and pending writers is exact, and while the lock is free and *)
(* somebody sleeps in the list, somebody is awake that will take it or     *)
(* wake the next.                                                          *)
BiasedSafe == which = "biased" => Biased!Exclusion /\ Biased!CountsExact /\ Biased!WakeOwed

(* "Slots are off and empty unless `visible` is set" (v2.rs:689): a        *)
(* writer's guard excludes every reader's, also when another write future  *)
(* was dropped while it drained the slots.                                 *)
WriterIsAlone == which = "dropping" => Dropping!Exclusion
=============================================================================
