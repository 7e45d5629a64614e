------------------------------- MODULE MCSpsc -------------------------------
(***************************************************************************)
(* The SPSC ring and the SPSC channel on top of it: `which` says what a    *)
(* behaviour is about. The ring has capacity 3 in a buffer of 4, with      *)
(* indices modulo 8: the capacity is not a power of two, and the indices   *)
(* wrap around. The channel has capacity 1, two items and batches of two.  *)
(***************************************************************************)
EXTENDS SpscRing

CONSTANTS a, b
MCItem == {a, b}

OnSide(forP, forC) == [s \in {"P", "C"} |-> IF s = "P" THEN forP ELSE forC]
Never      == OnSide({}, {})
SyncAll    == OnSide({"try_send", "send", "try_send_batch", "send_batch", "send_batch_mut", "close", "drop"},
                     {"try_recv", "recv", "try_recv_batch", "recv_batch", "recv_timeout", "close", "drop"})
AsyncAll   == OnSide({"try_send", "send_future", "try_send_batch", "batch_future", "batch_mut_future", "close", "drop"},
                     {"try_recv", "recv_future", "try_recv_batch", "recv_batch_future", "next", "close", "drop"})
SyncSome   == OnSide({"send", "send_batch", "convert", "drop"}, {"recv", "convert", "drop"})
AsyncSome  == OnSide({"send_future", "batch_mut_future", "convert", "drop"}, {"recv_future", "next", "convert", "drop"})
(* A closed handle is asked for anything but the sync send_batch, which    *)
(* does not look at the closed flag, and conversion, which forgets it.     *)
AfterClose == OnSide({"try_send", "send", "send_future", "send_batch_mut", "close", "drop"},
                     {"try_recv", "recv", "recv_future", "next", "close", "drop"})
Program(kinds, sync, async, after) == [kinds |-> kinds, sync |-> sync, async |-> async, closed |-> after]

(* Two sync handles, two async ones, and handles that are converted *)
AllClients == {Program({"sync"}, SyncAll, Never, AfterClose),
               Program({"async"}, Never, AsyncAll, AfterClose),
               Program({"sync", "async"}, SyncSome, AsyncSome, Never)}

VARIABLES which,
          client, written, writtenVis, read, readVis, count, gone, slot, gate, gateVis, notified, token,
          kind, closed, alive, streamReg, op, todo, reg, spins, left, got, expired, res

Channel == INSTANCE SpscChannel WITH Cap <- 1, MaxItems <- 2, MaxBatch <- 2, SpinLimit <- 0, Count <- 4,
             Clients <- AllClients, tail <- written, tailVis <- writtenVis, head <- read, headVis <- readVis

channel == <<client, written, writtenVis, read, readVis, count, gone, slot, gate, gateVis, notified, token,
            kind, closed, alive, streamReg, op, todo, reg, spins, left, got, expired, res>>
mcvars  == <<which, vars, channel>>

NoChannel == client = 0 /\ written = 0 /\ writtenVis = 0 /\ read = 0 /\ readVis = 0 /\ count = 0 /\ gone = 0
             /\ slot = 0 /\ gate = 0 /\ gateVis = 0 /\ notified = 0 /\ token = 0 /\ kind = 0 /\ closed = 0
             /\ alive = 0 /\ streamReg = 0 /\ op = 0 /\ todo = 0 /\ reg = 0 /\ spins = 0 /\ left = 0
             /\ got = 0 /\ expired = 0 /\ res = 0

(* Only what a behaviour is about moves: the rest stays as it is, the ring in its initial state. *)
MCInit ==
  /\ Init
  /\ \/ which = "ring" /\ NoChannel
     \/ which = "channel" /\ Channel!Init

MCNext ==
  \/ which = "ring" /\ Next /\ UNCHANGED <<which, channel>>
  \/ which = "channel" /\ Channel!Next /\ UNCHANGED <<which, vars>>

MCSpec == MCInit /\ [][MCNext]_mcvars

-----------------------------------------------------------------------------
(* Channel: whoever sleeps although it could go on is about to be woken,   *)
(* and a registered flag belongs to a call that has not returned.          *)
NobodyForgotten ==
  which = "channel" => Channel!ReceiverNotForgotten /\ Channel!SenderNotForgotten /\ Channel!FlagOutlivesWaiter

(* Channel: Disconnected is said when everything sent has been received,   *)
(* and a handle that is gone is known to be gone.                          *)
DrainedBeforeDisconnected ==
  which = "channel" => Channel!TypeOK /\ Channel!DrainedBeforeDisconnected /\ Channel!DropSignalsPeer
=============================================================================
