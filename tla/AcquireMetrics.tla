--------------------------- MODULE AcquireMetrics ---------------------------
(***************************************************************************)
(* Acquire with the gauge operators read saturation from,                  *)
(* srh_pool_permits_in_use: acquire_entry increments it once it has the    *)
(* permit, and PoolLease::drop decrements it.                              *)
(***************************************************************************)
EXTENDS Acquire

VARIABLE permits_in_use   \* the permit gauge

mvars == <<vars, permits_in_use>>

MetricsInit == Init /\ permits_in_use = 0

GaugeUp(r) ==
    /\ DropWaiter(r)
    /\ permits_in_use' = permits_in_use + 1

GaugeDown(r) ==
    /\ ReleasePermit(r)
    /\ permits_in_use' = permits_in_use - 1

\* AbandonLease is among the steps that leave the gauge alone: a future dropped
\* while it awaits a lease has no PoolLease yet.
SilentStep(r) ==
    /\ \/ Admit(r) \/ Enqueue(r) \/ QueueFull(r) \/ TakePermit(r) \/ LeaveQueue(r)
       \/ Unwind(r) \/ TryLease(r) \/ SkipLease(r) \/ AwaitLease(r) \/ TakeLease(r)
       \/ \E failed \in BOOLEAN : Complete(r, failed)
       \/ ReleaseLease(r) \/ Abort(r) \/ AbandonLease(r)
    /\ UNCHANGED permits_in_use

MetricsNext ==
    \/ \E r \in Requests : GaugeUp(r) \/ GaugeDown(r) \/ SilentStep(r)
    \/ Tick /\ UNCHANGED permits_in_use

MetricsSpec == MetricsInit /\ [][MetricsNext]_mvars

\* With no request in flight no permit is reported in use: every increment of
\* the permits-in-use gauge is undone by the time its request has ended.
PermitGaugeSettles == (\A r \in Requests : pc[r] = "idle") => permits_in_use = 0
=============================================================================
