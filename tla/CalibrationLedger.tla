-------------------------- MODULE CalibrationLedger --------------------------
(***************************************************************************)
(* What the setup calibration promises to whoever reads                    *)
(* data/ibkr/setup_outcomes.csv: a ledger of samples.  A sample is one     *)
(* observed setup wave; it is entered once, it is resolved at most once,   *)
(* and it is never lost or rewritten.  SetupCalibration implements it.     *)
(***************************************************************************)
EXTENDS Integers

CONSTANT Horizon      (* the outcome horizon, in minutes *)

VARIABLE ledger       (* the set of samples on disk *)

Pending == "pending"

\* Two entries describe the same sample when they agree on what was frozen
\* at observation time.
SameSample(e, f) ==
    /\ e.wave = f.wave
    /\ e.seen = f.seen
    /\ e.entry = f.entry
    /\ e.bucket = f.bucket

\* f is e, or e with its outcome filled in.
Succeeds(e, f) ==
    /\ SameSample(e, f)
    /\ e.outcome # Pending => f = e

\* Samples of one wave key lie more than a horizon apart.
Separated(S) ==
    \A e, f \in S :
        e.wave = f.wave =>
            \/ e = f
            \/ e.seen > f.seen + Horizon
            \/ f.seen > e.seen + Horizon

\* No wave key has two unresolved samples.
OnePending(S) ==
    \A e, f \in S :
        (e.wave = f.wave /\ e.outcome = Pending /\ f.outcome = Pending) => e = f

-----------------------------------------------------------------------------

Init == ledger = {}

\* A commit enters any number of new samples and resolves any number of the
\* entered ones.
Commit ==
    /\ \A e \in ledger : \E f \in ledger' : Succeeds(e, f)
    /\ Separated(ledger')
    /\ OnePending(ledger')

Next == Commit

Spec == Init /\ [][Next]_ledger

=============================================================================
