-------------------------- MODULE SetupCalibration --------------------------
(***************************************************************************)
(* The setup calibration engine (SetupCalibrationEngine.cpp) and its CSV   *)
(* store (SetupOutcomeCsvStore.cpp).                                       *)
(*                                                                         *)
(* Each scan reports, for every wave key (signal symbol and setup kind),   *)
(* whether the setup is active.  A rising edge enters a sample; one-minute *)
(* bars of the traded instrument later resolve it; every change is saved   *)
(* by writing a temporary file and renaming it.  A restart reloads the     *)
(* file and forgets which waves were active.                               *)
(*                                                                         *)
(* Time is counted in one-minute bars.                                     *)
(***************************************************************************)
EXTENDS Integers

CONSTANTS
    Symbol,         (* signal symbols                                         *)
    Kind,           (* setup kinds: "building", "ready"                       *)
    Bucket,         (* bullish-score buckets, score / 10                      *)
    EntryPrice,     (* entry prices a scan may carry; 0 is "no usable zone"   *)
    Bar,            (* one-minute bars of the traded instruments: low, high   *)
    Horizon,        (* settings.outcome_horizon                               *)
    TargetDistance, (* favorable_target_atr times the ATR                     *)
    StopDistance,   (* adverse_stop_atr times the ATR                         *)
    LastMinute,     (* bound: the minutes 0 .. LastMinute are modelled        *)
    SaveResult      (* how a save may end: "ok", "refused", "torn"            *)

ASSUME HorizonAssumption == Horizon \in Nat \ {0}
ASSUME LevelAssumption == TargetDistance \in Nat \ {0} /\ StopDistance \in Nat \ {0}
ASSUME MinuteAssumption == LastMinute \in Nat
ASSUME PriceAssumption == EntryPrice \subseteq Nat
ASSUME BarAssumption == Bar \subseteq [low : Nat, high : Nat]
ASSUME SaveAssumption == SaveResult \subseteq {"ok", "refused", "torn"}

VARIABLES
    clock,      (* the minute whose bar is in progress                        *)
    bars,       (* history of each traded instrument, by minute               *)
    scanned,    (* epoch of the latest scan ever observed, -1 before any      *)
    fresh,      (* no scan has been observed since the process started        *)
    active,     (* Impl::active_waves                                         *)
    records,    (* Impl::records                                              *)
    stored,     (* the records in the CSV file                                *)
    readable    (* the CSV file parses                                        *)

vars == <<clock, bars, scanned, fresh, active, records, stored, readable>>
memory == <<scanned, fresh, active, records>>
disk == <<stored, readable>>

Minute == 0 .. LastMinute
Wave == Symbol \X Kind
SymbolOf(w) == w[1]

NoBar == [low |-> -1, high |-> -1]
Never == -1
Pending == "pending"
Outcome == {Pending, "success", "failure", "ambiguous"}

Record ==
    [wave : Wave, seen : Minute, entry : EntryPrice \ {0}, bucket : Bucket,
     outcome : Outcome, resolved : Minute \cup {Never}]

\* What a scan says of a wave; a symbol may be missing from its rankings.
Observation ==
    {o \in [listed : BOOLEAN, active : BOOLEAN, entry : EntryPrice, bucket : Bucket] :
        o.active => o.listed}

-----------------------------------------------------------------------------
(* Resolution of one record against the bars of its instrument.            *)

Target(r) == r.entry + TargetDistance
Stop(r) == r.entry - StopDistance
Deadline(r) == r.seen + Horizon

HitsTarget(r, b) == b # NoBar /\ b.high >= Target(r)
HitsStop(r, b) == b # NoBar /\ b.low <= Stop(r)
\* Minutes after the observation and up to the deadline whose bar touches a
\* level, and those with no such minute before them.
Touches(r, h) ==
    {m \in Minute : /\ r.seen < m /\ m <= Deadline(r)
                    /\ HitsTarget(r, h[m]) \/ HitsStop(r, h[m])}
FirstTouch(r, h) ==
    CHOOSE m \in Touches(r, h) : \A n \in Touches(r, h) : m <= n

TouchOutcome(r, b) ==
    IF HitsTarget(r, b)
    THEN IF HitsStop(r, b) THEN "ambiguous" ELSE "success"
    ELSE "failure"

\* The newest bar is at the deadline or past it.
TimedOut(r, h) == \E m \in Minute : m >= Deadline(r) /\ h[m] # NoBar

Settle(r, outcome, m) ==
    [wave |-> r.wave, seen |-> r.seen, entry |-> r.entry, bucket |-> r.bucket,
     outcome |-> outcome, resolved |-> m]

\* Mutation: resolved records are evaluated again.
ResolveAgain(r, h) ==
    IF Touches(r, h) # {}
    THEN Settle(r, TouchOutcome(r, h[FirstTouch(r, h)]), FirstTouch(r, h))
    ELSE r

Resolve(r, h) ==
    IF r.outcome # Pending THEN r
    ELSE IF Touches(r, h) # {}
    THEN Settle(r, TouchOutcome(r, h[FirstTouch(r, h)]), FirstTouch(r, h))
    ELSE IF TimedOut(r, h) THEN Settle(r, "failure", Deadline(r))
    ELSE r

ResolvePending(recs) == {Resolve(r, bars[SymbolOf(r.wave)]) : r \in recs}

-----------------------------------------------------------------------------
(* New waves.                                                              *)

\* Mutation: the records still pending do not count.
ObservedLately(recs, w, t) ==
    \E r \in recs : r.wave = w /\ r.seen <= t /\ r.seen >= t - Horizon

\* The durable records stand in for the edge state a restart loses.
AlreadyObserved(recs, w, t) ==
    \E r \in recs :
        /\ r.wave = w
        /\ \/ r.outcome = Pending
           \/ r.seen <= t /\ r.seen >= t - Horizon

\* Mutation: an entry of zero is not checked.
StartsUnpriced(recs, t, obs, w) ==
    obs[w].active /\ ~active[w] /\ ~AlreadyObserved(recs, w, t)

Starts(recs, t, obs, w) ==
    /\ obs[w].active
    /\ ~active[w]
    /\ obs[w].entry > 0
    /\ ~AlreadyObserved(recs, w, t)

NewRecord(w, t, o) ==
    [wave |-> w, seen |-> t, entry |-> o.entry, bucket |-> o.bucket,
     outcome |-> Pending, resolved |-> Never]

StartNewWaves(recs, t, obs) ==
    recs \cup {NewRecord(w, t, obs[w]) : w \in {v \in Wave : Starts(recs, t, obs, v)}}

-----------------------------------------------------------------------------

Init ==
    /\ clock = 0
    /\ bars = [s \in Symbol |-> [m \in Minute |-> NoBar]]
    /\ scanned = -1
    /\ fresh = TRUE
    /\ active = [w \in Wave |-> FALSE]
    /\ records = {}
    /\ stored = {}
    /\ readable = TRUE

AdvanceClock ==
    /\ clock < LastMinute
    /\ clock' = clock + 1
    /\ UNCHANGED <<bars, memory, disk>>

\* The history handed to the engine holds the bar in progress, and a merge keeps
\* an unspecified one of two versions of a bar (MinuteHistory): a bar of any
\* minute so far may appear late or change between two scans.
ReceiveBar(s, m, b) ==
    /\ m <= clock
    /\ bars' = [bars EXCEPT ![s][m] = b]
    /\ UNCHANGED <<clock, memory, disk>>

\* Mutation: the file is written in place, and a failed write empties it.
SaveInPlace(result) ==
    IF result = "ok" THEN stored' = records' /\ readable' = TRUE
    ELSE stored' = {} /\ readable' = TRUE

\* store.save: the rename is atomic, and an exception before it leaves the old
\* file.  The write check precedes the stream's last flush, so a short write
\* then is not noticed and the rename publishes a file that does not parse.
Save(result) ==
    \/ result = "ok" /\ stored' = records' /\ readable' = TRUE
    \/ result = "refused" /\ UNCHANGED disk
    \/ result = "torn" /\ stored' = {} /\ readable' = FALSE

\* observe_and_enrich for the scan of a completed minute t.  The monitor calls
\* it for strictly later scans only, except for the first one after a restart.
ObserveAndEnrich(t, obs, result) ==
    /\ t < clock
    /\ t > scanned \/ (fresh /\ t = scanned)
    /\ scanned' = t
    /\ fresh' = FALSE
    /\ active' = [w \in Wave |-> IF obs[w].listed THEN obs[w].active ELSE active[w]]
    /\ records' = StartNewWaves(ResolvePending(records), t, obs)
    /\ IF records' # records THEN Save(result) ELSE UNCHANGED disk
    /\ UNCHANGED <<clock, bars>>

\* Mutation: the file is not loaded.
RestartEmpty ==
    /\ readable
    /\ fresh' = TRUE
    /\ active' = [w \in Wave |-> FALSE]
    /\ records' = {}
    /\ UNCHANGED <<clock, bars, scanned, disk>>

\* The process stops at any point and is started again: the constructor loads
\* the file, and fails when it does not parse.
Restart ==
    /\ readable
    /\ fresh' = TRUE
    /\ active' = [w \in Wave |-> FALSE]
    /\ records' = stored
    /\ UNCHANGED <<clock, bars, scanned, disk>>

Next ==
    \/ AdvanceClock
    \/ \E s \in Symbol, m \in Minute, b \in Bar : ReceiveBar(s, m, b)
    \/ \E t \in Minute, obs \in [Wave -> Observation], result \in SaveResult :
           ObserveAndEnrich(t, obs, result)
    \/ Restart

Spec == Init /\ [][Next]_vars

-----------------------------------------------------------------------------
(* Properties.                                                             *)

\* Every variable keeps its type (records hold what SetupOutcomeRecord holds).
TypeOK ==
    /\ clock \in Minute
    /\ bars \in [Symbol -> [Minute -> Bar \cup {NoBar}]]
    /\ scanned \in Minute \cup {-1}
    /\ fresh \in BOOLEAN
    /\ active \in [Wave -> BOOLEAN]
    /\ records \subseteq Record
    /\ stored \subseteq Record
    /\ readable \in BOOLEAN

Ledger == INSTANCE CalibrationLedger WITH ledger <- stored

\* A wave key has at most one unresolved sample, in memory and on disk.
OnePending == Ledger!OnePending(records) /\ Ledger!OnePending(stored)

\* Samples of a wave key are observed more than a horizon apart, so that no two
\* of them are scored on the same bars.
Separated == Ledger!Separated(records) /\ Ledger!Separated(stored)

\* A price move is sampled once, across failed saves and restarts that lose the edge
\* state of the waves: the guard of start_new_waves is enough for both.
Disjoint == OnePending /\ Separated

\* Memory is never behind the file: each stored sample is in memory, with the
\* outcome the file gives it or, where the file still has it pending, any.
MemoryCoversDisk ==
    \A e \in stored : \E f \in records : Ledger!Succeeds(e, f)

\* No record is from after the latest scan: the epochs a record can carry are
\* those of the scans already observed.  With the four parts above it is
\* inductive, and the theorems rest on it.
SeenScanned == \A r \in records \cup stored : r.seen <= scanned

CalibrationInv ==
    /\ TypeOK
    /\ SeenScanned
    /\ OnePending
    /\ Separated
    /\ MemoryCoversDisk

\* A sample is resolved by a bar after its observation and within its horizon.  It
\* then stays in memory unchanged until the process restarts, and for good once it
\* reached the disk, although bars are revised and come late.
OutcomesFrozen ==
    [][/\ \A r \in records' :
              r.outcome # Pending => r.seen < r.resolved /\ r.resolved <= Deadline(r)
       /\ ~fresh' => \A r \in records : r.outcome # Pending => r \in records'
       /\ \A r \in stored : r.outcome # Pending => r \in stored']_vars

\* The file implements the abstract ledger: samples are entered once, resolved
\* at most once and never lost.
ImplementsLedger == Ledger!Spec

=============================================================================
