------------------------------ MODULE Datasets ------------------------------
(***************************************************************************)
(* Market data for research jobs: a job without named datasets takes a     *)
(* snapshot of the provider (dataset_providers.py), stores it as content-  *)
(* addressed blobs (dataset_store.py) and computes from it; the worker     *)
(* then reads every blob back, registers it (dataset_registry.py) and      *)
(* stores the result, which names its datasets. A later job may name them. *)
(*                                                                         *)
(* A dataset is modelled by its content, which is also its id              *)
(* (the format, below, makes the one the other): a family and, per symbol, *)
(* the sessions it covers and the revision of the provider's data they     *)
(* were taken from. A job is                                               *)
(*   idle -> queued -> storing -> computed -> succeeded, or failed         *)
(***************************************************************************)
EXTENDS Integers, Sequences, FiniteSets, FiniteSetsExt, SequencesExt

CONSTANTS Symbols,
          FamilyOf,       \* symbol |-> its dataset family
          LastTraded,     \* symbol |-> the last day it has a session
          ExDates,        \* symbol |-> its dividends' ex-dates
          Holders,        \* users
          Tasks,          \* research jobs
          Period, Margin, \* days a task asks for, and _FETCH_MARGIN_DAYS
          FirstDay, MaxDay,
          MaxRevisions, MaxDamage \* bounds on restatements and on bad blobs

VARIABLES day,
          revision,   \* restatements by the provider (a split) so far
          blobs,      \* the files under DATASET_ROOT, by the id of their path
          damaged,    \* those whose bytes are wrong
          spoiled,    \* those that went bad when they were registered (history)
          versions,   \* dataset_versions
          holdings,   \* user_datasets
          tasks,
          damage

(* What a dataset holds of a symbol *)
Bar == [symbol : Symbols, first : Int, last : Int, revision : Nat]

Dataset == [family : {FamilyOf[s] : s \in Symbols}, bars : SUBSET Bar]

ASSUME DatasetsAssumption ==
    /\ LastTraded \in [Symbols -> Int]
    /\ FirstDay \in Int /\ MaxDay \in Int /\ FirstDay <= MaxDay
    /\ Period \in Nat \ {0} /\ Margin \in Nat

datasetVars ==
    <<day, revision, blobs, damaged, spoiled, versions, holdings, tasks, damage>>

(* A request without dataset_ids, or with none in the list *)
Unnamed == {}

IdleTask == [at |-> "idle"]

DatasetInit ==
    /\ day = FirstDay /\ revision = 0
    /\ blobs = {} /\ damaged = {} /\ spoiled = {} /\ versions = {} /\ holdings = {}
    /\ tasks = [t \in Tasks |-> IdleTask]
    /\ damage = 0

-----------------------------------------------------------------------------
(* The provider *)

(* _parse_yahoo: the sessions before today of the range asked for *)
Sessions(s) ==
    LET last == Min({day - 1, LastTraded[s]})
    IN [symbol |-> s, first |-> day + 1 - Period - Margin, last |-> last, revision |-> revision]

Available(s) == Sessions(s).first <= Sessions(s).last

(* YahooProvider.snapshot: one dataset per family of the symbols it got *)
Snapshot(got) ==
    {[family |-> f, bars |-> {Sessions(s) : s \in {z \in got : FamilyOf[z] = f}}] :
        f \in {FamilyOf[s] : s \in got}}

-----------------------------------------------------------------------------
(* market_data.frame_from *)

(* _series, from every dataset that has the symbol *)
Series(ds, s) == {b \in UNION {d.bars : d \in ds} : b.symbol = s}

(* _merged: equal values wherever the parts overlap *)
Agree(parts) ==
    \A p, q \in parts : p.revision = q.revision \/ p.last < q.first \/ q.last < p.first

Found(ds) == {s \in Symbols : Series(ds, s) # {}}

(* Counts back from today (mutant of Anchor). *)
AnchorToday(ds) == day

(* One past the latest session of any symbol that was found *)
Anchor(ds) == 1 + Max({b.last : b \in UNION {d.bars : d \in ds}})

(* period_start, then the sessions of the period; a price is as of the     *)
(* dividends after it that the series knows (total_return_factor).         *)
Adjusted(ds, s) ==
    LET parts == Series(ds, s)
        end   == Max({b.last : b \in parts})
    IN UNION {{[symbol |-> s, session |-> n, revision |-> b.revision,
                dividends |-> Cardinality({x \in ExDates[s] : n < x /\ x <= end})] :
                   n \in {m \in b.first..b.last : Anchor(ds) - Period <= m}} : b \in parts}

Frame(ds) == UNION {Adjusted(ds, s) : s \in Found(ds)}

(* The datasets that supplied the frame *)
Used(ds) == {d \in ds : \E b \in d.bars : Adjusted(ds, b.symbol) # {}}

(* MarketData.download: the frame, or a MarketDataError *)
Computed(task, ds) ==
    IF (\A s \in Found(ds) : Agree(Series(ds, s))) /\ Frame(ds) # {}
    THEN [at |-> "computed", user |-> task.user, named |-> task.named, snapshot |-> task.snapshot,
          used |-> Used(ds), frame |-> Frame(ds)]
    ELSE [at |-> "failed"]

-----------------------------------------------------------------------------
(* Research jobs *)

Goes(t, task) == tasks' = [tasks EXCEPT ![t] = task]

(* _queue_research: a request may name only datasets its user holds. *)
QueueResearch(t, u, named) ==
    /\ tasks[t].at = "idle"
    /\ \A d \in named : <<u, d>> \in holdings
    /\ Goes(t, [at |-> "queued", user |-> u, named |-> named, snapshot |-> {}])
    /\ UNCHANGED <<day, revision, blobs, damaged, spoiled, versions, holdings, damage>>

(* MarketData._snapshot: some symbols may fail; put comes next. *)
TakeSnapshot(t, got) ==
    /\ tasks[t].at = "queued" /\ tasks[t].named = Unnamed
    /\ Goes(t, IF got = {} THEN [at |-> "failed"]
               ELSE [tasks[t] EXCEPT !.at = "storing", !.snapshot = Snapshot(got)])
    /\ UNCHANGED <<day, revision, blobs, damaged, spoiled, versions, holdings, damage>>

(* DatasetStore.put: renamed into place whole; a file that is there is     *)
(* kept if it verifies.                                                    *)
PutBlob(t) ==
    /\ tasks[t].at = "storing"
    /\ \E d \in tasks[t].snapshot \ (blobs \ damaged) :
          /\ blobs' = blobs \cup {d}
          /\ IF d \in blobs THEN Goes(t, [at |-> "failed"]) ELSE UNCHANGED tasks
    /\ UNCHANGED <<day, revision, damaged, spoiled, versions, holdings, damage>>

ComputeFromSnapshot(t) ==
    /\ tasks[t].at = "storing" /\ tasks[t].snapshot \subseteq blobs \ damaged
    /\ Goes(t, Computed(tasks[t], tasks[t].snapshot))
    /\ UNCHANGED <<day, revision, blobs, damaged, spoiled, versions, holdings, damage>>

(* MarketData._load: every read decodes the blob and hashes it again. *)
ComputeFromNamed(t) ==
    /\ tasks[t].at = "queued" /\ tasks[t].named # Unnamed
    /\ Goes(t, IF tasks[t].named \subseteq blobs \ damaged
               THEN Computed(tasks[t], tasks[t].named) ELSE [at |-> "failed"])
    /\ UNCHANGED <<day, revision, blobs, damaged, spoiled, versions, holdings, damage>>

(* Registers what the job process says it stored (mutant of                *)
(* VerifiedAgain).                                                         *)
TrustsTheJob(snapshot) == snapshot \subseteq blobs

(* _register_snapshot reads every blob back. *)
VerifiedAgain(snapshot) == snapshot \subseteq blobs \ damaged

(* record_market_data, in the transaction that stores the result. A file   *)
(* that goes bad after it is read here, until the commit, counts as one    *)
(* that went bad after it was registered.                                  *)
RecordMarketData(t) ==
    LET k == tasks[t]
        held == holdings \cup {<<k.user, d>> : d \in k.snapshot}
    IN /\ k.at = "computed"
       /\ IF VerifiedAgain(k.snapshot) /\ \A d \in k.used : <<k.user, d>> \in held
          THEN /\ versions' = versions \cup k.snapshot
               /\ holdings' = held
               /\ Goes(t, [at |-> "succeeded", user |-> k.user, named |-> k.named,
                           used |-> k.used, frame |-> k.frame])
          ELSE Goes(t, [at |-> "failed"]) /\ UNCHANGED <<versions, holdings>>
       /\ UNCHANGED <<day, revision, blobs, damaged, spoiled, damage>>

(* The job process dies; the job is claimed again. What it stored stays. *)
TaskDies(t) ==
    /\ tasks[t].at \in {"storing", "computed"}
    /\ Goes(t, [at |-> "queued", user |-> tasks[t].user, named |-> tasks[t].named,
                snapshot |-> {}])
    /\ UNCHANGED <<day, revision, blobs, damaged, spoiled, versions, holdings, damage>>

-----------------------------------------------------------------------------
(* The world *)

NextDay ==
    /\ day < MaxDay
    /\ day' = day + 1
    /\ UNCHANGED <<revision, blobs, damaged, spoiled, versions, holdings, tasks, damage>>

Restate ==
    /\ revision < MaxRevisions
    /\ revision' = revision + 1
    /\ UNCHANGED <<day, blobs, damaged, spoiled, versions, holdings, tasks, damage>>

DamageBlob(d) ==
    /\ damage < MaxDamage /\ d \notin damaged
    /\ damaged' = damaged \cup {d}
    /\ spoiled' = spoiled \cup ({d} \cap versions)
    /\ damage' = damage + 1
    /\ UNCHANGED <<day, revision, blobs, versions, holdings, tasks>>

DatasetNext ==
    \/ \E t \in Tasks :
          \/ \E u \in Holders, named \in SUBSET versions : QueueResearch(t, u, named)
          \/ \E got \in SUBSET {s \in Symbols : Available(s)} : TakeSnapshot(t, got)
          \/ PutBlob(t) \/ ComputeFromSnapshot(t) \/ ComputeFromNamed(t)
          \/ RecordMarketData(t) \/ TaskDies(t)
    \/ NextDay \/ Restate
    \/ \E d \in blobs : DamageBlob(d)

-----------------------------------------------------------------------------
(* The inductive invariant *)

Done(t) == tasks[t].at = "succeeded"

(* A dataset has bars, each of some session up to the last day. *)
Sound(d) ==
    /\ d \in Dataset /\ d.bars # {}
    /\ \A b \in d.bars : b.first <= b.last /\ b.last < MaxDay

(* A task that computes once more, from the files its result names *)
Rerun(t) ==
    Computed([user |-> tasks[t].user, named |-> tasks[t].used, snapshot |-> {}], tasks[t].used)

(* The frame of a task is the frame of the datasets that supplied it, and  *)
(* of the ones it named; and their parts agree and are all needed again.   *)
FrameInv(t) ==
    /\ Used(tasks[t].used) = tasks[t].used /\ tasks[t].frame # {}
    /\ \A s \in Found(tasks[t].used) : Agree(Series(tasks[t].used, s))
    /\ tasks[t].frame = Frame(tasks[t].used)
    /\ tasks[t].named # Unnamed => tasks[t].frame = Frame(tasks[t].named)

TaskInv(t) ==
    /\ tasks[t].at \in {"idle", "queued", "storing", "computed", "succeeded", "failed"}
    /\ tasks[t].at \in {"queued", "storing"} =>
          tasks[t] \in [at : {"queued", "storing"}, user : Holders,
                        named : SUBSET Dataset, snapshot : SUBSET Dataset]
    /\ tasks[t].at \in {"queued", "storing", "computed", "succeeded"} =>
          tasks[t].user \in Holders /\ tasks[t].named \subseteq versions
    /\ tasks[t].at = "queued" => tasks[t].snapshot = {}
    /\ tasks[t].at = "storing" => tasks[t].named = Unnamed
    /\ tasks[t].at \in {"storing", "computed"} => \A d \in tasks[t].snapshot : Sound(d)
    /\ tasks[t].at = "computed" =>
          /\ tasks[t].used \subseteq tasks[t].snapshot \cup tasks[t].named
          /\ tasks[t].used # {} /\ FrameInv(t)
    /\ Done(t) =>
          /\ tasks[t].used \subseteq versions
          /\ \A d \in tasks[t].used : <<tasks[t].user, d>> \in holdings
          /\ tasks[t].used # {} /\ FrameInv(t)

(* What is registered is stored, and was good when it was registered. *)
VersionsInv == versions \subseteq blobs /\ versions \cap damaged \subseteq spoiled

DatasetsInv ==
    /\ day \in FirstDay..MaxDay /\ revision \in Nat
    /\ \A d \in versions : Sound(d)
    /\ VersionsInv
    /\ DOMAIN tasks = Tasks /\ \A t \in Tasks : TaskInv(t)

-----------------------------------------------------------------------------
(* Properties *)

(* "a rerun on the dataset ids a snapshot produced sees exactly the bars   *)
(* the first run saw" (market_data.py), on a later day, after the provider *)
(* restated its history or another user stored other data; and whatever a  *)
(* result was computed from is registered and held by its user.            *)
RerunSeesTheSame ==
    \A t \in Tasks : Done(t) =>
        /\ tasks[t].used \subseteq versions
        /\ \A d \in tasks[t].used : <<tasks[t].user, d>> \in holdings
        /\ \A r \in Tasks :
              Done(r) /\ tasks[t].named = Unnamed /\ tasks[r].named = tasks[t].used =>
                  tasks[r].frame = tasks[t].frame

(* "a row always describes bytes that exist and hash to its name"          *)
(* (dataset_registry.py), and so a result can be had again: the files of   *)
(* all it was computed from are there, good unless they went bad after     *)
(* they were registered, and a task that reads them computes the same      *)
(* frame from the same datasets. Whatever happened to a file before that,  *)
(* at rest from an earlier job, or between put, the computation and the    *)
(* registration, by whichever job put it, fails the job instead.           *)
ResultsAreRepeatable ==
    \A t \in Tasks : Done(t) =>
        /\ tasks[t].used \subseteq blobs
        /\ tasks[t].used \cap damaged \subseteq spoiled
        /\ Rerun(t).at = "computed"
        /\ Rerun(t).frame = tasks[t].frame /\ Rerun(t).used = tasks[t].used

-----------------------------------------------------------------------------
(* The format: tables, their logical hash and their file format, from      *)
(* backend/services/dataset_format.py, for a table with a key, a nullable  *)
(* float64 and a nullable utf8 column. A float64 takes Width bytes and a   *)
(* length one byte; SHA-256 is taken to be injective, so that a digest is  *)
(* modelled by the bytes it covers.                                        *)

CONSTANTS Keys,      \* dates, as numbers
          Floats,    \* float64 bit patterns the input may hold
          NegZero,   \* -0.0
          NaN,
          Strings,   \* utf8 values: sequences of bytes
          Null,
          Width,
          MaxRows

VARIABLE tables      \* two inputs of Table.build

RawRow == [key : Keys, price : Floats \cup {NegZero, NaN}, label : Strings \cup {Null}]

FormatInit == tables \in [1..2 -> UNION {[1..n -> RawRow] : n \in 0..MaxRows}]

-----------------------------------------------------------------------------
(* Table.build *)

(* _float64: -0.0 is written as 0.0, and NaN is a null. *)
Float64(v) == CASE v = NegZero -> 0 [] v = NaN -> Null [] OTHER -> v

Normalised(row) == [row EXCEPT !.price = Float64(@)]

(* A key that occurs twice is refused. *)
DuplicateKey(raw) == \E i, j \in DOMAIN raw : i # j /\ raw[i].key = raw[j].key

(* Keeps the rows as they came (mutant of Build). *)
BuildUnsorted(raw) == [i \in DOMAIN raw |-> Normalised(raw[i])]

(* The rows in the order of their keys *)
Build(raw) ==
    SetToSortSeq({Normalised(raw[i]) : i \in DOMAIN raw}, LAMBDA r, s : r.key < s.key)

-----------------------------------------------------------------------------
(* qs-col-sha256-v1 *)

Zeros(n) == [i \in 1..n |-> 0]

(* A nullable column prefixes every row with a validity byte, and a null   *)
(* is followed by the type's zero value.                                   *)
EncodeNullable(v, bytes, zero) == IF v = Null THEN <<0>> \o zero ELSE <<1>> \o bytes

EncodeFloat(v) == EncodeNullable(v, Zeros(Width - 1) \o <<v>>, Zeros(Width))

EncodeUtf8(v) == EncodeNullable(v, <<Len(v)>> \o v, <<0>>)

(* Table.encoded: the rows of a column one after the other *)
Encoded(table, name) ==
    FlattenSeq([i \in DOMAIN table |->
        CASE name = "key"   -> <<table[i].key>>
          [] name = "price" -> EncodeFloat(table[i].price)
          [] name = "label" -> EncodeUtf8(table[i].label)])

Columns == <<"key", "price", "label">>

(* Table.manifest and table_hash: the columns' digests and the row count *)
Manifest(table) == [columns |-> [i \in 1..3 |-> Encoded(table, Columns[i])], rows |-> Len(table)]

(* Dataset.dataset_id; the identity facts are fixed here. *)
DatasetId(table) == Manifest(table)

-----------------------------------------------------------------------------
(* The blob: a header with the lengths, then the encoded columns *)

EncodeBlob(table) ==
    [rows |-> Len(table),
     lengths |-> [i \in 1..3 |-> Len(Encoded(table, Columns[i]))],
     payload |-> FlattenSeq([i \in 1..3 |-> Encoded(table, Columns[i])])]

(* _parse, fixed width: record i of a column *)
ParseFloat(raw, i) ==
    LET at == (i - 1) * (Width + 1)
    IN IF raw[at + 1] = 0 THEN Null ELSE raw[at + 1 + Width]

(* _parse_utf8: the strings from an offset on *)
ParseUtf8(raw, at) ==
    LET from[p \in 0..Len(raw)] ==
            IF p = Len(raw) THEN << >>
            ELSE LET n == raw[p + 2]
                 IN <<IF raw[p + 1] = 0 THEN Null ELSE SubSeq(raw, p + 3, p + 2 + n)>>
                    \o from[p + 2 + n]
    IN from[at]

(* _decode: the columns by the lengths of the header, built into a table *)
DecodeBlob(blob) ==
    LET k == blob.lengths[1]
        f == blob.lengths[2]
        keys   == SubSeq(blob.payload, 1, k)
        floats == SubSeq(blob.payload, k + 1, k + f)
        labels == ParseUtf8(SubSeq(blob.payload, k + f + 1, Len(blob.payload)), 0)
    IN Build([i \in 1..blob.rows |->
                 [key |-> keys[i], price |-> ParseFloat(floats, i), label |-> labels[i]]])

-----------------------------------------------------------------------------
(* Properties *)

(* What a dataset's name promises: two tables have the same id exactly     *)
(* when they hold the same rows, in whatever order and with whichever zero *)
(* they were given, so that nulls, empty strings and values never run into *)
(* each other in the encoding; and a blob decodes to the table it encodes. *)
SameDataSameName ==
    LET a == Build(tables[1])
        b == Build(tables[2])
        data(raw) == {Normalised(raw[i]) : i \in DOMAIN raw}
    IN ~DuplicateKey(tables[1]) /\ ~DuplicateKey(tables[2]) =>
          /\ DatasetId(a) = DatasetId(b) <=> data(tables[1]) = data(tables[2])
          /\ DecodeBlob(EncodeBlob(a)) = a
=============================================================================
