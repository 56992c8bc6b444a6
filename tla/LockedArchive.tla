--------------------------- MODULE LockedArchive ---------------------------
(***************************************************************************)
(* A locked research dataset from the exchange to the archive: the REST    *)
(* collection with its checkpoints (app/data/historical_backfill.py), the  *)
(* shard rebuilt from a month of deals (gateio_deals_archive.py), the      *)
(* merge of the two (locked_dataset_merge.py), the publication of the      *)
(* sealed dataset and of its Parquet bundle to an object store without a   *)
(* conditional put (locked_source_object_store.py,                         *)
(* research_object_store.py), and the restore of either.  A candle is the  *)
(* moment up to which it holds the trades of its interval, so a candle     *)
(* read before it closed differs from the same candle read later.  A file  *)
(* is its content and a fingerprint is what it is computed from.           *)
(***************************************************************************)
EXTENDS Integers, Sequences, FiniteSets, Functions, FiniteSetsExt, SequencesExt

CONSTANTS Jobs,         \* runs of the workflow, each with directories of its own
          Timeframes,   \* the timeframes, in the order they are collected
          Step,         \* their length
          Bucket,       \* the length of the candles built from the deals
          Opens, Joins, Ends, \* the deals shard is [Opens, Joins), the REST shard [Joins, Ends)
          ChunkPoints,  \* candles of one request
          Times,        \* the moments at which a step may happen
          MaxMishaps    \* bound on crashes, failed calls, incomplete answers and repeated collections

\* A request of one candle would never advance: HistoricalBackfillPolicy asks for two or more.
ASSUME ChunkAssumption == ChunkPoints \in Nat /\ ChunkPoints >= 2
ASSUME TimeAssumption ==
    /\ {Opens, Joins, Ends} \cup Times \subseteq Nat /\ Opens < Joins /\ Joins < Ends
    /\ Bucket \in Nat \ {0} /\ Step \in [Range(Timeframes) -> Nat \ {0}]
ASSUME AlignmentAssumption ==
    \A tf \in Range(Timeframes), t \in {Opens, Joins, Ends} : t % Step[tf] = 0 /\ Step[tf] % Bucket = 0
\* No timeframe is named like an object that is not a candle file.
ASSUME NameAssumption ==
    /\ Timeframes \in Seq(Range(Timeframes)) /\ Timeframes # <<>>
    /\ {"manifest", "checksums"} \cap Range(Timeframes) = {}

VARIABLES now,         \* the exchange's clock
          mishaps,     \* how many of the MaxMishaps have happened
          pc,          \* what each job is doing
          checkpoint,  \* saved answers of the REST collection, by request
          dir,         \* the dataset directories of each job
          objects,     \* the bucket, by key
          cache        \* the restored dataset of each job

archiveVars == <<now, mishaps, pc, checkpoint, dir, objects, cache>>

Shards == {"deals", "rest", "lock"}
Nothing == <<>>
TFs == Range(Timeframes)
\* Two sets of rows, files or objects; of a name in both, the first one's.
Over(f, g) == [x \in DOMAIN f \cup DOMAIN g |-> IF x \in DOMAIN f THEN f[x] ELSE g[x]]
Span == [deals |-> <<Opens, Joins>>, rest |-> <<Joins, Ends>>, lock |-> <<Opens, Ends>>]

-----------------------------------------------------------------------------
(* Candles.                                                                *)

Slots(tf, from, to) == {t \in from .. to : t % Step[tf] = 0}

\* What the exchange answers: the candles that have opened, the last as far as it got.
Answer(tf, from, to) == [t \in {s \in Slots(tf, from, to) : s < now} |-> Min({now, t + Step[tf]})]

\* Mutant of Valid: gaps are warnings, as allow_session_gaps makes them.
ValidWithGaps(tf, rows) == rows # Nothing

\* Timestamps one step apart, without a gap.
Valid(tf, rows) ==
    \A t \in DOMAIN rows : t = Max(DOMAIN rows) \/ t + Step[tf] \in DOMAIN rows

Covers(tf, rows, from, to) ==
    rows # Nothing /\ Min(DOMAIN rows) = from /\ Max(DOMAIN rows) = to - Step[tf]

\* Candles of a timeframe from contiguous base candles.
Aggregate(base, tf, from, to) ==
    [t \in Slots(tf, from, to - 1) |-> Max({base[s] : s \in {u \in DOMAIN base : u \in t .. t + Step[tf] - 1}})]

-----------------------------------------------------------------------------
(* Directories.  A manifest holds the content it was sealed with and who   *)
(* sealed it (the retrieval times and revisions that differ between two    *)
(* collections of the same candles).                                       *)

EmptyDir == [files |-> [tf \in TFs |-> Nothing], manifest |-> Nothing]

Manifest(content, j) == [content |-> content, by |-> j]

\* A file of canonical rows, which its checksum stands for, replaces the one of its name in one step.
WithFile(d, tf, rows) == [d EXCEPT !.files[tf] = rows]

\* load_locked_dataset: the files have the sealed checksums and cover the range without a gap.
Loads(d, shard) ==
    /\ d.manifest # Nothing
    /\ \A tf \in TFs :
         /\ d.files[tf] = d.manifest.content[tf]
         /\ Covers(tf, d.files[tf], Span[shard][1], Span[shard][2])
         /\ Valid(tf, d.files[tf])

\* verify_research_bundle: the files, and the list of their checksums, agree with the manifest.
BundleVerifies(d) ==
    /\ d.manifest # Nothing
    /\ \A tf \in TFs : d.files[tf] = d.manifest.content[tf]
    /\ d.files["checksums"] = d.manifest.content

\* A request of a timeframe starts at a cursor; the next one starts at the last candle of this one.
LastCandle(tf) == Ends - Step[tf]
WindowEnd(tf, cursor) == Min({LastCandle(tf), cursor + (ChunkPoints - 1) * Step[tf]})
Request(tf, cursor) == <<tf, cursor>>
Requests == UNION {{Request(tf, c) : c \in Slots(tf, Joins, LastCandle(tf))} : tf \in TFs}

\* The requests with a checkpoint, before a cursor.
Asked(j, tf, cursor) ==
    {c \in Slots(tf, Joins, LastCandle(tf)) : c < cursor /\ checkpoint[j][Request(tf, c)] # Nothing}

\* The candles of these requests; of an instant two requests answered, the later request's.
Merged(j, tf, cursor) ==
    LET RowsOf(c) == checkpoint[j][Request(tf, c)].rows
        asked == Asked(j, tf, cursor)
        LaterOf(t) == Max({c \in asked : t \in DOMAIN RowsOf(c)})
    IN  [t \in UNION {DOMAIN RowsOf(c) : c \in asked} |-> RowsOf(LaterOf(t))[t]]

\* conflicting historical candle
Conflicts(merged, rows) == \E t \in DOMAIN merged \cap DOMAIN rows : merged[t] # rows[t]

\* What a job seals into a directory.
DealsContent == [tf \in TFs |->
    Aggregate([t \in {s \in Opens .. Joins - 1 : s % Bucket = 0} |-> t + Bucket], tf, Opens, Joins)]
MergedContent(j) == [tf \in TFs |-> Over(dir[j]["deals"].files[tf], dir[j]["rest"].files[tf])]

-----------------------------------------------------------------------------
ArchiveInit ==
    /\ now \in Times
    /\ mishaps = 0
    /\ pc = [j \in Jobs |-> [do |-> "idle"]]
    /\ checkpoint = [j \in Jobs |-> [r \in Requests |-> Nothing]]
    /\ dir = [j \in Jobs |-> [s \in Shards |-> EmptyDir]]
    /\ objects = Nothing
    /\ cache = [j \in Jobs |-> Nothing]

Goto(j, p) == pc' = [pc EXCEPT ![j] = p]
AtRest == [do |-> "idle"]
Mishap == mishaps < MaxMishaps /\ mishaps' = mishaps + 1

\* The collection of a shard without a manifest; of a REST shard with one, over it.
StartRest(j) ==
    /\ pc[j] = AtRest
    /\ IF dir[j]["rest"].manifest = Nothing THEN UNCHANGED mishaps ELSE Mishap
    /\ Goto(j, [do |-> "rest", tf |-> 1, cursor |-> Joins])
    /\ UNCHANGED <<now, checkpoint, dir, objects, cache>>

\* What is saved of a request: the rows as they came, without the ones the exchange left out, and when.
Saved(r, lost) ==
    LET rows == Answer(r[1], r[2], WindowEnd(r[1], r[2]))
    IN  [rows |-> Restrict(rows, DOMAIN rows \ lost), retrieved_at |-> now]

\* A checkpoint of the request takes the place of an answer.
SavedOr(j, r, answer) == IF checkpoint[j][r] # Nothing THEN checkpoint[j][r] ELSE answer

\* Where the collection goes on after a request; it is through after the one that reaches the last candle.
Following(tf, cursor) == IF WindowEnd(tf, cursor) >= LastCandle(tf) THEN Ends ELSE WindowEnd(tf, cursor)

\* Mutant of Window: a repeated collection asks again.
WindowAskedAgain(j) ==
    LET p == pc[j]
        tf == Timeframes[p.tf]
        r == Request(tf, p.cursor)
        got == Saved(r, {})
    IN  /\ p.do = "rest" /\ p.cursor < Ends
        /\ checkpoint' = [checkpoint EXCEPT ![j][r] = got]
        /\ Goto(j, IF Conflicts(Merged(j, tf, p.cursor), got.rows) THEN AtRest
                   ELSE [p EXCEPT !.cursor = Following(tf, @)])
        /\ UNCHANGED <<now, mishaps, dir, objects, cache>>

\* A window: its checkpoint if there is one, otherwise a request whose answer is saved as it came.
Window(j) ==
    LET p == pc[j]
        tf == Timeframes[p.tf]
        r == Request(tf, p.cursor)
    IN  /\ p.do = "rest" /\ p.cursor < Ends
        /\ \E lost \in SUBSET Slots(tf, p.cursor, WindowEnd(tf, p.cursor)) :
             /\ Cardinality(lost) <= 1
             /\ IF lost = {} THEN UNCHANGED mishaps ELSE checkpoint[j][r] = Nothing /\ Mishap
             /\ LET got == SavedOr(j, r, Saved(r, lost))
                IN  /\ checkpoint' = [checkpoint EXCEPT ![j][r] = got]
                    /\ Goto(j, IF Conflicts(Merged(j, tf, p.cursor), got.rows) THEN AtRest
                               ELSE [p EXCEPT !.cursor = Following(tf, @)])
        /\ UNCHANGED <<now, dir, objects, cache>>

\* The candles of a timeframe that cover the range are locked; the manifest follows the last one.
LockTimeframe(j) ==
    LET p == pc[j]
        tf == Timeframes[p.tf]
        rows == Merged(j, tf, Ends)
    IN  /\ p.do = "rest" /\ p.cursor = Ends
        /\ IF Covers(tf, rows, Joins, Ends) /\ Valid(tf, rows)
           THEN /\ dir' = [dir EXCEPT ![j]["rest"] = WithFile(@, tf, rows)]
                /\ Goto(j, IF p.tf = Len(Timeframes) THEN [do |-> "seal", shard |-> "rest"]
                           ELSE [p EXCEPT !.tf = @ + 1, !.cursor = Joins])
           ELSE Goto(j, AtRest) /\ UNCHANGED dir
        /\ UNCHANGED <<now, mishaps, checkpoint, objects, cache>>

\* Deals of every bucket, or no shard: an existing manifest is returned as it is.
StartDeals(j) ==
    /\ pc[j] = AtRest /\ dir[j]["deals"].manifest = Nothing
    /\ Goto(j, [do |-> "write", shard |-> "deals", tf |-> 1])
    /\ UNCHANGED <<now, mishaps, checkpoint, dir, objects, cache>>

\* Both shards load, one ends where the other starts, and the output has no manifest.
StartMerge(j) ==
    /\ pc[j] = AtRest /\ dir[j]["lock"].manifest = Nothing
    /\ \A s \in {"deals", "rest"} : Loads(dir[j][s], s)
    /\ Goto(j, [do |-> "write", shard |-> "lock", tf |-> 1])
    /\ UNCHANGED <<now, mishaps, checkpoint, dir, objects, cache>>

WriteFile(j) ==
    LET p == pc[j]
        tf == Timeframes[p.tf]
        rows == IF p.shard = "lock" THEN MergedContent(j)[tf] ELSE DealsContent[tf]
    IN  /\ p.do = "write"
        /\ IF Valid(tf, rows) /\ Covers(tf, rows, Span[p.shard][1], Span[p.shard][2])
           THEN /\ dir' = [dir EXCEPT ![j][p.shard] = WithFile(@, tf, rows)]
                /\ Goto(j, IF p.tf = Len(Timeframes) THEN [do |-> "seal", shard |-> p.shard]
                           ELSE [p EXCEPT !.tf = @ + 1])
           ELSE Goto(j, AtRest) /\ UNCHANGED dir
        /\ UNCHANGED <<now, mishaps, checkpoint, objects, cache>>

\* The manifest, replaced in one step, after every file it names.
Seal(j) ==
    LET p == pc[j] IN
    /\ p.do = "seal"
    /\ dir' = [dir EXCEPT ![j][p.shard].manifest = Manifest(dir[j][p.shard].files, j)]
    /\ Goto(j, AtRest)
    /\ UNCHANGED <<now, mishaps, checkpoint, objects, cache>>

-----------------------------------------------------------------------------
(* The object store.  A key is a prefix and a name.                        *)

\* The source snapshot lies under the fingerprint of its content; the bundle's also binds the
\* fingerprint of the manifest it was built from.
Prefix(kind, m) ==
    IF kind = "source" THEN [kind |-> kind, of |-> m.content]
    ELSE [kind |-> kind, of |-> m]

\* Mutant of Plan: the manifest is put first.
PlanManifestFirst(kind) == <<"manifest">> \o Timeframes \o (IF kind = "source" THEN <<>> ELSE <<"checksums">>)

\* The data, the checksums of a bundle, and the manifest last.
Plan(kind) == Timeframes \o (IF kind = "source" THEN <<>> ELSE <<"checksums">>) \o <<"manifest">>

Bytes(m, name) == CASE name = "manifest" -> m [] name = "checksums" -> m.content [] OTHER -> m.content[name]

ObjectKey(prefix, name) == <<prefix, name>>

\* What a restore downloads after the manifest, and in which order.
Downloads(kind) == (IF kind = "source" THEN <<>> ELSE <<"checksums">>) \o Timeframes

StartPublish(j, kind) ==
    /\ pc[j] = AtRest /\ Loads(dir[j]["lock"], "lock")
    /\ Goto(j, [do |-> "head", kind |-> kind, at |-> 1])
    /\ UNCHANGED <<now, mishaps, checkpoint, dir, objects, cache>>

Publishing(j) == LET p == pc[j]
                     m == dir[j]["lock"].manifest
                 IN  [key |-> ObjectKey(Prefix(p.kind, m), Plan(p.kind)[p.at]), bytes |-> Bytes(m, Plan(p.kind)[p.at])]

\* An object that is there is only compared.
HeadObject(j) ==
    /\ pc[j].do = "head"
    /\ Goto(j, [pc[j] EXCEPT !.do = IF Publishing(j).key \in DOMAIN objects THEN "readback" ELSE "put"])
    /\ UNCHANGED <<now, mishaps, checkpoint, dir, objects, cache>>

\* The put has no condition: another job may have put the object after the head.
PutObject(j) ==
    /\ pc[j].do = "put"
    /\ objects' = Over([key \in {Publishing(j).key} |-> Publishing(j).bytes], objects)
    /\ Goto(j, [pc[j] EXCEPT !.do = "readback"])
    /\ UNCHANGED <<now, mishaps, checkpoint, dir, cache>>

\* Other bytes end the publication.
Readback(j) ==
    LET p == pc[j] IN
    /\ p.do = "readback"
    /\ Goto(j, IF objects[Publishing(j).key] # Publishing(j).bytes \/ p.at = Len(Plan(p.kind)) THEN AtRest
               ELSE [p EXCEPT !.do = "head", !.at = @ + 1])
    /\ UNCHANGED <<now, mishaps, checkpoint, dir, objects, cache>>

\* A restore asks for a fingerprint; a dataset that is already there is verified instead.
StartRestore(j, kind, prefix) ==
    /\ pc[j] = AtRest /\ cache[j] = Nothing
    /\ prefix.kind = kind /\ ObjectKey(prefix, "manifest") \in DOMAIN objects
    /\ Prefix(kind, objects[ObjectKey(prefix, "manifest")]) = prefix
    /\ Goto(j, [do |-> "download", prefix |-> prefix, m |-> objects[ObjectKey(prefix, "manifest")], at |-> 1,
                files |-> Nothing])
    /\ UNCHANGED <<now, mishaps, checkpoint, dir, objects, cache>>

\* Every file into a temporary directory; one of the source is compared with the manifest at once.
Download(j) ==
    LET p == pc[j]
        kind == p.prefix.kind
        name == Downloads(kind)[p.at]
        key == ObjectKey(p.prefix, name)
    IN  /\ p.do = "download" /\ p.at <= Len(Downloads(kind))
        /\ IF key \in DOMAIN objects /\ (kind = "source" => objects[key] = Bytes(p.m, name))
           THEN Goto(j, [p EXCEPT !.at = @ + 1, !.files = Over([u \in {name} |-> objects[key]], @)])
           ELSE Goto(j, AtRest)
        /\ UNCHANGED <<now, mishaps, checkpoint, dir, objects, cache>>

\* The directory is renamed into place once it verifies under the fingerprint that was asked for.
Install(j) ==
    LET p == pc[j]
        d == [files |-> p.files, manifest |-> p.m]
        verified == IF p.prefix.kind = "source" THEN Loads(d, "lock") ELSE BundleVerifies(d)
    IN  /\ p.do = "download" /\ p.at > Len(Downloads(p.prefix.kind))
        /\ cache' = IF verified /\ Prefix(p.prefix.kind, p.m) = p.prefix /\ cache[j] = Nothing
                    THEN [cache EXCEPT ![j] = [prefix |-> p.prefix, files |-> p.files]] ELSE cache
        /\ Goto(j, AtRest)
        /\ UNCHANGED <<now, mishaps, checkpoint, dir, objects>>

-----------------------------------------------------------------------------
\* A crash, a request whose retries are spent, deals with an empty bucket, a failed transfer.
Abort(j) ==
    /\ pc[j] # AtRest /\ Mishap
    /\ Goto(j, AtRest)
    /\ UNCHANGED <<now, checkpoint, dir, objects, cache>>

Tick ==
    /\ \E t \in Times : t > now /\ now' = t /\ \A u \in Times : u > now => u >= t
    /\ UNCHANGED <<mishaps, pc, checkpoint, dir, objects, cache>>

ArchiveNext ==
    \/ Tick
    \/ \E j \in Jobs :
         \/ StartRest(j) \/ Window(j) \/ LockTimeframe(j)
         \/ StartDeals(j) \/ StartMerge(j) \/ WriteFile(j) \/ Seal(j)
         \/ \E kind \in {"source", "research"} :
              \/ StartPublish(j, kind)
              \/ \E key \in DOMAIN objects : StartRestore(j, kind, key[1])
         \/ HeadObject(j) \/ PutObject(j) \/ Readback(j)
         \/ Download(j) \/ Install(j) \/ Abort(j)

ArchiveSpec == ArchiveInit /\ [][ArchiveNext]_archiveVars

-----------------------------------------------------------------------------
(* Properties.                                                             *)

\* The history of the range: every candle with all the trades of its interval.
History == [tf \in TFs |-> [t \in Slots(tf, Opens, Ends - 1) |-> t + Step[tf]]]

\* A dataset merged from requests that were answered after the range had ended holds every candle of
\* the range with all its trades, whatever was lost, retried or resumed in between
\* (historical_backfill.py:277-349, gateio_deals_archive.py:282-430, locked_dataset_merge.py:180-205).
SealedAfterEndIsHistory ==
    \A j \in Jobs :
        (/\ dir[j]["lock"].manifest # Nothing
         /\ \A r \in Requests : checkpoint[j][r] # Nothing => checkpoint[j][r].retrieved_at >= Ends)
            => dir[j]["lock"].manifest.content = History

\* A directory that loads keeps loading with the same content, also while a repeated collection
\* rewrites its files before its manifest or stops half way (historical_backfill.py:451-513).
SealedStays ==
    [][\A j \in Jobs, s \in Shards : dir'[j][s] # dir[j][s] /\ Loads(dir[j][s], s) =>
          Loads(dir'[j][s], s) /\ dir'[j][s].manifest.content = dir[j][s].manifest.content]_dir

\* A manifest in the store commits its prefix: every object a restore then asks for is there with the
\* bytes the manifest names, whoever put it, the list of checksums of a bundle included
\* (research_object_store.py:468-498, research_object_restore.py:135-141, locked_source_object_store.py:122-150).
CommittedIsComplete ==
    \A key \in DOMAIN objects : key[2] = "manifest" =>
        \A name \in Range(Downloads(key[1].kind)) : LET object == ObjectKey(key[1], name) IN
            object \in DOMAIN objects /\ objects[object] = Bytes(objects[key], name)

=============================================================================
