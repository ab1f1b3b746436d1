# A verification of helium-columnar

TLA+ models of helium-columnar, a columnar file format (`.he`) with its writer
and reader, a shared schema catalog, and table interfaces for DataFusion and
DuckDB. The models are checked by TLC on small instances; the results that
matter most are proved for every instance with TLAPS. Paths are those of the
repository (`src/src/...` is the crate, `src/duckdb` the DuckDB extension).

## 1. The system and its components

```
 arrow / csv / avro / parquet / json          SQL (DataFusion)      DuckDB
            |  chunks of rows                        |                 |
            v                                        v                 v
   cli convert ----> HeliumWriter              HeliumTableProvider   HeVTab
            |          |  ^    \                 scan, HeliumExec   bind, init, func
            |          |  |     \ statistics         |   \             |
            |  leaves  |  | hash in header           |    pruning      |
            v          v  |       v                  v      |          v
        Catalog <--open_writer   footer <------- HeliumReader (one per partition / scan)
     <hash>.json  <---------- resolver -------------'
```

For each component: what state it keeps, what it does, with whom, what is hard
about it, and what makes it correct.

| component | state | operations and interactions | hard behaviour | correct when |
|---|---|---|---|---|
| **Schema catalog** `catalog/mod.rs` | a directory of `<hash>.json` files, shared by processes | `add_schema` (exists, unlink tmp, create, write, sync, rename), `open_writer` (add, then a file header with the hash), `lookup_by_hash`/`resolver` (called back by a reader), `list_schemas`, `verify_consistency` | no lock; crashes between system calls; all processes use one tmp name per schema; readers hold descriptors across renames | a file under a final name is complete, is never replaced, and exists before a data file names it; a retry after a crash succeeds |
| **HeliumWriter** `core/file.rs` | sink position, locations of the open stripe's columns, row count, finished stripes | `new`/`with_catalog_ref`, `write_column` (decompose, encode and append leaf by leaf), `finish_stripe`, `finish` | errors midway leave bytes and a row count behind; the caller may go on; crash at any byte | the file holds exactly what successful calls put there; it opens only when sealed |
| **HeliumReader** `core/file.rs` | the parsed footer | `new` (validation), `read_column_at_stripe`, `read_column`, `project_to` | truncated and corrupt files; offsets recomputed in a slice | reads give what was written; a slice equals its source |
| **Footer statistics, filters** `core/footer_stats.rs` | min, max, null count; exact set turning into a Bloom filter | computed in one pass by `write_column` | saturation, wrapping hashes, cut strings, NaN | no false negatives; bounds contain every value |
| **Pruning** `sql/pruning.rs`, `duckdb/src/prune.rs` | none | answers `PruningStatistics` calls, range checks | three-valued answers whose meaning another crate defines | never skips a stripe with a matching row |
| **DataFusion table** `sql/mod.rs`, `sql/exec.rs` | footers read once; a keep mask; one stripe per partition | `try_new`, `scan`, `execute`, statistics | partitions in any order, limit per partition, statistics marked Exact | no row lost, Exact statistics are exact |
| **DuckDB extension** `duckdb/src` | bind data, cursor over stripes and rows | `bind`, `init`, `func`, called back by DuckDB | the path is opened twice; chunks smaller than stripes; empty stripes; compacted nulls | each row once, in order; empty chunk only at the end |
| **Logical columns** `core/schema.rs` | none | `decompose`, `compose`, slicing, validation | nested offsets, nulls, dictionaries | compose inverts decompose; slices and concatenations agree |
| **Pipelines, registry** `core/pipeline.rs`, `core/registry.rs`, `core/coder.rs` | none | typing and chaining of coders | type changes along a chain | a pipeline that validates can encode and decode |
| **Coders** `coders/*` | none (bit cursors) | rle, delta, delta-of-delta, deltamin, leb128, bitpack, gorilla, elias-fano | wrapping arithmetic, run and bit-width limits | decode inverts encode |
| **Byte compressors** `coders/zstd_coder.rs` ... | none | wrappers of libraries | none of its own | |
| **Standalone codec** `codec/*` | none | header plus one pipeline | header parsing | decode inverts encode |
| **Optimizer** `optimizer/*` | candidates and their sizes | trial encodings of samples | fallback when a candidate fails | picks a pipeline that works |
| **Arrow bridge** `arrow/*` | none | arrays to logical columns and back | null compaction in nested columns | round trip |
| **Adapters** `schema/*`, **CLI** `cli/*`, **Python** `src/python` | input iterators, open files | inference, chunked import, slice, verify | errors midway in `convert` | output complete or absent |

`PROJECT.json` lists the same components with what is modelled, and, under
"hazards", each place where this code can go wrong in a way a test hardly
reaches, with the properties that would show it.

## 2. The modules

| module | models | composed of |
|---|---|---|
| `Catalog` | the catalog directory and the processes using it | |
| `HeliumReader` | file layout, opening, reading a stripe, `project_to` (operators) | |
| `HeliumWriter` | the writer as a state machine over its sink | `HeliumReader` |
| `StripeTable` | abstract specification: a table of stripes that is written, committed and sealed | |
| `FooterStats` | statistics pass, `FilterAccumulator`, Bloom filters (operators) | |
| `Pruning` | `contained`, the min/max and null-count predicates, `stripe_matches_range` (operators) | `FooterStats` |
| `StripePruning` | a column is written row by row, then its footer answers queries | `Pruning` |
| `SqlScan` | provider, scan, partitions, statistics | `Pruning` |
| `DuckScan` | bind, init, func with the cursor and the column windows | |
| `LogicalColumn` | trees of columns: `decompose`, `compose`, `slice`, dictionary encoding, concatenation over stripes (operators) | |
| `ArrowBridge` | Arrow arrays and fields, columns to arrays and back, types of both sides (operators) | `LogicalColumn` |
| `AvroBridge` | Avro types and data, to logical types and columns and back (operators) | `ArrowBridge` |
| `Convert` | one column from callers, JSON documents, Avro files or Arrow tables into stripes, and out again | `AvroBridge` |
| `Coders` | the coders as functions over words of a few bits (operators) | |
| `Pipelines` | registry, typing, encoding and decoding of chains, the HEC0 container, defaults, the optimizer's candidates (operators) | `Coders` |
| `Encoding` | one leaf through a pipeline and back | `Pipelines` |
| `Schemas` | physical fields, validation, flat encodings of nested types, a schema through writer, reader and projection | `Pipelines` |
| `MC*` | constants for TLC | the module named |
| `CatalogProofs`, `HeliumWriterProofs`, `StripePruningProofs`, `SqlScanProofs`, `DuckScanProofs`, `EncodingProofs` | theorems | the module named |
| `SchemaProofs` | theorems | `Schemas` |
| `SequenceLemmas` | lemmas about folds, concatenation and counting | |

### Catalog

One action per system call of `add_schema`: `CheckExists`, `RemoveTmp`,
`CreateTmp` (`O_CREAT|O_TRUNC`: an existing tmp file keeps its inode and loses
its content), `WriteChunk` (one `write(2)` of `write_all`), `SyncTmp`,
`RenameTmp` (moves whatever inode has the tmp name, and fails when there is
none). The state is the directory (`tmp`, `final`: schema to inode), the inodes
(`data`, `synced`) and each process's call (`pc`, `op`, `job`, `fd`, `off`,
`todo`, `res`). `open_writer` runs `add_schema` and then writes the hash into
a data file (`heFiles`). `OpenFinal`/`ReadFinal` are the two halves of
`fs::read`; `VerifyOne` is a turn of the audit's loop. `IoError`, `StatFails`,
`RemoveFails`, `Kill` and `PowerLoss` are the faults. The first three are calls that
fail: with an error that `add_schema` returns; in `Path::exists`, which then says
that the file is not there; in `remove_file`, whose result is ignored, so the tmp file
stays. After a power loss unsynced bytes are any part of what was written and, as the
code never syncs the directory, entries may be lost and renames undone.

`setting`, chosen once by `Init`, says whether callers keep registrations of one
schema apart (`exclusive`) and which faults may happen. Each promise names the
settings it holds in.

### HeliumReader, HeliumWriter, StripeTable

A file is a sequence of cells, the units a write can be torn into: header,
schema (or its hash, in catalog mode), the cells of each encoded leaf, footer,
footer length, footer CRC, header. `Opens` makes the reader's checks,
`ReadPiece` fetches leaves, compares CRCs and composes a value, `ProjectTo`
copies leaves and relocates them. The writer's variables are the fields of the
struct; `call` and `phys_locs` are the locals of `write_column`, which is
`BeginColumn`, one `WriteLeaf` per leaf, `ColumnWritten`, since the process may
die or an error may return (`ColumnRefused`, `LeafFails`, with part of the leaf
written) in between. The row count is set before anything can fail and stays set
after an error, as in the code. `finish` consumes the writer, also when it fails
(`FinishFails`, at any cell of the trailer). `Die` leaves any prefix.

`TableSpec` states that this implements `StripeTable`: its committed stripes and
open stripe are *read back from the sink's cells* through the recorded locations;
it is sealed exactly when the file opens.

### FooterStats, Pruning, StripePruning

A value is its rank in its type's order; `Stat` gives the rank of what the
footer keeps of it (below the value when a long string is cut), `Finite` the
values that are kept at all (no NaN, no infinity). The pass mirrors
`compute_min_max` and `FilterAccumulator`; Bloom sizes, hash counts and
positions use the code's integer arithmetic with the word size a parameter.
A binary column has two orders: its bounds are the least and the greatest blob, and
the footer keeps them as base64 texts, whose rank among texts is `Text`.
DataFusion is not shown these bounds (`ScalarMin`, `ScalarMax`) and its literals have
no form for them; the range check compares texts with texts (`Literal`).
`Keeps` is DataFusion's `PruningPredicate`: literal guarantees through
`contained`, min/max bounds, null counts. `StripePruning` writes up to `MaxRows`
rows and then asks every predicate.

### SqlScan

`TryNew` computes each footer with `FooterStats` and folds them as
`build_column_statistics` does; `Scan` computes the keep mask for a set of
filters; `Execute(s)` is one partition, in any order. DataFusion is external: it
applies the filters again, passes a limit only without filters (they are
declared Inexact), asks for no columns only to count rows.

### DuckScan

`Bind` counts stripes, `InitScan` opens the path again, `func` is split by its
paths: within a stripe (`FuncSameStripe`), at the next non-empty stripe
(`FuncNextStripe`, the recursion over empty stripes included), a stripe the file
lacks (`FuncMissing`), a failed read (`ReadFails`), the end (`FuncDone`).
`WriteWindow` is what each column kind writes for a window of rows; a nullable
column's values are compacted, a list column's entries are offsets. `Replace`
puts another file at the path.

### LogicalColumn, ArrowBridge, AvroBridge, Convert

A column is a tree: a kind, what the node itself holds (`own`: values, offsets,
presence, tags, indices) and its children; a type is a tree of the same shape.
`Consistent` collects the checks of `decompose`, `LengthsFit` those of `compose`;
leaves come in the order of `physical_fields`, so `KidLeaves` finds those of a
child. `KidRows` is the row count that `compose` derives for a child, `KidWindow`
the window that `slice` cuts out of it. `Word` and `Half` are the widths of `u32`
and of half a decimal. "utf8" stands for Binary too, "primitive" for every numeric
type except where a bridge tells them apart by the name in its type, "date" for all
dates and timestamps. `Reshape` is the optimizer's `reshape_to_schema_type`, and
`Promotions` are the types it may make of a column's.

`ArrowBridge` has arrays as trees in which a null takes a slot. `ToArrow` scatters
compact values behind one zero row (`ZeroRow`, `Scattered`), `FromArrow` gathers
the valid slots (`ValidRows`) and takes offsets and children as they come;
`SliceArray`, `Take` and `Stack` are Arrow's own slice, take and concat.
`HeliumType` and `FieldOf` map types in both directions.

`AvroBridge` follows `schema/avro.rs` in both directions: `ParseType` turns an Avro
type into a logical type, with null taken out of unions (`ParseUnion`); `FromAvro`
turns all data of a chunk into a column, one operator per kind, a branch found by
its number (`Branch`) or, where a nullable has taken it away, by shape
(`FirstFitting`); `AvroTypeOf` and `ToAvro` go back, `Exported` is
`write_avro_data`. `ValidAvro` is what the Avro library requires of a union.

`Convert` gives columns to a writer with one column. A caller hands over any
column, well formed or not (`CallerStep`, where a refused column leaves its row
count behind); documents are imported as an array (`LoadArray`, then `SliceChunk`
per chunk), line by line (`LinesChunk`) or as Avro data (`AvroChunk`, which has no
chunk for a file without data); `write_table` cuts the batches of an Arrow table
into windows (`TableWindow`, `TableEmpty`). `Finish` needs a stripe. `FromJson` is
`json_values_to_logical_column`, over all documents of a chunk at once; `JsonRow`
is the export of one row. The references are `Meaning`, `AvroMeaning` and
`ArrowRow`, which say of one document, datum or slot alone what comes out when it
is exported again. The writer's own steps and failures are in `HeliumWriter`.

### Coders, Pipelines, Encoding

Every coder is a function from the numbers of one type to those of another, or
`Fail`, with the code's wrapping arithmetic, zigzag, run splitting, bit packing
and bit cursors at widths of a few bits (`Width`, `ByteBits`, `WordBits`); a float
is its bit pattern. `Builds` is the registry's and the pipeline's type check,
`Encode` and `Decode` the chain with its block and non-block traits. The HEC0
container holds type, coder ids and count: parameters are lost, as in the code.
zstd, lz4, snappy and pcodec are frames that only their own decoder opens.

`Encoding` picks a pipeline (stated, default, of a `TypedCodec`, or any of the
optimizer's candidates that encodes a sample: which one depends on sizes that the
model does not measure), builds it, stores other values of the same leaf in a
`.he` leaf, a HEC0 buffer or bare, may cut the buffer off, and reads.

### Schemas

A type is a tree whose struct fields carry encodings, one of `Types`, the trees up to
a height. What the code computes recursively over types are functions on `Types`:
`PhysicalFields`, `ValidType` and `BuildPipelines` follow `core/schema.rs`, in particular
the flat list of encodings that each node slices for its children by counts of its own
(`Start`, `End`). Actions: a spec is stated, generated with default encodings, or
returned by the optimizer (`StateColumn`, `GenerateColumn`, `OptimizeColumn`), a
writer takes or refuses the schema (`NewWriter`), a reader parses it from the file
(`OpenReader`, with the nesting that the JSON parser allows), `Project` writes a
part of it into a new file.

## 3. What TLC checks

### Runs that pass

| run | bounds | shows |
|---|---|---|
| `catalog` | 2 processes, 1 schema, 3 inodes, 2 writes; the settings exclusive with {kill}, {kill, io}, {kill, io, stat}, {kill, io, power}, and racing without faults; with fairness | `FinalComplete`, `ReadersNeverTorn`, `FilesResolvable`, and, while the exists check works, `FinalNeverReplaced` under exclusion; `RaceHeals`, `RaceRegisters` in races; `AddRegisters`: with kills only, a registration ends with the schema registered unless it is killed |
| `writer` | 2 columns with 1 and 2 leaves, 3 values of two lengths and two encoded sizes, one that a column refuses, 2 stripes, 1 failed call | `LeavesIntact`, `TruncationDetected`, `SliceFaithful`, and the refinement `TableSpec` |
| `prune` | 5 values, 5 rows, sets of up to 2 values, Bloom filters of 30 bits and, capped, 32, with 4 to 7 hashes of which some collide; binary or not, with and without nulls, statistics and filters | `NoFalseNegatives`, `PruneSound`, `RangeSound` |
| `sql` | files of up to 2 stripes of up to 2 rows over 3 values and null; single filters, ranges, limits 1 and 3, COUNT(*) | `QueryComplete`, `LimitEnough`, `StatisticsExact` |
| `columns` | 17 types nested up to three deep; callers with columns of up to 2 rows whose numbers tell their place, and offsets, tags, indices, presence and children in any combination; up to 3 documents out of 3 to 6 per type, chunks of 1, 2 and all rows; Arrow arrays of up to 3 slots as builders make them (offsets from 0, the ranks of a union in order), their windows, and pairs of batches; 12 Avro types with up to 3 data each, longs beyond an `int` among them; `u32` of 6 values, halves of a decimal of 2 bits | `StripesReadable`, `ColumnReadsAll`, `WindowsFaithful`; `ImportFaithful`, `ImportFailsForCause`; `TableFaithful`, `TableFailsForCause`, `BatchesFaithful`; `PromotionsWritable`; `AvroFaithful` |
| `encode` | types of 2 to 4 bits, bytes of 3; 13 kinds of leaves, up to 4 values with the extremes of each type, runs of up to 6; chains of up to 5 coders, 4 fit the header | `RoundTrip`, `TruncationDetected`, `RejectedForCause` |
| `schema` | a depth cap of 3, JSON nesting of 13, 2 variants, types up to 4 deep (`MaxHeight` 5, with the leaf), 2 columns, 2 names for them | `PipelinesFitFields`, `WrittenOpens`, `RefusedForCause` |
| `duck` | 29 files: 7 shapes of up to 3 stripes of up to 3 rows, empty ones among them, with 5 null patterns; chunks of 2 rows; 4 projections; any replacement of the file | `RowsFaithful`, `EmptyChunkIsEnd`, `ScanEnds` |

Why the bounds are enough: different schemas share no name, so one schema has
every interference; a third process could only repeat what a second does to the
first, and three inodes let a renamed, an unlinked and a new file coexist, which
is as many as `add_schema` can have open and named. A body with two multi-leaf stripes has every kind of offset (first,
after a leaf, after a column, after a stripe, after torn bytes), and one failure
is the one that stands between any two of them. Filters of two values and
Bloom filters of up to 32 bits cross both thresholds (set to list, cap of the size)
within five rows; other sizes, numbers of hashes and hash functions are those of
`FilterNeverDenies`. The texts of the five blobs have another order than the blobs, but
some of the blobs keep theirs, so `RangeSound` speaks of binary columns too. A stripe of
three rows and chunks of two need two windows, so the offset into compacted values is used. `Symmetry` permutes processes and
inodes in `catalog_race_kill` only, where no property or action tells them apart.

Two stripes of two rows need every offset that concatenation rebases, and three
nesting levels put each kind above and below another; with a `u32` of 6 values
strings, lists of a chunk and lists over all stripes exceed it. A type of three bits
whose count cell has three bits has a run that it cannot count; types four deep
under a cap of three are refused at every kind of node, and JSON of 13 levels
separates what validation accepts from what the parser reads.

`CHECK_DEADLOCK FALSE` is set for the writer, pruning, SQL, columns, encode, schema
and DuckDB runs: a finished file, a written footer, an executed query, a decoded
leaf, a refused schema and an ended scan are ends.
The catalog's calls never block it, so its runs check deadlock.

Fairness: `catalog` assumes that a process that is in a call and alive is
scheduled (`WF` of each process's steps), which any operating system grants;
nobody is obliged to start a call, and kills are not fair. `duck` assumes that
DuckDB pulls chunks until the query ends, one weakly fair action for all of
bind, init and func: the executor has nothing else to do. Neither replacing the
file nor a failing read is fair.

### Runs that find a violation

Each checks one statement that documentation or comments make, and that the
code does not keep. The statements are quoted in `PROJECT.json`, "findings".

| run | what TLC finds |
|---|---|
| `catalog_race_kill` | two processes register one schema and one is killed: an incomplete `<hash>.json` can stay for good and is trusted by every later `add_schema` (`SettledComplete`) |
| `prune_notin` | with filters, `<>` and `NOT IN` skip stripes that hold matching rows: `contained` returns "may contain a literal" where DataFusion expects "contains only literals" |
| `prune_truncated` | the maximum of strings longer than 256 bytes is cut downwards, so stripes with larger strings are skipped; the same value is passed on as an Exact maximum |
| `duck_list` | from the second chunk of a stripe on, list entries point at child slots that were not written |

### Observed while modelling, without a run of their own

*Catalog, writer, reader.* When the exists check of `add_schema` fails (`Path::exists` is
false then, `StatFails`), a registered file is replaced by another with its content,
though `mod.rs:106` trusts the existing one. Of two racing `add_schema` calls one may return an I/O
error although `add_schema` is called idempotent (the model has this behaviour;
`RaceRegisters` says what still holds). Columns written out of schema order are
accepted, against `core/file.rs:221` ("raises an error at `finish_stripe` time").
Offsets concatenated over stripes wrap silently beyond `u32` in release builds
(`ColumnReadsAll` is stated below that).

*Pruning.* The range check of the DuckDB extension compares the bounds of a binary column as
base64 texts (`prune.rs:90`), which `footer_stats.rs:932` chose in byte order and
`:866` encoded, and the alphabet of base64 is not in byte order. A stripe with the blobs
`00` and `FF` has the bounds `AA==` and `/w==`, between which no text lies: `= 00` is
answered with false, against `prune.rs:41` ("`false` only when it can be safely skipped"),
and the row is lost. `RangeSound` is therefore stated with `ordered`; without it TLC
finds a stripe of one blob that `< F8` skips. DataFusion is not affected
(`min_max_to_scalar` hides these bounds), nor is `read_he`, which does not call the check yet
(`prune.rs:6`). Infinities are left out of the statistics and filters
(`footer_stats.rs:819`), so a query they satisfy skips their stripe: with values
outside `Finite`, `PruneSound` fails. A longer file put at the path between
DuckDB's bind and init is cut off at the old number of stripes (`EmptyChunkIsEnd`
is stated with that number).

*Columns.* `decompose` does not compare the row counts of a struct's fields, which
`core/schema.rs:1223` wants to be the same; a struct with one row in its first
field and two strings in its second is written and cannot be read, so `columns`
hands over no such struct. A document that is not an object is imported into a
struct as if all fields were null, where lists and maps refuse it. A boolean goes to any
primitive variant of a union and never to a string's, though the comment at
`cli/loader.rs:1062` says "Primitive(U8) variant, else Utf8". An exported
union names its variant, and the import of that document does not find it. The
JSON export writes decimals with scale 0, whatever the scale of the column. A
failing import or table leaves an output that is cut off and does not open.

*Arrow.* Nulls in list items, variants and dictionaries become values, since
`schema_from_arrow` does not look for them there (`arrow/schema.rs:221`).
`write_table` with `stripe_rows` fails on lists, maps and unions, whose slices do
not start at offset 0, and with `optimize=True` on a column promoted to a
dictionary. A map whose values are not nullable and a nullable union with nulls
have no record batch. `reshape_to_schema_type` stops at a dictionary.

*Avro.* An Avro file without data cannot be imported: the comment at
`cli/convert.rs:279` says that empty columns are written for inputs of no rows, but
the Avro loader emits no chunk, no column is written, and `finish` fails. In a union
of null and several types the branch is found again by shape: in
`["null","int","long"]` a long goes to the int's variant and is cut to its width,
in `["null", A, B]` of two records a B becomes an A without its own fields or
fails, an enum next to a string goes to the string's variant, and an enum next to
a number or a date fails (the table at `avro.rs:33` maps all of them). A union of one
type is parsed as that type (`avro.rs:31`) but its data fail, like those of
time-millis, time-micros and uuid, which the table at `avro.rs:43` maps. A dictionary
column cannot be exported once it has a row, though the table before
`write_avro_data` lists it; a nullable union is exported as a union in a union,
which Avro refuses; `U8` becomes a boolean and `U64` may wrap; datetimes in seconds or
nanoseconds and dates in milliseconds come back as numbers.

*Coders, codec, optimizer.* `coders/rle.rs:5` says that a run too long for the type
is rejected; it is split. `bitpack.rs:3` says that deltamin's values are
non-negative; they wrap for signed types. `top_level.rs:154` says that a pipeline is
rebuilt from the header for all built-in coders; parameters are dropped, so
`bitpack_fixed` is not. The default pipelines of the codec and of schemas differ
(`default.rs:23`). A pipeline picked from a sample may refuse later values
(deltamin with bitpack on signed types, elias_fano on offsets that start again).

*Schemas.* A writer does not look at the version of its schema and accepts nesting
beyond what the JSON parser reads, so the file never opens. A dictionary that the
optimizer adds at the depth cap makes a schema that the writer refuses, though the
optimizer calls it ready for use. The table at `schema/encodings.rs:13` gives `Bytes` zstd,
but `prim_coders` gives a primitive of bytes pcodec (`encodings.rs:109`), which
`pcodec.rs:21` refuses for bytes: a writer takes `Primitive{Bytes}` only with a pipeline that the
caller states. Empty structs and any precision and scale are accepted; resolving a column of
an unvalidated schema can panic.

## 4. What is proved

All theorems hold for every value of the constants under the named
assumptions of the modules.

**CatalogProofs.** `CatalogType`; `CatalogFinalComplete`,
`CatalogReadersNeverTorn`, `CatalogFinalNeverReplaced`,
`CatalogFilesResolvable` under exclusion; `CatalogRaceHeals`,
`CatalogRaceRegisters` for races without faults.
*Exclusive invariant* `ExInv`: `FinalComplete` alone is not inductive, since a
rename publishes whatever the tmp name leads to. Added are: at most one process
registers a schema (`OneAdder`), no inode has two names (`OneName`), published
files are complete *and synced* (`FinalDurable`, which is what survives
`PowerLoss`), a writer's descriptor is the tmp file, holds the chunks before its
offset, all of them at the sync, and on stable storage at the rename
(`AddProgress`), and a reader's descriptor is a whole file that nobody writes any more
(`ReaderOnWhole`). `FilesResolvable` adds that a process about to write a header
has its schema registered. As long as the exists check works (`StatWorks`) a process past
it knows that its schema is not registered, which is what `FinalNeverReplaced` rests on;
when it does not, a whole file is replaced by a whole file of the same content.
*Race invariant* `RaceInv`: every inode that has a name, tmp or final, is either
complete or being filled by an open descriptor; a tmp name has a process that is
going to rename it or fail; and every finished attempt left the schema registered
or somebody registering it.

**HeliumWriterProofs.** `WriterType`, `WriterLeavesIntact`,
`WriterTruncationDetected` and the refinement `WriterImplementsTable`
(`Spec => TableSpec`). The inductive invariant `WriterInv` has four parts. `TInv`:
types and the length of the preamble. `LeavesIntact`: all writes append
(`AppendKeepsLeaves`), and a new location names exactly the suffix just written
(`NewLeafOK`). `TailOK`: a footer length lies in the last three cells of the sink,
and a sink that `finish` has not written to has none; so no proper prefix can have
one where `Opens` looks (`TrailerTail`). `ContentInv`: what is recorded for a column
are the leaves of one value with the stripe's row count (`HasRecord`), and the column
in progress is not recorded yet. A leaf tells its value (`EncodeTells`), so the table
read back from bytes is the one the index records (`PieceIs`, `StripeIs`,
`OpenTable`), and each step of the writer is compared with a step of the table on the
index alone (`StepIsTableStep`). `finish` that fails after its last cell still seals
the table: `TrailerSeals` covers both. `NoneAssumption` says that Rust's None is no
value, no list of locations and no file.

`WriterSliceFaithful` is about `project_to`. What `finish` seals stays readable
(`SealedInv`); then, for any readable file: the copy plan has an item for each leaf of
each chosen column and no other (`PlanIs`), the offset of the n-th copy is the length
of the copies before it (`CopiedBeforeIs`, `PiecesAre`), so each relocated leaf is
found with its checksum (`PieceReads`, `SliceLeafOK`), and records the value of its
source (`NewLocsRecord`).

**StripePruningProofs.** `PruningType`; `FilterNeverDenies` for every hash
function, size, cap and threshold; `PruningLosesNothing` and
`RangeCheckLosesNothing` under `Exact`: every value has its own form in the
footer, and there is no `NOT IN` with filters. For a binary column the range check
needs one thing more, `SameOrder`: the base64 texts of the stripe's blobs and of the
literal are ordered as the blobs. The two violation runs on
pruning each drop one part of `Exact`. The invariant says that the pass covers
what was seen: every finite value lies between minimum and maximum and is among
the filter's keys, the counters count nulls and rows, and the footer is the
footer of the pass. The lemmas about pass and footer alone come first in the module;
`SqlScanProofs` takes them from there (`Stripe == INSTANCE StripePruningProofs`).

**SqlScanProofs.** `QueriesComplete`: no row of a query is lost, for any filters,
partitions in any order, when values keep their form in the footer (`ExactForms`)
and nothing asks `<>` or `NOT IN` of files with filters (`SoundQueries`); `prune_truncated`
and `prune_notin` show that both are needed. `LimitsEnough`, without conditions: a
limit that is passed to every partition leaves enough rows. `StatisticsAreExact`:
row counts, null counts, minimum and maximum that are called Exact are those of the
table, under `ExactForms`. The invariant `TableInv` says that the provider has
the footers of the file's stripes, that the plan was made from them, and that an
executed partition holds the batch of its stripe under that plan.

**DuckScanProofs.** `DuckTypes`, `EndIsEnd` (an empty chunk means the end, whatever
empty stripes are in between) and `RowsAreFaithful` (each row once, in order, nulls and
list entries included) for any file, chunk size and projection, under `ListsFit`: a
stripe with a list column is no longer than a chunk. `duck_list` shows that without
`ListsFit` list entries point at slots that were not written.

**EncodingProofs.** `EncodingRoundTrips`: what a pipeline accepts it gives back, for
chains of any length and order, any widths and any values. The assumptions are
`CodersAssumption` (a type is no wider than a word, `Fail` is no sequence) and
`EncodingAssumption`: the values of a leaf are numbers of its type, fewer than a word
counts; the types are those with names, of which `CodecDefault` and the optimizer speak;
`elias_fano` takes `u32`; offsets, indices, bitmaps and tags are integers and only data
are bytes (`core/schema.rs:344`); `Fail` is no buffer. The proof has four levels.
*Coders*: for each of them, decoding inverts encoding on numbers of its type
(`DeltaRoundTrip`, `DeltaMinRoundTrip`, `RunsRoundTrip`, `LebRoundTrip`,
`PackFixedRoundTrip`, `PackAutoRoundTrip`, `EliasFanoRoundTrip`, `GorillaRoundTrip`).
Wrapping sums undo wrapping differences because only remainders matter
(`DifferenceUndone`); `rle` keeps counts from 1 to the largest of the type
(`AddToRunsAdds`), without which the count would wrap. The bit coders rest on `BytesRestore` and
`LowBytesRestore`: what is read back from bytes starts with the bits written, and
ends in a filled last byte, so the decoders need their count. For gorilla the
reader's window is the writer's after each value, and covers every bit of the XOR it
is used for (`ReuseCovers`, `EntryRead`, `ReaderSteps`).
*Stages*: `StageRoundTrip`, which adds that what a stage gives is of its output type.
*Pipelines*: if the last stage did not fail none did (`EachUndone`), and decoding undoes
them from the last to the first (`PipelineRoundTrip`).
*Containers*: HEC0 names the coders and drops their parameters; that is enough
because of the coders that can be built only `bitpack_fixed` has a parameter, and no
pipeline rebuilt without it is accepted (`BareIsSame`, `SameDecoders`), and because the
number of values is found in front of the data (`CountIsRead`).
The inductive invariant `RoundTripInv` says that a built pipeline fits the type of the leaf, and
that what is stored, as long as nothing cuts it off, is the encoding of the column.

`EncodingTruncationDetected`, from the same assumptions: a HEC0 buffer that is cut off
anywhere is refused. The reason is neither the same in all coders nor local to one: a
decoder of data without their end (`CutShort`) either fails or reads values without their
end (`CutRead`). `delta`, `deltamin`, `rle` and `leb128` may do the latter, at the boundary
of a value (`SumsCutShort`, `MinCutShort`, `RunsCutShort`, `LebCutShort`); compressors,
bit coders, `elias_fano` and `gorilla` count what they hold and fail (`FrameCutShort`,
`PackFixedCutShort`, `PackAutoCutShort`, `EliasFanoCutShort`, `GorillaCutShort`). For the bit
coders this is a matter of the last byte: with a byte less there are fewer bits than were
written (`TooFewBits`); gorilla reads the same entries up to the one that meets the end of the
bits, and none after it (`ReadLess`, `GorillaEnds`). Therefore every stage
(`StageCutShort`) and every pipeline (`PipelineCutShort`) gives nothing or strictly fewer
values, and the number of values in front of the data is cut off itself
(`CountCutShort`) or is not theirs (`CompressCutShort`). `TruncationInv` adds to
`RoundTripInv` that only a HEC0 buffer is cut off, after it was stored, and that what is
left of it has no header, or all of it and a strict prefix of the rest.

`EncodingRejectedForCause`, again from these assumptions, goes the other way: what fails, fails for
a reason. A stage rejects values of its type only if it is one of the three `Risky`
coders (`StageFails`), and a pipeline only if one of its stages does (`PipelineFails`).
If that coder is the first one it gets the values themselves, and its
reason is found in them: behind another coder of bits there are only bytes
(`RiskyIsFirst`). A container adds only what `StoredFails` lists. On the other side are the
pipelines that the program chooses. The defaults and the typed codecs are accepted for
every leaf (`DefaultsAccepted`; bytes are the data of a string or blob, for a primitive of
bytes see `Schemas`), what the optimizer picks ends in bytes
(`CandidatesClosed`, `FittingAccepted`), and among its candidates there is always one
without a risky coder, so it finds one for every sample (`FittingFound`). `CauseInv` says
that a pipeline that is not stated can be built and ends in bytes, and that one that
was built ends in bytes if it is for a file.

**SchemaProofs.** `PipelinesFitFieldsHolds`, `WrittenOpensHolds` and `RefusedForCauseHolds`,
for types of any height and number of children, schemas of any length, any specs that
callers state, and any shapes and samples that the optimizer and adapters get. The
assumptions are `SchemasAssumption` (numbers have the types that the fields use; `Fail`
and `Panic` are no pipelines; specs are columns; adapters' names are not empty) and
`ShapesAssumption`: what adapters and the optimizer are given has no node that
validation refuses by its kind or names. Inputs with an empty or repeated name, a union
without variants or a map whose key is not a primitive or a string are therefore left
out of the last sentence of `RefusedForCause`, not of what callers state. Nor do the
shapes that adapters find hold a primitive of bytes: all of them map byte strings to
Binary or Utf8 (`schema/avro.rs`, `json.rs`, `parquet.rs`, `csv.rs`, `arrow/schema.rs`),
and the default of such a leaf, pcodec, does not take bytes. A caller may state one, and `schema` does.
The inductive invariant is `TypeOK`, `Histories` and `Origins`. None of the three
properties is inductive, for they compare what two steps did: `Histories` says what each phase
knows of the schema. A schema that was written, opened or could not be read was
`Accepted` (valid, resolved without failing, ending in bytes) and the pipelines of the
writer, the reader and the projection are those it resolves to; a refused one was not accepted;
only what was never projected is refused or unreadable, because a part of an accepted
schema is accepted (`PartOpens`). `Origins` says that what the program made itself is
clean until it is written.
The argument has five parts. *Recursion*: a function over `Types` has a value that its
equation gives, since a type's children are one level lower (`TypesUpTo`,
`TypeInduction`); `PhysicalFieldsIs`, `EncodingsLenIs`, `ValidTypeIs`, `NodesIs`,
`OptimizedIs` and their like are those equations. *Slices*: the number of encodings
that validation expects is the number of the fields (`OwnFieldsLen`), and if a spec has that
number, so does the slice of every child: the last child of a list, map or nullable, which gets
all that is left, included. So no slice leaves its range, and what a
node builds fits its fields one by one (`AcceptedFits`). *Acceptance*: a valid type
builds pipelines that end in bytes exactly if its encodings serve its own fields and
those of every struct below it serve theirs (`BuildsServed`), and validation refuses
exactly the nodes that are unfit or too deep (`ValidNodeIs`, `ValidNodes`). Together,
`AcceptedIs` describes what a writer accepts without following its recursion, and
`FaultIs` says that this is the absence of the faults that `RefusedForCause` lists.
*Own schemas*: default encodings serve the fields of every type without a primitive of
bytes (`SchemaDefaultServes`, `DefaultsFit`, `FoundNodes`),
generated types have clean nodes (`GeneratedClean`), and so has everything that the
optimizer may return (`OptimizedClean`): a key keeps its kind, for it is not promoted
(`NotPromoted`), and a dictionary or a struct has what its children chose.
*Behaviours*: one lemma per action (`NewWriterTyped`, `OpenReaderTyped`,
`ProjectTyped`, `ColumnAdded`, ...).

**SequenceLemmas.** Folds are defined through `CHOOSE` of a function on sets
(`MapThenFoldSet`); the lemmas describe them by the function they step through
(`IterationExists`, `FlattenIs`), from which follow the length and the elements of a
concatenation, counting, and bounds. Induction is over sets of naturals
(`SetInduction`, from the well-foundedness of the naturals): the library's induction
theorems take an operator as a parameter, which the provers cannot instantiate.

**Only model-checked.** Liveness (`AddRegisters`, `ScanEnds`), which the provers
cannot establish from fairness; `ENABLED` is not used. `LogicalColumn`,
`ArrowBridge`, `AvroBridge` and `Convert` walk trees with recursive operators, which
the provers do not support: what `Convert` states is checked over bounded inputs.
`Schemas` shows the way out: recursive functions on a set of trees that is built level
by level, and an induction over those levels.

## 5. Abstractions and limits

- CRC32C is its content: collisions are left out. In `HeliumWriter` an encoded leaf
  determines its value (what coders do is in `Encoding`) and leaves are opaque, so a
  Binary value that is itself a `.he` file is not among the values; cutting the outer
  file behind such a leaf is listed as a hazard without a property.
- `Encoding` and `Schemas` take any choice the measured sizes might make; sizes and
  the cardinality probe are not modelled. The limits of `i32` on the offsets of Arrow
  strings are left out, as are the tables of flat Arrow types.
- Avro: "bytes" is also fixed, "date" every logical type with a counterpart, "time"
  every one without; boolean and float are left out. Named references and their
  recursion check, and two records that the export gives the same name
  (`<field>_struct`), are not modelled; whether the library takes the bytes of a
  decimal is left open, so `AvroFaithful` lets their export fail.
- A schema is its canonical hash; canonicalization is not modelled.
- `PowerLoss` undoes a rename or drops a schema's entries; other file system
  behaviour (reordered metadata of different names) is not distinguished.
  After it, what is left counts as stable.
- The SQL table has one column, and the file is not replaced after `try_new`.
- `DuckScan` has no nullable date, datetime or decimal column: `read_he` refuses their
  chunks with an error (`duckdb/src/writer.rs:330`), so their queries end without rows.
- JSON numbers are of one digit, a boolean as text is shortened to its first letter;
  texts that a primitive parses are those of one digit.
- Values are ranks, so two representations of one value (`-0.0` and `0.0`) do
  not occur.
- Bounds: `MaxStripes`, `MaxFailures` (writer), `MaxRows` (pruning),
  `MaxStripes` (SQL files and `Convert`), the shapes of `MCDuckScan`.
- Not modelled: canonical schema JSON (formatting), CSV and Parquet parsing and schema
  inference (text and library formats, one value at a time), the commands other than
  `convert`, the numpy conversions and wrappers of the Python module, the formatting
  of statistics; see "components" in `PROJECT.json`.

## 6. Plan

In order of importance; what is done is marked.

1. Catalog, HeliumWriter/HeliumReader/StripeTable, statistics and pruning, SQL
   scan, DuckDB scan, with type invariants, safety, liveness and refinement (done);
   proofs of the catalog's promises, of `LeavesIntact` and of pruning (done).
2. Columns: `LogicalColumn`, `Convert`, `ArrowBridge`, `AvroBridge` (done); the
   columns that the CSV and Parquet loaders build and per-leaf statistics of nested
   columns are left.
3. `Coders`, `Pipelines`, `Encoding`: coders, registry, codec and the optimizer's
   choices (done).
4. `Schemas`: validation, nested encodings, the way through a file (done).
5. The files of an import over `HeliumWriter` and `Catalog`, errors midway and
   restarts: output is complete or does not open.
6. Proofs of the writer's refinement, of truncation and of slices, of the SQL scan and
   of the DuckDB scan; of the coders, one by one, and from them `RoundTrip` for
   pipelines of any length, `TruncationDetected` and `RejectedForCause`; of `Schemas`
   (done). What `Convert` states is left: it needs the columns as functions on types.

To make room, runs that show a smaller disagreement may give way to runs of the
new modules; their finding then stays described in section 3.
