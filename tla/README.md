# Verification of microneedle

TLA+ specifications of microneedle (a 26M-parameter encoder-decoder that turns a
request into a tool call on an ESP32-P4), the TLC runs that check them on small
instances, and TLAPS proofs of the properties that matter most. Paths below are
relative to the repository root; `engine.c` is `engine/needle_engine.c`.

- `SplitHandshake`, `PieGuard`, `BoardServer`, `WarmSchema`, `Decode`: the firmware and the
  engine as coded; `NpkImage`, `PieKernels`, `AttnBounds`, `EncAttention`, `DecodeMirrors`: the
  image they load and the integer kernels; `BpeMerge`, `Prompt`: the host's side.
- `QueryAttention` composes `EncAttention` and `DecodeMirrors`.
- `ParallelFor`, `Autoregressive`, `GreedyMerge`: what three of those components promise.
- `SplitHandshakeProofs`, `BoardServerProofs`, `DecodeProofs`, `WarmSchemaProofs`,
  `NpkImageProofs`, `QueryAttentionProofs`, `KernelProofs` (of `PieKernels`, `PieGuard` and
  `AttnBounds`), `PromptProofs` (of `BpeMerge` and `Prompt`): theorems and proofs.
- `MC*.tla`, `MC*.cfg`: instances for TLC.
- `PROJECT.json`: components, runs, source lines of every definition, hazards,
  the faulty variants each property has been seen to reject, theorems.

## 1. The system

### Parts, their state and operations

**Dual-core row split** (`firmware/main/fw_main.c:48-123`). State: eight raw
volatile words (`w_job w_kind w_r0 w_r1 w_fn w_arg`, `w_go`, and core 1's `w_done`
and `w_ready`). Core 0 writes a job description, raises `w_go`, computes the
lower half of the rows, waits for `w_done`, lowers `w_go` and waits for `w_done` to
fall. Core 1 does nothing else for the life of the board; its scheduler is
suspended. No lock, no timeout: what keeps it right is the order of the stores,
three fences a side, and one caller at a time.
*Correct when*: every row of the range is computed for this job before the call
returns; the halves are disjoint; core 1 never works on an old or torn description;
every call comes back.

**Boot, self-tests, inference lock** (`fw_main.c:25-32, 125-479`, `net.c:63-80`).
Boot order: kernel tests, determinism test, arming of core 1, smoke query, alignment test, network.
Each check appends a line and may set `g_selftest_failed`. `g_busy` guards the one
model; it is tried, never waited for. *Correct when*: an answer is computed from its
own ids alone; nothing is served before all checks passed; the lock is released on
every path.

**Scheduler guard** (`fw_main.c:53-61, 225-259`, `needle_engine.h:172-188`). State: how deep
each core's scheduler is suspended. The port saves the vector unit lazily and not all of
it, so core 0 suspends its scheduler around each burst of kernels, the determinism test
around each probe, and core 1's worker once. *Correct when*: no row of an inference is
interrupted on either core, and the network gets the processor between bursts.

**HTTP front end** (`net.c:113-265`). One httpd task runs `h_tokens` and `h_status`
to completion, one request after another; it reads `out` and `g_infer_path` after it
released the lock. **Serial console** (`fw_main.c:448-478`): one line, one
query. *Correct when*: refusals are true, every request is answered, what a reply
says of a query is that query's.

**Warm-schema cache** (`fw_main.c:262-303`, `engine.c:770-899, 1884-2018`). State: the slot
`g_warm`, the hooks' globals `ws_cap` and `ws_cap_nq`, the residual and the K/V
arena. A prompt whose schema is long enough is encoded with capture hooks armed; a later
prompt with the same schema computes only its query rows in the first four
layers and takes the schema's from the slot. *Correct when*: the mixed rows belong to
the right layer and token, a capture is complete and never written again, no
object leaks, the approximation does not compound.

**Encoder and decoder** (`engine.c:1021-1097, 1453-1629, 1657-2213`). State: the
context (`enc_x`, cross K/V and its packed integer mirror, the growing self cache and its
mirror, `dec_len`). `ne_step_f` appends one row and attends to rows
`0..dec_len`; **grammar forcing** (`ne_forced_next`) skips the logits at three rigid
JSON positions. *Correct when*: each token is computed from the prompt and exactly the
tokens before it; forcing stays at its positions.

**Quantized kernels** (`engine.c:202-289, 1237-1386`, `pie_rows.S`, `pie_attn.S`).
State: the arena's packed keys and values, a set of scratch per core, the cross and
self mirrors with their strides. *Correct when*: a kernel computes the dot product it
is called for and loads no further than the slack, accumulators do not overflow, what
is read back is what was packed for this prompt, whatever lengths came before.

**Weight image loader** (`engine.c:83-121, 902-1019`, `fw_main.c:400-430`, packer
`tools/pack_npk.py`). *Correct when*: sizes do not wrap, every record
lies in the blob, a failed allocation is reported.

**Tokenizer** (`tokenizer/bpe.py`, `web/bpe.js`), **prompt builder**, **tool
retrieval** (`web/tool_retrieval.js`, `tools/tool_retrieval.py`). Pure functions, most in two
implementations. *Correct when*: the heap-driven merge equals the definition of BPE, the twins
agree, truncation keeps what it says it keeps.

**Browser client and page** (`web/needle.js`, `web/index.html`). State: registered
tools, the run in progress, the page. *Correct when*: an answer is shown for the
request it belongs to, and a tool runs only if it is still registered.

**Scripts** (`tools/`, `train/`, `demos/`, `bench/`): offline programs. Those with a
protocol or a failure story are the board fixture runner, the weights
download and the fine-tuning driver.

### How they interact

    console task ──┐  g_busy   ┌─ ne_encode / ne_encode_warm ─ ne_step_f
                   ├─────────> │        (one context, one arena)
    httpd task ────┘           └─ row loops ── split_run ──> core1_worker
        ^                              hooks ne_split_*        (volatiles)
        │ POST /api/tokens
    page, needle.js ── bpe.js, tool_retrieval.js

The composition is by contract. `SplitHandshake` takes the lock of `net.c` into the model
because its correctness rests on one caller; what it promises in return
(`ParallelFor`) is what the other modules use when a kernel is one step of
theirs. `BoardServer` shows that queries do not interleave inside the
engine, and `WarmSchema` and `Decode` therefore run one query at a time.

### What is hard here

Two cores talking through plain words with store buffers between them; state read
after the lock that protected it; caches that are never cleared and whose
validity is a matter of which code path ran last; globals that redirect a later call;
boot checks recorded by independent calls; requests that queue where nobody meant
them to. The list with lines is under `hazards` in `PROJECT.json`.

## 2. Plan

Modelled first, because everything else rests on it: the handshake (1), then the lock
and the front ends (2), then the two components whose state outlives a query (3, 4), then
what the guard and the kernels promise them (5-8), last the two ends of the chain (9, 10).

| # | module | subject | state |
|---|--------|---------|-------|
| 1 | `ParallelFor`, `SplitHandshake` | dual-core row split | checked, proved |
| 2 | `BoardServer` | boot checks, lock, HTTP, console | checked, safety proved |
| 3 | `WarmSchema` | warm-schema cache and encoder | checked, proved |
| 4 | `Autoregressive`, `Decode` | decode loop, caches, forcing | checked, proved |
| 5 | `PieGuard` | scheduler guard, task switches, boot tests | checked, safety proved |
| 6 | `PieKernels` | the vector kernels, vector by vector | checked, proved |
| 7 | `AttnBounds` | integer bounds of an attention row | checked, proved |
| 8 | `EncAttention`, `DecodeMirrors`, `QueryAttention` | packed keys and values, scratch, mirrors | checked, proved |
| 9 | `NpkImage` | packer, header arithmetic mod 2^32 and 2^64, records, allocation failures | checked, proved |
| 10 | `GreedyMerge`, `BpeMerge`, `Prompt` | heap-driven merge, prompt, both parsers | checked, proved |
| 11 | `WebPage` | late answers, fields read after the answer, tool registry | open |
| 12 | `WeightsFetch`, `FixtureRunner` | partial downloads; serial request and answer | open |

Every invariant, action property and refinement the runs check is proved as well; what is
left for proof is named at the end of section 5.

## 3. The modules and the code

### SplitHandshake

Every word of the handshake has one writer. A store enters its core's buffer (`pend`,
`yPend`), drains to memory in any order (`Drain`, `DrainRow`), and a fence waits for the
buffer to be empty. A core sees its own pending stores, of the other core's only
memory. Loads are not reordered: each is in a spin loop or follows a fence.
A row kernel is abstracted to *row r written for job j*; run with a mismatching
kind or operand it yields `NoJob`.

| code | action |
|------|--------|
| wait for `w_ready`, hooks installed | `Arm` |
| `net_infer_try_lock` / `unlock` | `Acquire`, `Release` |
| hook call; descriptor stores | `Call` (`Splits`, `StoreDesc`) |
| fence; `w_go = 1` | `Go` |
| own half, or the whole of a short loop | `OwnRow`, `ReturnAlone` |
| `while (!w_done)`; fence; `w_go = 0` | `SeeDone` |
| `while (w_done)`; fence; return | `Return` |
| `core1_worker`, top to bottom | `WorkerReady`, `WorkerTake`, `FarRow`, `WorkerDone`, `WorkerLeave` |

`w_fn` and `w_arg` are one word. `w_job` and `w_arg` hold the job itself, so a
stale pointer shows as another job. The code has two thresholds (16 indices, 256
rows) and always splits attention; the model has one, `MinSplit`.

### BoardServer

An inference is three actions (`Encode`, `CrossKV`, `DecodeStep`), the places where two
callers would mix what they read from the context. A token is abstracted to the prompt the
cross K/V came from at that step, an answer to the set of them. `checks` and
`failed` follow `selftest_record`. `mutex` is chosen at `Init`: the constructor may fail.
httpd is one task: `Answer`, `Refuse`, `Serve` and `RecvFails` need it
idle; `HttpUnlock` and `HttpReply` are two steps because the code reads `out` and
`g_infer_path` after the unlock. `EncodeFails` is `ne_encode` or `infer` returning an error, with the
unlock each caller does on that path, `HttpFailed` the 500 that follows. Both parsers check lengths
and ids, and the ids used at boot are constants, so no execution of the code takes them; the model
does not rely on it. `Finish` is the end of a query for its task. `took`, `midway` and `printed` are history variables.

The id lists come from `Prompt`, and which of the three paths an HTTP query takes from
`WarmSchema`; here any of them may be taken.

### WarmSchema

A residual row is the token it started from, how many layers it has been through and
which prompts influenced it; a K/V row has its rotation as well. One layer is two
actions: `Project` (projection, norm and rotation, then `ws_load_kv` or
`ws_save_kv`) and `Attend` (attention, residual, then `ws_save_x_splice` or the splice of
`ws_load_x`). Both encoders use these actions: `Partial` says which rows are computed. `x` and `k` keep
what earlier encodes left in them, as the arena does. `infer`'s three ways in are
`WarmEncode`, `CaptureEncode` and `ExactEncode`; the last is possible whenever the
first is not, since any of the capture's allocations may fail. `Finish` is the rest
of `infer` and `ne_schema_capture`: hooks disarmed, old object freed, slot replaced.

That a warm row was rotated for, and influenced by, the query it was captured with
is the approximation the project documents (`docs/notebook/OPTIMIZATIONS.md`); the
properties say what it is limited to.

### Decode

A row of a cache is the prompt and the token it was computed from. The argmax
may return any token but `<pad>`; TLC explores all of them. `Step` is
one turn of the loop: `Layers` (append, mirror, attend), then `Take`. `scalar` is
`ne_force_scalar`: the float cache is read and the mirror not written. Forcing is
off in `ne_generate_warm` and in the determinism test, so `force` is a choice
per answer. `Query` takes any
`max_gen` from nothing to more than the cache has (`Asked`) through `Clamp`.

### PieGuard

Each core has the engine's task and one of higher priority, which stands for the network
on core 0 and the idle and timer tasks on core 1. `Wake` switches to it unless the
scheduler is suspended (`depth`), and then when it is resumed (`Resume`, the pending
yield of `xTaskResumeAll`). A switch may lose any of the registers the port does not save
(`Unsaved`); `Live` lists what each kernel keeps in registers from one instruction to the
next. `Call` and `Return` are `ne_critical_enter` and `ne_critical_exit` around a burst,
`Probe` and `ProbeDone` the suspension of the determinism test around both of its nested
users, `WorkerReady` core 1's. The handshake is taken as `ParallelFor` promises it. The boot
tests call kernels without a guard, as the code does; `RowsIntact` exempts them.

### PieKernels

The state is a kernel's registers at the granularity of one vector load with its
multiply-accumulate: how far each pointer is, the register filled ahead (`q0`), the
accumulator. `row` kernels drain per group, `rowsum` kernels keep on, `dots` walks rows with a
reset pointer, `gemm` reads rows unpacked to a buffer (`Unpacked`), `row_i4` and `rowsum_i4` unpack
in registers (`Low`, `High`, with the bits a lane shift takes from its neighbour). The activation
is a basis vector with an arbitrary vector behind it; dot products are bilinear, so this covers
all activations, while the weights vary one at a time, because unpacking is not linear. The
theorem `KernelsExact` needs no such argument: it is about a call with any operands.

### AttnBounds

One row: `ScoreLane` is one multiply-accumulate of the score pass, `Softmax` fixes the
sum of the exponentials, `ValueLane` is one key of the value pass. `Quant` is `quant_s16`. What
the code's comments claim of the shipped sizes is here two inequalities between constants
(`BoundsAssumption`), which 64, 4096, 16384 and 384 satisfy.

### EncAttention, DecodeMirrors, QueryAttention

A buffer is a function from addresses to what was stored there: whose key or value, of which
query, layer, head and token, the zero of a padded lane, or junk. Writers store with the
strides of `quant_kT`, `quant_vT` and their `_range` forms; readers compute the addresses of
`ne_attn_heads`, `attend_cross_q16` and `attend_self_q16`. `EncAttention` has the two cores step
through their head ranges with their scratch sets, row by row. `QueryAttention` is both over
the life of several queries: `StartQuery`, `Attend`, `PackMirrors`, `Decode`, and `Give` for an encode
that `ne_encode` refuses: a bad length leaves the context as it was (`Refuse`), a bad id has the lengths
set but no row packed (`BadToken`). The bad-token exit of `ne_step_f` (`engine.c:2064`) is not
modelled: the token is an argmax, a forced piece or the start token, all in range.

### NpkImage

`PackTensor` is `add` of the packer, record by record. `Alter` stands for images of
another packer or model, one kind for each check the loader makes. `ReadHeader` is `app_main` with its
size at the width of `size_t` (`Word`), `LoadHeader`, `LoadRecord` and `LookUp` are `ne_load`,
`Context` is `ne_alloc`; each may fail for want of memory. The
loader adds the size up again in 64 bits, and that sum wraps as well (`Wide`): with a blob size just
below 2^64 a copy shorter than the records is accepted, and `ReadAstray` is the loader reading past
it; the model says nothing of what it finds there and stops. `Vectors` are the tensors `load_vec` reads, `TooLong` its
check of their length, which does not ask whether the record is a vector.

### GreedyMerge, BpeMerge, Prompt

`BpeMerge` keeps the linked list and the heap of both implementations: `SkipStale` and `MergePair` are
the two outcomes of a pop. The heap of `bpe.js` is an array with its sifting, that of
`bpe.py` pops any least entry. `GreedyMerge` knows neither: it merges the best pair,
the leftmost of equals, until none has a score. `Prompt` encodes query and tools through
`BpeMerge`, cuts them as `build_encoder_input` does, and sends the list to the parser of
`h_tokens` or of the console, together with lists made by hand. `HttpParse` may answer 413 to such a
list, whose body may be longer than the buffer, and not to a built one: 384 ids of at most four digits
are shorter than 6143 characters. `Pairs` excludes the byte pieces by their first character, the code
by the prefix `<0x`: no vocabulary piece is a bare `<` (`tokenizer/vocab.txt`), so a `<` in the text is
itself a byte piece and the two tests agree.

## 4. Runs

| run | checks | instance |
|-----|--------|----------|
| `split_handshake` | six invariants, `CallsReturn`, refinement of `ParallelFor` | 2 tasks, 4 loops, 3 rows; 4 709 states |
| `board` | `TokensAreOwn`, `PathIsOwn`, `ServedOnlyAfterChecks`, `BusyIsTrue`, `LockReleased`, `Answered` | console, 2 clients, 2 queries, 1 decode step; 270 943 states |
| `mid_inference` | fails: `RefusedIfMidInference` | as `board`, 2 decode steps |
| `warm_schema` | `AttendsOwnLayer`, `FullDepth`, `OnePromptApart`, `SelfWarmIsExact`, `SlotComplete`, `SlotImmutable`, `NoLeak` | 5 prompts, 3 schemas, 3 layers of which 2 kept; 3 196 states |
| `decode` | `CacheIsPrefix`, `RigidPositions`, refinement of `Autoregressive` | 7 tokens, cache of 5; 661 183 states |
| `decode_free` | fails: `FreeUntilOpen` | as `decode` |
| `pie_guard` | `RowsIntact`, `NetworkBetweenBursts`, `NetworkRuns` | the 6 boot tests, 2 probes of up to 2 bursts, any bursts after; 3 398 states |
| `pie_kernels` | `Exact`, `LoadsInBounds` | 2 lanes, unrolled by 2, 4 nibble values, rows of up to 3 chunks; 803 704 states |
| `attn_bounds` | `FitsInt32`, `UnitSum` | 3 dimensions, up to 6 keys, ranges 2 and 3; 207 808 states |
| `query_attention` | `AttentionIsOwn`, `CrossReadsBack`, `SelfReadsBack` | 2 queries of 1 to 4 tokens, 2 layers, 4 heads, 3 steps; 68 147 states |
| `npk_image` | `Laid`, `WholeImage`, `UpIsSound` | 5 tensors, both widths and groups, an alteration for every check, header claims that wrap at 32 and at 64 bits; 3 254 states |
| `prompt` | `ArrivesWhole`, refinement of `GreedyMerge` | 4 pieces with 2 scores, texts of up to 7 characters, 5 places; 63 697 states |

**Why the bounds are enough.** Handshake: three rows give halves of different length, two rows equal
ones, one a loop that is not split; four jobs cover two PIE kinds and the scalar loop, so a stale
word of every kind can meet every other; two callers and unbounded repetition
of calls let any round follow any other. Board: the console and
httpd are all the tasks there are; two clients suffice for one to wait while
the other is served; the three steps of a query are the places where another task
could come in. Warm cache: two long schemas of one length (a comparison by length would pass),
one too short, two queries of different length with one schema (positions
move), two kept layers and one full one, two objects (old and new exist
together). Decode: four tokens to an answer reach every forcing rule and a
second comma, the cache fills to its clamp, and an answer follows an answer. Guard: a boot
test of every kernel, every nesting of a suspension, a task ready at every moment. Kernels: rows
shorter than, equal to and one more than an unrolled block, two lanes so that a
nibble has a neighbour. Attention row: the two inequalities hold with nothing to spare, so a
sum one larger shows. Mirrors: lengths on both sides of the rounding, a shorter prompt after a
longer one and the reverse, heads that share a KV head. Image: `Word` is larger than the
partition and a header may claim more than `Word`, or
just enough to wrap at `Wide` with any number of the records cut off. Prompt: prompts that are cut in the query, in
the tools and not at all; pieces that overlap, so that a merge makes heap entries stale, and equal scores.

**Symmetry** is not used. **Deadlock** is checked except for `BoardServer`: a board with
no server and no mutex has nothing left to do.

**Fairness.** Handshake: weak fairness of core 1, of the task in a call and of each store's drain.
Core 1 runs nothing else; the holder of the lock has no other wait; hardware drains stores. Nothing
is assumed about callers. Board: weak fairness of a task in a query, and strong
fairness of handling each client's request, since httpd polls its ready sockets in turn
and a waiting one is not passed over for ever. Receiving a body may fail but need not.
Nothing makes the console or a client ask. Guard: weak fairness of the engine's task on each
core and of the other task giving the core back, as tasks above the engine wait for events.

### Where code and documents differ

- `net.c:66-67`: "a request that arrives mid-inference is refused rather than queued".
  Only against the console. httpd has one task, so a request that arrives while it is
  in an inference waits in its socket and is served afterwards (`mid_inference`).
- `engine.c:2037`: "Decode is free until 356". The rule behind the first comma piece
  does not look for 356, so an answer that never opened a call can be forced
  (`decode_free`). `docs/notebook/RESULTS.md:25` has a smaller difference of the same
  kind: it says 356 is always followed by 294, the code wants it at its opening position.

Smaller ones, which no run states:

- `needle_engine.h:175-176`: the kernels "must therefore run with the scheduler suspended".
  `kernel_unit_tests` runs them with it running (`fw_main.c:140`); a boot check could fail for that
  reason alone. After the tests it holds (`GuardedAfterTests`).
- `ne_force_scalar` is said to use scalar loops; `project_block` still calls a vector kernel
  (`engine.c:485-500`, against `needle_engine.h:340`), in the determinism test as well.
- The quantized probabilities sum to `PQ` only up to half a step per key (`UnitSum`), so the
  value sums may exceed the product the comments give (`engine.c:1263, 1466`) by that much;
  they fit 32 bits all the same.
- `ne_load` takes a matrix without scales, and row counts as the record has them.
- `h_tokens` reads up to the first element that is no number and cuts a hand-made
  list at `NE_MAX_ENC` without saying so; the console rejects both.
- The twins of the tokenizer differ outside the merge loop: Python's `split()` and
  JavaScript's `/\s+/` disagree on a few characters, and `json.dumps` and
  `JSON.stringify` write some numbers and all characters beyond ASCII differently, so it is for
  the merge loop only that board and host get the same ids.
- `ne_load`'s second size check (`engine.c:910`) adds in 64 bits and wraps like the first: a header
  that claims 2^64 bytes or more may be accepted with a copy that ends before its records. No document
  promises otherwise; `WholeImage` and the theorem `WholeCopy` hold for claims under 2^64 and say
  that records are read past the copy for no other.

## 5. Proofs

All proof modules are about the specification itself: any constants that satisfy the
assumptions named in its module. TLC evaluates all of them on the instances.

| assumption | what it says, and why it holds of the code |
|------------|---------------------------------------------|
| `HandshakeAssumption` | `None` and `NoJob` are not jobs, row counts are positive |
| `BoardAssumption` | the ids used for boot are not queries of clients; there is a decode step |
| `WarmAssumption`, `CacheAssumption` | a schema has a row, the cache keeps some layers and not all (4 of 12), every prompt fits the encoder; "no prompt" and "no cache" are not among the prompts and the caches |
| `DecodeAssumption` | the grammar's pieces are tokens, none is the end token, the comma is none of the pieces forced after a name; the cache has a row for the start token and one more |
| `GuardAssumption` | the boot tests are of kernels there are; scalar code is no kernel |
| `KernelAssumption` | sizes are positive, a nibble has 4, 8 or 16 values |
| `BoundsAssumption` | the two inequalities of the code's comments |
| `MirrorAssumption`, `HeadAssumption` | `NE_MAX_ENC` is a multiple of the alignment (static assertion, `engine.c:1284`); two query heads to a KV head |
| `ImageAssumption`, `TensorAssumption` | header and records are whole units, the partition fits `size_t`, the record table 64 bits; tensors are some, of distinct names, their rows whole vectors of nibbles (the reshape of `pack_int4`), vectors are looked up by the engine |
| `BpeAssumption`, `PromptAssumption` | bytes, letters and the blank are different characters, scores are numbers; texts are of these characters, the tools' JSON is not blank, the ids the code refuses (`OutOfRange`, `Word`) are neither `<tools>` nor pieces of text; the encoder has room for more than two ids |

**SplitHandshake.** Proved for any number of tasks, jobs and rows: `TypeOK`, `WholeRange`,
`ClosedBetweenCalls`, `WorkerOnCurrentJob`, `DisjointHalves`, `OneCaller`, and that
`Spec` implements `ParallelFor`. None of the properties is inductive: a state where core 1
still has `w_done` pending while core 0 publishes satisfies all of them and breaks the
next. `IInv` therefore describes a round phase by phase: nothing of it pending at rest
(`RestInv`); while the description is stored, the buffers together with memory
describe the job (`PublishInv`); once `w_go` is up, the worker has not taken the job,
computes it, or has finished it (`NearInv`: `NotTaken`, `Computing`, `Finished`), each
with what memory and buffers hold and which rows are written; while the round closes
(`CloseInv`), every row is in place. One lemma per group of actions shows that `IInv` is
preserved. For the refinement, a row core 0 stores and a row of core 1 that drains are each
`Compute`; `Call` is `Begin`; `Return` and `ReturnAlone` are `Return`; all else stutters.

**Decode.** Proved for any vocabulary, prompts and cache size: `TypeOK`,
`CacheIsPrefix`, `RigidPositions`, and that `Spec` implements `Autoregressive`. `IInv`
adds that the token fed next is the last of the prefix (`FedNext`), so that
the row appended is the right one, and what the counter of commas says of the answer
(`CommaCount`), without which "the first comma" is not known. `CacheIsPrefix` also
keeps the step inside the cache, which makes the full-cache exit of `ne_step_f` unreachable.

**BoardServer.** Proved for any clients, queries and number of decode steps: `TypeOK`,
`TokensAreOwn`, `PathIsOwn`, `ServedOnlyAfterChecks` and the action property `BusyIsTrue`. The properties
speak of answers already given; `IInv` follows a query from the lock to the answer. `LockInv`: a
task is in the engine exactly while it holds the lock, and without a mutex nobody does.
`EngineInv`: what the engine context holds for the task in it, at each of its three steps.
`HttpInv`: httpd's tokens and path stay its own across the unlock, where the lock no longer
protects them, because only httpd writes them. `CheckInv`: which boot checks have been recorded by
when; the smoke query's may be missing, if there is no mutex, and then nothing is served.

**WarmSchema.** Proved for any layers, prompts, schemas and objects: `TypeOK`, all six invariants
and `SlotImmutable`. What a warm encode reads was written one or many encodes ago, so the
invariant follows a cached row from the hook that saved it to its use. `CapInv` says how much of the
object being captured is final at each point of each layer, `SlotInv` that all of the slot is,
`WarmInv` that a warm encode runs with the slot it matched, `OwnerInv` who owns an object. Of
the pass itself, `ResidualInv` and `KeyInv` say what each row of the prompt holds; of rows
beyond it, which keep what earlier encodes left there, nothing is ever used.

**NpkImage.** Proved for any checkpoint, alignment, partition and word: `Laid`, `WholeImage`,
`UpIsSound`. Three arguments. A record the packer appends starts where the blob
ends, so `SectionsInv` compares it with the end only, and two sections with each other by
induction. What the header claims may wrap around in `app_main`, but never to more than it is
(`SizeInv`); below 2^64 the loader's own sum is exact, so the two agree only on the whole image.
`LoadInv` says what the records before the current one have been found to be, and
`NamesInv` that an image which repeats a name has too many of them to come to its end.

**QueryAttention.** Proved for any layers, heads, dimensions, lengths and queries:
`CrossReadsBack`, `SelfReadsBack`, `AttentionIsOwn`. The buffers are flat and their strides
are symbols, so the arithmetic comes first: `Cell` takes an address apart, `StoredAt` says what a slab
written for one layer does to another's. `MirrorInv` then carries what the readers find, layer by
layer; `ArenaInv` what each core's scratch holds at each point of a row, and that the
order of the heads meets every row of every head once.

**PieKernels** (in `KernelProofs`). Proved for any lanes, unrolling and lengths: `Exact` and
`LoadsInBounds`, and `KernelsExact`, the same of a call with any operands of the right shape. A sum is a
fold: that its recursion has a solution and that any member may be taken out first
(`SumTakes`) is shown by induction over sets of sizes. From there a sum is a `Window` of the
products of a row, a kernel adds one window after another, and `KernelInv` ties pointers,
accumulator, the register filled ahead and the groups already drained to how far it is.

**PieGuard** (in `KernelProofs`). Proved for any list of boot tests and any probes: type
correctness, `RowsIntact`, that a kernel outside the boot tests only runs on a core whose scheduler is
suspended, and the action property `NetworkBetweenBursts`. The guard is raised and lowered in
different functions, so `Guarded` says how deep each core is at every stage, and
`RowsGuarded` that a row lies within its call and has lost nothing. `HeldBack`, a
task is kept waiting only by a suspension of its own core, gives the network its turn.

**AttnBounds** (in `KernelProofs`). Proved for any sizes that meet the two inequalities: type
correctness, `FitsInt32` and `UnitSum`. Rounding a fraction misses it by half at most (`RndBounds`);
multiplied by the sum of the exponentials and added over the keys consumed this bounds `mass`
inductively, and the accumulator by `AQ * mass`.

**BpeMerge, Prompt.** Proved for any vocabulary, texts and length of the encoder:
that `PromptSpec` implements `GreedyMerge`, and `ArrivesWhole`. Neither follows from the state alone.
`Linked` gives the list its shape: an increasing sequence `e` of the places in use, with `nxt`,
`prev` and `alive` as that sequence says; `Pieces`, which follows `nxt`, is then the pieces along
`e` (`AlongIs`). `Waits` says that every pair of neighbours that may merge has an entry in the heap with their
present pieces, which makes it safe to drop stale ones (`StaleFits`) and to stop when the heap
is empty; `Candidate` that an entry's score is its piece's, so that a live one on top is the best pair
(`TopIsForemost`). For `bpe.js`, `RisenIs` and `SunkIs` show that sifting keeps the array
ordered and loses nothing. A merge keeps all this because it pushes the pairs of its own place
and leaves the others' pieces alone (`MergedLinked`, `GrownFits`). In the refinement
`StartEncode`, `MergePair` and `EndEncode` are `Begin`, `Merge` and `End`, all else
stutters. For `ArrivesWhole`, `StageInv` says what each stage hands the next: a query of at most
`MaxEnc - 2` ids, at least one id of the tools, a list that fits.

The functions here that are defined by recursion (a fold, following `nxt`, the places an
entry rises or sinks through) are handled alike: an induction shows that the recursion has a solution,
the one its definition chooses is then taken apart by a second one.

**Model-checked only.** `CallsReturn`, `LockReleased`, `Answered` and `NetworkRuns`: liveness
under fairness, which the prover does not reach. Nothing is proved of `mid_inference` and
`decode_free`, which fail.

## 6. Not modelled

- Floating-point arithmetic. The models say where a number comes from, not what it is.
- Weak memory beyond store buffers: loads are in order, which the volatile accesses and
  fences of the code give on these cores; the compiler's reordering of plain memory is
  bounded by the same fences.
- Ethernet bring-up, DHCP, static assets, the text of replies, the characters of a request
  body and of a console line (both parsers see elements). A link that drops shows as a
  failed receive.
- The text side of the host: splitting at whitespace, `snake_case`, JSON. Tool retrieval is a
  pure function of strings.
- The vector unit's saturation and drain, beyond what `AttnBounds` says of the sums.
- Power loss and restart: the board keeps no state across one.
- Components with status `not_modelled` in `PROJECT.json`, each with its reason; those
  that are planned are in section 2.

## 7. Running

    tlc -config MCSplitHandshake.cfg MCSplitHandshake
    tlc -config MCBoardServer.cfg MCBoardServer      # also MCMidInference.cfg
    tlc -config MCWarmSchema.cfg MCWarmSchema
    tlc -config MCDecode.cfg MCDecode                # also MCDecodeFree.cfg
    tlc -config MCPieGuard.cfg MCPieGuard
    tlc -config MCPieKernels.cfg MCPieKernels
    tlc -config MCAttnBounds.cfg MCAttnBounds
    tlc -config MCQueryAttention.cfg MCQueryAttention
    tlc -config MCNpkImage.cfg MCNpkImage
    tlc -config MCPrompt.cfg MCPrompt
    tlapm SplitHandshakeProofs.tla
    tlapm BoardServerProofs.tla
    tlapm DecodeProofs.tla
    tlapm WarmSchemaProofs.tla
    tlapm NpkImageProofs.tla
    tlapm QueryAttentionProofs.tla
    tlapm KernelProofs.tla
    tlapm PromptProofs.tla
