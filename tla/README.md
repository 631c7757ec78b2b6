# Verification of risc0-groth16-bls

This directory models, checks and proves properties of `risc0-groth16-bls`: a
circuit over BLS12-381 that verifies a RISC Zero STARK receipt (the `identity_bls`
recursion program), a Groth16 prover for it with its keys and its trusted-setup
ceremony, and an independent verifier in Rust.

Every definition is translated from the Go and Rust sources. `PROJECT.json` gives
for each one the file and the lines it stands for (`map`), the runs, for each
property a mutant that breaks it, the hazards of the code, and the proved theorems.

To check a run: `tlc -config MCReceipt.cfg MCReceipt`. To check the proofs of a
module: `tlapm ReceiptProofs.tla`.

## 1. The system

```
 keys.go            main.go (groth16bls)                cardano.go        lib.rs
 asset cache  --->  setup / prove / dump  --> proof --> wire format  ---> Rust verifier
                        ^          |  circuit
 ceremony/main.go       |          v
 phase 1, 2, finalize --+      receipt_circuit.go -> driver.go -> merkle.go, fri.go,
                               seal.go (witness)                  deep_*.go, claim.go
                                                                  sponge.go, babybear.go
```

| Component | Source | State it keeps | Operations | Hard behaviour | What makes it correct |
|---|---|---|---|---|---|
| Asset cache | `go/keys/keys.go` | files of a cache directory shared by every prover of a host | ensureAsset, FileSHA256, download; later `readFrom` opens the name | provers overlap; one fixed `.part` name; a name is checked and opened again later; crash, power loss, stalled server | what the loader reads is what was hashed, or a known race happened; the cache heals |
| Prover command | `go/cmd/groth16bls/main.go` | keys directory and `--out` directory | setup --dev, prove, dump, (verify, circuit-id) | several files written one by one, without locks; commands die half way; stale files survive | no production proof from other keys than the pinned ones; output directories are one run's |
| Ceremony command | `go/cmd/ceremony/main.go` | contribution files; the keys directory | init, contribute, seal / finalize of two phases | files passed by hand: raced for, overwritten, torn, forked, listed in a wrong order, of another ceremony | what is sealed is one chain of contributions, each on top of what its contributor found; with names of their own, no contribution is lost |
| Receipt circuit | `go/stark/driver.go`, `claim.go`, `receipt_circuit.go`, `transcript.go` | the transcript | commit, draw, ingest, open, assert | a Fiat-Shamir order that honest seals do not test | satisfiable only for a true statement; for every honest seal |
| FRI and Merkle arithmetic | `go/stark/fri.go`, `merkle.go` | none | position slicing, paths, folds | off-by-one in bits, consistent with itself; typed-in roots of unity | each query reads the right row of each tree, catches a false entry on its way, and folds as the prover does |
| DEEP-ALI arithmetic | `go/stark/deep_*.go` | none | evaluations, step program interpreter, check polynomial, mixed taps | three loops with running offsets of their own; bit-reversed parts; generated tables | accepts the columns that satisfy the program, and no others |
| Seal parser | `go/stark/seal.go` | an offset | ValidateSeal, ParsePrefix, ParseQueries | sizes written as numbers in several files | every word used once, arrays filled, no panic |
| Transcript hash | `go/hash/poseidon_bls/*` | sponge cells | Mix, RandomBits, RandomElem, HashElemSlice | packing, hints | injective packing, unique quotient |
| BabyBear field | `go/field/babybear/babybear.go` | none | IngestElem, AssertCanonical, Fp4 arithmetic | lazily reduced numbers | one representation per element |
| Cardano serialisation | `go/serialize/cardano.go` | three files | encode VK, proof, public inputs | layout shared by hand with another language; interrupted writes | the reader is the inverse |
| Rust verifier | `rust/groth16-bls-verify` | a reader | parse, verify | counts in the data, 1-based indices, two copies of a point | accepts what was proved, refuses what is not it, never panics |
| Circuit fingerprint, development commands, scripts | `circuit_id.go`, `provee2e`, `constraints`, `genfri`, `tools/`, `prototype/` | none | compile, measure, compare | - | - |

The components interact through files (cache and keys directories, the three
Cardano files, contribution files) and through calls inside one process (the
circuit's `Define` calls the driver, which calls the arithmetic). There are no
threads of the program's own and no locks: all concurrency is between processes.

## 2. The modules

| Module | Models | Kind |
|---|---|---|
| `AssetCache` | asset cache with any number of provers | state machine, with fairness |
| `AssetCacheProofs` | | theorems |
| `ProverKeys` | keys and output directories under setup, finalize, prove, dump | state machine |
| `ProverKeysProofs` | | theorems |
| `SetupStates` | what the files of a setup hold | operators |
| `TrustedSetup` | what a setup ceremony promises | abstract specification |
| `Ceremony` | the ceremony's commands over shared files; implements `TrustedSetup` | state machine |
| `CeremonyProofs` | | theorems, refinement |
| `PublicCoin` | what a Fiat-Shamir transcript promises | abstract specification |
| `Receipt` | the verifying pass of the circuit; implements `PublicCoin` | state machine |
| `ReceiptProofs` | | theorems, refinement |
| `FriQuery` | one FRI query: positions, paths, folds | state machine over bit arithmetic |
| `FriQueryProofs` | | theorems |
| `Fp4` | BabyBear, its extension, the range checks, the packing of the hash | operators |
| `FriFold` | the arithmetic of a FRI query | operators |
| `DeepAli` | validity check and the value a query hands to FRI, with real arithmetic, against a prover of columns, quotients, evaluations and FRI words | state machine |
| `DeepAliProofs` | | the field, its inverses and the hash, the step program and the validity equation: theorems |
| `SealLayout` | seal parser and witness assignment, with the real sizes | walk over a fixed layout |
| `CardanoWire` | encoders in Go, parsers and verifier in Rust | state machine over scaled-down bytes |
| `CardanoWireProofs` | | theorems |
| `Arithmetic` | | induction, recursion and division for the other proofs |
| `MC*` | instances for TLC: sets of values and symmetry | |

### AssetCache

Files are inodes behind two names, `path` (the asset) and `part` (`asset.part`).
`os.Create` truncates the inode a name is linked to, `os.Rename` moves whatever is
linked at that moment, an open file stays on its inode: this is what the races
depend on. A process is at a place `pc[p]` between two system calls: `Invoke` (open
and start hashing), `ReadChunk`, `ReadWhole`/`ReadBad` (the hash of the file
compared), `Evict` (`os.Remove`), `Create` (HTTP response and `os.Create`),
`CopyChunk` (`io.Copy`), `Rename`, `Verify`, `LoadOpen` (the caller's `readFrom`).
`GetFault`, `Stall`, `CopyFault`, `RenameFault`, `ReadFault`, `Crash` and
`PowerLoss` are the environment, bounded by `MaxFaults`. The manifest
(`Load`, `Resolve`) is read-only and is the choice of one asset.

### ProverKeys

A key file is known by the generation its keys come from: `Pin` for the ceremony,
a new one for each `setup --dev`; `Mangled` is any damaged content. Each command is
a plan of files written in the code's order (`SetupPlan`, `FinalizePlan`, `OutPlan`,
`DumpPlan`), each by `CreateFile` (truncate) and `FinishFile`; `Abort` is death at any
point. `Prove` reads vk, ccs and pk at three moments (`ReadVK` with the production
gate, `ReadCCS`, `ReadPK` which prefers the dump), so other commands may run in
between. `SelfVerifies` is `groth16.Verify` before anything is written.

Only `dump` has a temporary file, always under the same name. `moved` follows the file a dump
has open when another dump's `RenameDump` moves it or a failed one's `Removed` unlinks it:
`FinishFile` then writes under the published name, or nowhere, and its own rename finds
no file.

### Ceremony, SetupStates and TrustedSetup

A setup file is known by what is folded into it (`SetupStates`): where its phase began
(a size, or a sealed phase 1), the secrets in order, the beacon. That is what gnark's
update proofs establish, and `Verified` is `VerifyPhase1` / `VerifyPhase2` on such states:
from the initial state on, every file adds one secret to the one before.

`Ceremony` runs the commands as processes over names. `Read` is one `readFrom` (the file
is decoded or the command dies), `Refuse` a failed verification, `Create` the `os.Create` of
`writeTo` (from then on the name holds a torn file), `Write` the rest of it, `Finalize` the keys
and their fingerprint, `Die` death at any point. Two commands that have one name open at once are
`mixed`: what remains is the bytes of either, nothing that decodes, or a state of no
known origin. `HandIn` brings a file of another ceremony. The names given to a command are
chosen when each is opened, so every list (gaps, repetitions, forks, wrong order) occurs.

`TrustedSetup` has no files: `states`, `commons` and `keys` only grow, a secret is folded
in once, only a phase 1 of proper size with a contribution is sealed, keys are made only
of a phase 2 over a sealed phase 1. `Ceremony` implements it with everything a name ever held
whole (`seen`) as the transcript (`ImplementsSetup == Setup!Spec`).

The comment at `ceremony/main.go:3-9` asks for "at least one contributor" to be honest: it is one in each
phase that the transcript needs, and with files from outside taken in deliberately
(`Import`), phase 2 can be run over a foreign phase 1. When the beacon was drawn is
something no file records.

### Receipt and PublicCoin

One pass over a seal in the order of `VerifyValidity`, `VerifyFRIPhase`, `BindClaim`.
A part of the seal is an honest prover's or a lie (`lies`), and is fixed as late as
the transcript lets it be: `knew` records the challenges that could be known then.
The actions are the calls: `CommitGlobals`, `CommitTop`, `CommitU`, `DrawMain`,
`AssertValidity`, `CommitFri`, `DrawMix`, `CommitFinal`, `DrawPos`, `OpenQuery`,
`BindClaim`. The prover also chooses which openings to forge and which elements to
encode out of range.

Idealised: no hash collision and no lucky guess. A polynomial identity tested at a
drawn point fails for unequal polynomials unless one of them was fixed knowing the
point, and one query catches a word that is not the fold of the one before. The
real soundness error is a number the model has no place for; what the model has
is the order and the completeness of the checks, which is what code can get wrong.

`PublicCoin` says only: nobody learns a challenge while a part it is to test is
open. `Receipt` implements it with `sent` and `known` (`BoundByTranscript == PC!Spec`).

### FriQuery

A digest is the number of its node, a field element the `<<word, index>>` it is the
right value of, so that `HashPair`, `Climb`, `MerkleVerify` (path and top row),
`Slot` (`reshapeLeaf` and the mux) and `Fold` are arithmetic on the bits of the
position. A prover answers with any digest for the row and any for each sibling: the constant
`Offers` says with which, and the theorems hold whatever it is. TLC gives it every row with its
own path, and the row at the index with any one digest replaced by its sibling, its parent
or none of the tree's. The cells of a row that is not the tree's (`Foreign`) are what suits the
prover. One entry of one committed word may be false (`Held`). What an
accepted query shows is that its rows are those at its position, that their paths are the tree's in
every place, and that the entry at the position is right in every word (`CatchesLies`); a false
entry in another slot of an opened row is for the queries that lead there. `OpenQuery` of
`Receipt` assumes that a query is about the rows at its position; this module is the reason.

### Fp4, FriFold and DeepAli

`Fp4` is the field arithmetic of `babybear.go` and `sponge.go` as the circuit does it: the
product over X^4 = -Beta, the inverse as the hint computes it with the product that the circuit
asserts (`InvHint`, `Invertible`), the two decompositions of `AssertCanonical` over the native field,
`RandomElem` as the set of remainders a prover may supply, `HashElemSlice` as packing into cells
(the permutation loses nothing). `FriFold` is `fri.go`: `ReshapeLeaf`, `FriTwiddle`,
`FoldDataExt`, `FinalPoly`, `VerifyFRIQuery`.

`DeepAli` follows the driver from the accumulator's mix to the last query. `Draw` is one
squeezed element; `CommitAccum`, `CommitCheck`, `SendU`, `CommitFri` and `SendFinal` are the
prover's moves; `Ingest` is the range check of the words and `EvalU`; `Step` is one iteration of
`PolyExt`'s loop, with the two register banks as the code fills them and constants folded
outside the circuit as `kAdd`, `kSub` and `kMul` do; `Validity` is the size check, `ComputeCheck` and the equation;
`MixU` is `ComboU`; `Query` is `FriEvalTaps` and `VerifyFRIQuery` at one position. The prover commits to a
trace that satisfies the program or does not (`Traces`, `AccumTraces`), to its quotient or to
zero, sends the evaluations, any with one coefficient changed, any with a check
coefficient adjusted so that the validity equation holds, or any word shifted by the
modulus; and as the first FRI word what the queries will ask for or the word of low degree through a quarter of
it. The honest prover (`Quotient`, `HonestU`, `Folded`) and the reference the program is compared with
(`Reference`, `Mixed`, `RefMul`) are written from the definitions and not from the code:
polynomial multiplication by convolution, folding by the residue of the exponents.

`BlockAssumption` is what `PolyExt` needs of the table of steps and never tests: every operand
names a tap, a global or a register that an earlier step has filled, and every constant is reduced
(`Formed`). The 12359 steps of `testdata/polyext_def.json` (11130 value registers, 1229 mix
registers, and `ret` the last of them) have this form. Three more assumptions say what the data is:
`InverseAssumption` that the modulus is prime, `DomainAssumption` that the domains fit in the base field and
their generator is an element of it, `CombosAssumption` that the registers of a combo have its backs, as those of
`taps.json` do (`EvalU` reads the one and `FriEvalTaps` the other). `Meaning` is what a step says when the mix registers are read as lists of
terms and nothing is folded; `Reference` runs it over the first n steps.

`Receipt` takes from here that a false statement fails the equation or the queries
(`AssertValidity`, `OpenQuery`), and gives in return that columns are fixed before the
challenges and opened faithfully.

### SealLayout

The constants of `seal.go` are the program's own: 55667 words, 50 queries of 1019.
The parsers' reads are two tables, `PrefixReads` and `QueryReads`; `ReadNext` is a read
at the running offset, `StartQuery` jumps to `queryStart + q * queryWords`.
`WireSize` and `CopiedFrom` are the circuit's arrays and `AssignReceipt`'s copies.

### CardanoWire

Bytes become cells (0 .. 5): u32, compressed G1 and scalar one cell, G2 and
uncompressed G1 two. A reader that is off by a field reads another field's cells.
`Write` delivers the three files: as written, one cut at any cell (`writeFile` creates
in place), one with any cell changed, or one with a cell more. `ReadField` is one
`Reader` call for the field that is next (`field`); `Pushed` puts the value where the
parser pushes it (`got`, a list of values for each field) and `After` is the parsers'
control: the field that follows, decided by the counts and by how much of each list there is.
`CheckShape`, `Challenges`, `CheckPok`, `CheckPairing` are the steps of `verify`. gnark's side of the
equation is `GnarkSum`, written from the artifacts and not from what was parsed.
Pairings are idealised: an equation holds for the values it was proved for.

`AcceptedAsWritten` leaves two differences, both in the code. The proof of knowledge of
a proof without commitments is parsed and not used. And the indices of a commitment enter the
verification only through the public inputs they name, so where two public inputs are
equal a key with either index is accepted; one artifact of the run has such inputs.

## 3. The runs

| Run | Instance | What it shows | Distinct states |
|---|---|---|---|
| `asset_cache` | 3 provers, 4 inodes, 2 chunks, 1 fault, symmetry | unverified bytes reach a loader only through a race; a verified asset vanishes only under overlap; whole files stay whole | 319,245 |
| `asset_cache_live` | 2 provers, 3 inodes, 2 chunks, 1 fault | every fetch ends; the cache heals | 130,790 |
| `asset_cache_race` (violation) | as `asset_cache`, no faults | the race is real (three provers, below) | |
| `prover_keys` | 2 processes, 2 seals, 2 dev setups, 3 commands, 1 death | five properties of the two directories | 1,660,819 |
| `stale_dump` (violation) | 1 process, 4 commands, no death | setup, dump, setup, prove fails its self-verify | |
| `dev_marker` (violation) | 1 process, 2 commands | finalize leaves the dev marker | |
| `ceremony` | 2 processes, 3 names, 2 secrets, 5 outputs, 2 files in a list, 1 death or foreign file, symmetry | refinement of the transcript, order of secrets, no honest contribution stuck | 632,439 |
| `receipt` | 3 FRI rounds, 2 queries, 2 roots, 2 claims, 2 programs | soundness, completeness, transcript | 61,538 |
| `fri_query` | 128 positions, 3 rounds folding by 4, 2 digests in a top row; every row, and one wrong digest in a leaf or path | right rows, paths and entries, every false entry on the way caught, none refused otherwise | 283,776 |
| `deep_ali` | 241 elements, 4 cycles, 4 registers, a program of 29 steps, one round folding 16 points by 4 | only satisfying columns accepted, word for word; every honest proof accepted; the equation over the whole program; register banks, challenges and digest exact | 19,259 |
| `seal_layout` | the real sizes; 6 lengths, 4 po2 words, 5 query counts | no panic, tiling, array and tree sizes | 4,300 |
| `cardano_wire` | 0-2 public inputs, 0-2 commitments, with and without committed publics | acceptance, canonical form, no panic | 38,292 |

Why the bounds are enough. Three provers are the least for which one can rename,
one truncate and one load; two chunks are the least for a torn file; the proofs
remove both bounds. In `prover_keys` two commands can overlap anywhere and a third
see what they left; one death is the least for a half-written file; again all
five properties are proved for all sizes. Receipt's three rounds are the
code's; two queries are the least for which one differs from the last; the proofs
are for any number. `fri_query` scales 2^20 positions folded by 16 down to 2^7
folded by 4, with the code's three rounds, a quotient of two bits
and paths of 6, 4, 2 and no siblings, so that a bit too many or too few anywhere
selects another row; the proofs are for every width, the code's among them. `seal_layout` needs no scaling. In `cardano_wire` each count takes
every value from zero to one more than the longest list, so every list is read
empty, right, short and long; again the proofs are for files and lists of any length.

In `ceremony` five outputs are what both phases take (a beginning and a contribution in
each, a seal between), so keys are published with no output to spare or the run spends
them on forks, overwrites and races within a phase; finalize writes none of the names and is
not counted. One size is in the instance and another ceremony comes in from outside;
that too small a phase 1 is refused (`LargeEnough`) is in the model and in the proofs, and the run with
two sizes (1,844,124 states, no error) takes too long to be kept. Three names are one fewer than the files of a complete phase pair, so names get
reused. In `deep_ali` the prime 241 has what the arithmetic needs of BabyBear: -11 is no square, so
X^4 + 11 is irreducible; 3 lies outside the 16 points, so the scaled cycles miss the domain; 2-adicity 4,
the domain's; two packed elements fit in the native field as eight do in the code's.
The program of 29 steps uses every opcode, folded and unfolded, and asserts under
conditions that hold at some cycles only. The challenges are one generic transcript (`MCSums`) with the extremes
of what can be squeezed: in so small a field some challenges do make a false equation hold, and
the run shows the algebra at a point where none does. Each position is queried once, so no lie
escapes by luck; the final coefficients are the last fold's, canonical, and all the words
of FRI rounds after the first are honest folds (that a false fold is caught is `fri_query`).
Registers have one or two backs.

`CHECK_DEADLOCK FALSE` stands where the program stops: a pass, query, parse or
verification ends in a verdict, and the commands of `prover_keys` and `ceremony` are bounded. The
asset cache cannot stop and is checked for deadlock.

Fairness is used by `asset_cache_live` alone: `WF(Step(p))` for each process. A
running process is scheduled; a stalled copy is ended by the client's 30-minute
`Timeout` (`keys.go:167`), which is a step of the program; and somebody who needs a
proof runs the prover again (`Invoke` is part of `Step`). Faults have no fairness.
`EventuallyCached` excludes behaviours with overlapping provers, because these can
go on evicting each other's file; this is the code's behaviour and not a bound.

### Disagreements found

- `asset_cache_race`: without any fault, a prover loads bytes no hash covered. It takes
  three: one is about to rename its finished download, a second's `os.Create` leaves an
  unfinished file at `.part` (truncated, or new if the name was just renamed away), and the
  first's rename puts it over the `dst` that a third has hashed and opens by name. (A file once renamed and verified is itself never written again:
  `WholeFilesStayWhole`.) `keys.go:4-5` says what is used was "SHA-256-verified against the
  manifest". A proof made from those bytes would still be refused by the self-verify.
- `stale_dump`: `pk.bin.dump` outlives the keys it was made from, so a self-verify that
  "should never happen" to fail does, in one process. It fails closed.
- `dev_marker`: `phase2-finalize` reports "NO dev marker" and does not remove one.

One remark without a run: `driver.go:196-197` and the list in `claim.go:34-39` say the control
root and id are bound to compile-time constants; `BindClaim` binds them to public inputs, as
the end of the same comment (`claim.go:45-59`) and `PUBLIC_INPUTS.md` say. `AssignReceipt` fills those inputs from constants, so the prover
command makes proofs for one program only; a verifier must compare them.

## 4. The proofs

Each proof module extends its component's module and follows one scheme: an
inductive invariant `IInv`, one lemma per action, `Invariance`, then the properties.

**AssetCacheProofs**, from `AssetCacheAssumption` (at least one chunk; `None` is no
inode). `IInv` is `TypeOK` with `NamesApart` (the two names share no inode), `FilesOpen`
(a reader's inode is not the one at `.part`, which alone is ever truncated),
`HistoryExact` (what `overlap` and `collided` record), `Progress` (without a collision a
download owns `.part`, and what it has written, like what a reader has read, is good),
`Trust` (what `path` can name between the hash and the load) and the two properties.
The properties alone are not inductive: that a loader reads good bytes depends on what
other processes may still write to the same inode. Proved: `TypeCorrect`, `WrongBytesOnlyByRace`,
`GoneOnlyByOverlap`, `WholeFilesSafe` (an action property).

**ProverKeysProofs**, from `ProverKeysAssumption` (generations and the two special
contents are distinct). `IInv` is `TypeOK`, `PlanPending` (a writing process has a file
left), `DumpPlanned` (a dump has one file, and only a dump's is ever moved), `Gated` (past the gate, the verifying key in memory is the pinned one unless
`--dev` was given) and `ProductionIsPinned`. Proved: `TypeCorrect`, `ProductionPinned`: the
second holds because the gate reads vk once and the self-verify ties the proving
key to it, whatever happened to the directory in between.

The three properties of the files need `FInv`. A command writes from a plan made when it
started; `Planned` says that what is left of it is the end of one of the whole plans
(`Rest`), and as long as nobody else has written there the files before the one being written hold what
the plan says (`Done`). Who may have written there is what the history variables
record: `OutputsInv` holds until `outSpoilt`, `DumpInv` until `dumpSpoilt`, `KeysInv` while no command
died, none overlapped and no dump was made (`Calm`). `KeysInv` also follows the keys from the directory into
the memory of a prove (`Loaded`): at rest proving and verifying key are of one generation
(`KeysMatch`), so a prove that read them with nobody writing verifies itself. Proved: `OutputsWhole`
(`OutputsOfOneRun`), `DumpWhole` (`DumpPublishedWhole`), `SelfVerifyExplained` (`SelfVerifyFailsFor`), each for any
number of processes, seals, generations, commands and deaths.

**ReceiptProofs**, from `ReceiptAssumption` (at least one round and one query).
`IInv` has two halves. Transcript: `Counting`, `Absorbed` (what has been sent at each
phase), `Committed` (a known challenge has all it tests sent), `Blind` (no lie was told
knowing the challenge that tests it). Chain: from an accepted pass back through
queries, folds and validity to the statement (`Executed`, `PastValidity`,
`FoldedFrom`, `PastQueries`, `PublicBound`), and forward for honest seals (`Honesty`).
Proved: `TypeCorrect`, `Soundness`, `Completeness`, and `TranscriptBinds`, the step
simulation of `PublicCoin`.

**CeremonyProofs**, from `SetupAssumption` and `CeremonyAssumption`. `IInv` is `Typed`, `Good` of
everything ever seen (a kind, and a sequence of secrets), `ReadOK` (what a command has read was seen, in the kinds it wants) and `OutputOK`: what a
writing command is about to leave is the beginning of a phase, a seal of a state that was
seen, or a state that was seen with one secret that occurs nowhere else. That last clause is what makes
it inductive: a state is written long after it was read, and the names it came from may have been
overwritten since. Proved: `TypeCorrect`, `CeremonyImplementsSetup` (each step is a step of
`TrustedSetup` or a stutter; reading, creating, refusing and dying are stutters) and
`SecretsStayAsContributed`, for which `AllAgree` extends the property to the states being
written. `SealedAsListed` (`ListIsChain`) is induction along the list of files a command was given:
each verified file has the secrets before it and its own (`VerifiedChains`). `NothingStuck`
(`NeverStuck`) needs `NInv`: every state seen is one a file can hold (`Kept`), with each state
all those it grew from were seen (`Grown`, because a contributor must read a state
before adding to it), and as long as every output had a name of its own, each is still under some name
(`OnHand`, where nothing but the torn file of the command that writes it is under an output's name). From
these the list to give a command is constructed (`OnHandVerified`): the states before the one wanted, in
order, each at the name that has it. Any number of processes, names, secrets, outputs and deaths.

**FriQueryProofs**, from `FriQueryAssumption` (the widths follow from each other as the sizes in the code do: each round drops
the bits of a fold, a path ends at the top row, there is a round) and `OffersAssumption` (an opening has a digest
for the row and one for each sibling; nothing is said of which). `QInv` says that every row opened is the one at the
position (`Opened`), that no entry on the way so far is false (`WayClear`), and what the value carried is
at each step (`Stage`). Underneath: a node's number is the high bits of its rows (`NodeAbove`), a hash
is that node only of its own two children (`HashesChildren`), so a climb that arrives at the entry of the top row was, level by level downwards,
on the tree's own nodes: only the row at the index, with its own path, is accepted (`OpensOneRow`); and the
code's slices of the position, taken a round at a time from the round before, are the low bits of the
position (`VisitedIsAt`). TLA+'s exponentiation has no rule in the provers: `Doubling` gets its
recurrence from the number of subsets of a set. Proved: `TypeCorrect`, `AcceptedIsClear` (`CatchesLies`),
`RefusedIsFalse` (`RefusesOnlyLies`), for every width and number of rounds, those of the code among them.

**DeepAliProofs, the field**, from `FieldAssumption` (1 < p, p at most the decomposition's bound, twice that and (MaxQuotient + 1) * p
at most the native modulus) and `PackAssumption` (the packed elements of a cell fit in the native field). BabyBear in
BLS12-381 satisfies both. The range checks: `QuotientUnique` (a number below (n + 1) p has one quotient and
remainder), `NoWrap`, `RandomElemUnique` (the division hint has one value that passes), `CanonicalMeans` (both
decompositions succeed exactly below p: the subtraction wraps to a number beyond the
bound otherwise). The hash: the sum in a cell is the number whose digits are its elements and never reaches the
native modulus (`CellIsNumber`, `SpanFits`), numbers with equal digits are equal elements (`SameCell`), so
`HashBinds`: the digest of a slice of reduced elements has no other slice of that length. The permutation
is assumed to lose nothing. The extension: `E4Add` and `E4Mul`, which reduce after every operation, are a commutative
ring with `E4Zero` and `E4One` (`E4Commutes`, `E4Associates`, `E4Distributes` and so on). The laws are
proved for polynomials over the integers first, where they are linear in the products, and carried over by
`ByIntegers`: reducing a factor or a summand earlier or later gives the same entry. `InverseNotChosen`, from
`InverseAssumption`: the hint of `E4Inv` takes the norm to a quadratic field and that norm's norm to the base field
and multiplies back by the conjugates. Where the last norm is not zero the result is an inverse
(`NormInverts`), and in a ring no second one passes the assertion; where it is zero no value does
(`NoNormNoInverse`: with the conjugate of an inverse it would give one of the norm). So the hint leaves a prover no choice, and fails only where
there is nothing to find.

**DeepAliProofs, the driver and the step program**, from these, `DeepAssumption` (types of the table of registers and of the squeezed sums) and
`BlockAssumption` (above). `DInv` counts the elements drawn at each step of the driver. Proved, for every
program, table and number of rounds: `ChallengesNotChosen` (`DrawnIsSqueezed`); `WordsTrusted` (past `Ingest` every word
is canonical); `DigestBindsWords` (`DigestBinds`) with `Stamped` (the digest is that of the words, as many as the array
has) as its invariant; `MixesEverything` (`MixIsSum`). The last is the correctness of the step program's interpreter: what it returns, with
constants folded and only two elements kept for each mix register, is the sum of all that the program
asserts, each assertion times the conditions around it and under a power of poly_mix of its own. The property speaks of the
values; `ProgramHolds` adds what makes it inductive: that the evaluations and both banks are typed, that the registers filled are
those the steps so far fill (`Filled`), and that nothing is in the banks before the program starts. `StepMeans`
proves it for each of the opcodes, with `MixedJoins` and `MixedScales`, which are induction over the terms: the sum of two
lists is the first's plus the second's times the power in between, which is what `AndCond` computes.

`WholeProgramChecked` (`EquationHolds`) carries that to the equation: past `Validity` all that the
program asserts, at the evaluations of the words and mixed, equals the check polynomial. The code asserts one register, the
one `ret` names; that it is the last, to which everything leads, follows from the two lengths that `SizesOK`
compares and from the numbers of registers the steps fill (`Filled`). `EquationInv` adds that `evalU` is
`EvalU` of the words while the program runs. `DeepAliTyped` (`TypeOK`) needs more than its property says: `TypeInv` has the
types of the columns, of the check columns once they are there, of the mixed polynomials and of the words of the
rounds, from `TracesAssumption` and by way of the honest prover's definitions (quotient, points, folds, the word of
low degree), each with a lemma for its length. Its invariant of the banks is `ProgramHolds`.

**CardanoWireProofs**, from `CardanoWireAssumption` (what artifacts are: types, and counts that gnark makes
agree). The parsers keep values, the properties speak of cells. `Part(b, g)` joins them: the cells that would be written of the values
`g` of file `b`, complete or not. `CWInv` is `TypeOK` with `Progress` and `Found`. `Progress` says that
`Part` is the beginning of each file and ends where its reader stands, and that each list is as long as its
count and the field that is next require (`Stage`). None of this is in the properties, and without it
they are not inductive: a loop's end is decided by a count read long before, and the canonical form is a statement
about the end of the file only. `Found` carries what each step of `verify` has checked to the steps that index by it.
One value read adds its cells to `Part` in the middle of a nested concatenation, where all that follows is still
empty: `FlatGrow` is that argument once, the `...Grow` lemmas its instances for each loop, and the `...After` lemmas
show that `After` goes where the counts say. Proved: `CWTyped` (`TypeOK`), `CWNoPanic` (`NoPanic`), `CWCanonical`
(`Canonical`: at the end of a file `Part` is the encoder's output).

`CWAccepted` (`AcceptedAsWritten`) compares the verifier's sum with the prover's, in which nothing marks
where the public inputs end. A challenge is at least the two cells of its point, a public input one, and a commitment and
the first point none: so the challenges are found at the same places (`SumPlaces`), hence all the rest (`SumSame`), and the bytes of a
challenge give its public inputs (`ChallengeBinds`). This needs that the verifier accepts at most one commitment, and
that it compared the lengths first.

`CWHonest` (`HonestAccepted`) has an invariant of its own, `HonestInv`: of files nothing has touched, what was read agrees with
what was written (`Agree`: each list is a beginning of the list that was written). That alone does not say
which cells are read next; with `Progress` it does, since the `Part` of a beginning begins the file (`PartPre`), so the cells at the
reader are those of the next value (`NextIs`), which decodes. At the end of the files the lists are whole and every check of
`verify` is an equality of a thing with itself.

**Arithmetic** is what these rest on. The library states induction with an operator for the
predicate, which the installed provers cannot instantiate; here it is stated with a set of numbers
(`SetInduction`: a set that has 0 and with each number the next is all of `Nat`) and recursion with a function of step
functions (`Recursion`, `SameRun`), to which the models' recursive functions are matched one by one.

Only model-checked:

- `FetchEnds` and `EventuallyCached`: liveness; the prover has no rule for fairness and ENABLED.
- `SealLayout`: its constants are the program's own, so the run is the program with its own sizes, and all that
  a seal or a caller can vary is three numbers, of which it takes those beside each one the code names.
- `Sound`, `Bound` and `Complete` of `DeepAli`: that a false equation fails at a drawn point is not true of every
  challenge, only of most, and interpolation over a domain needs theory of polynomials over a
  field. What they rest on, the mix, the equation, the inverses and the digest, is proved.

No module that is proved about uses a RECURSIVE operator.

## 5. Not modelled

- The Poseidon permutation and its constants: 255-bit field arithmetic is out of TLC's
  reach, and over a small field a hash of few states collides, so that nothing said of a
  digest would hold. Hashes are symbolic or lossless.
- The generated tables (`taps.json`, `polyext_def.json`) and the constants typed in from RISC0:
  data, which `tools/verify_constants.sh` compares with its source. `DeepAli` is about the code
  that interprets them.
- `verify`, `verify-circuit`, `circuit-id`, `emit-ccs`, the development commands, scripts and
  prototypes: they read, compute and report, and keep no state that others rely on.
- Pairings, hash to field, gnark's prover, setup and emulated field: libraries.
- The number of queries as a matter of security: `Receipt` takes one query on a lie as
  certain to catch it, so fewer queries than the security level needs would not show.
- A prover's choice of the hint in `E4Inv`: the runs compute what the hint should; that the
  assertion leaves no other value is the theorem `InverseNotChosen`.
- Damage to two of the three on-chain files at once, or files of two runs: `CardanoWire`
  damages one file of a set, which is what an interrupted or altered write leaves.
- Two encodings of one seal word (`decodeMont`), sizes of allocations, bytes below the cells of
  `CardanoWire`, and the time at which a beacon is drawn.

## 6. Plan

Done: asset cache, keys directories, ceremony, receipt pass, DEEP-ALI and FRI arithmetic, FRI query (each of
these but `FriFold` with proofs), seal layout, wire format. Left, in this order:

1. The rest of `DeepAli`'s arithmetic that holds for all challenges: that `ComboU` and `FriEvalTaps` of honest
   columns agree with the evaluations.
2. Tiling of `SealLayout` for every layout whose parts are announced in order.
3. A composition of `AssetCache` and `ProverKeys` for the manifest mode, in place of the
   choice `CachedAsset`.
