# Verification of fpga_perfect_hash

fpga_perfect_hash is a C++ header library with command line tools that look for
perfect hashes for FPGAs: a hash of wO bits, every bit a small look-up table
addressed by a few "taps" of a wI-bit key, under which no two keys of a given
set collide. This directory holds TLA+ models of the code, the TLC
configurations that check them on small instances, and proofs checked by TLAPS.

## 1. Inventory

The programs are sequential; the only asynchronous event is the SIGXCPU handler
of the solver front ends. What is hard is incremental state (caches that must
follow a data structure that others write), undo, early exits, random choices
that no test enumerates, an encoding into SAT, output that is buffered when a
signal comes, and texts that the tools exchange.

| component | state | operations | interacts with | what makes it correct |
|---|---|---|---|---|
| BitHash, bit_vector (`include/bit_hash.hpp`, `bit_vector.hpp`) | selectors and lut of every table; key bits with don't-cares | look-up, `is_solution`, variants, order, parse, print | everything | `is_solution` accepts exactly the perfect hashes; a text means what was printed |
| key_value_set | the entries, widths, `m_maxHash` | parse, print, `setMaxHash`, random sets | all tools | keys of one set never overlap, and survive printing and parsing |
| EntryToKey (`bit_hash_anneal.hpp` 26-267) | reference to a hash; `bits`, `keys`, `hashes`, `counts`, `packedBits` | constructor, `sync`, `flipBit`, `eval`, `evalFull` | every local search flips bits through it and also assigns to the hash behind its back | caches coherent, vectors indexed within bounds, `eval` = `evalFull` |
| local moves (`bit_hash_anneal.hpp` 295-621) | best move so far | `perturbHash`, `greedyOneBit` ... `greedyFourBitFast` | EntryToKey | result no worse than the argument, and best of the neighbourhood |
| solver_anneal | current and best hashes, their scores, undo stack, tries | flip, judge, accept, reject, restart | EntryToKey | undo is exact, best is never lost, terminates |
| solver_grasp, relink (`bit_hash_relink.hpp`) | elite pool, current hash | `randomised_greedy`, `relink_path` | EntryToKey | no better hash is passed by; the walk reaches its target; the pool keeps the best |
| CNF (`bit_hash_cnf.hpp`, `cnf_helpers.hpp`, `solver_cnf.hpp`) | clauses, map from lut bits to variables | `to_cnf`, `minisat_solve`, `substitute`, `solve_cnf` | minisat | models of the clauses = solutions |
| polish | partially unbound hash | unbind, re-solve | CNF | result is a solution, or the argument unchanged |
| naboo (`naboo_fpga_hash.cpp`, `bit_hash_history.hpp`) | tabu queue and counting filter | step, add, evict, restart | EntryToKey | no tabu hash is entered again; counters in step with the queue; best is kept |
| tap selection (`shuffle.hpp`, `weighted_shuffle.hpp`) | tap sets | `makeRandomShuffle`, `makeWeightedRandomShuffle` | hash constructors | the taps can tell any two keys apart; it terminates |
| front ends (`src/tools`) | options, result row, limits, buffers | `main`, SIGXCPU handler | solvers | log, exit status and printed hash agree |
| code generators (`bit_hash_cpp.hpp`, `bit_hash_vhdl.hpp`) | none | print hash, hit, lookup, test | BitHash | the generated programs answer as the hash and the key set do |
| input generator (`generate_random_hash_input.cpp`) | the set so far | draw, print | key_value_set | no overlaps; it terminates |
| minisat | vendored | solve | CNF | external |

PROJECT.json lists the same components with what is and is not modelled, and
under "hazards" the places where this code can go wrong in ways that a test
would hardly reach, each with the properties that cover it.

## 2. Modules

| module | models | builds on |
|---|---|---|
| `BitHash` | the hash, its look-up, don't-care variants, `is_solution` | `Widths` |
| `HashProblem` | a hash and the concrete keys it has to hash, `evalFull` | `BitHash` |
| `CollisionScore` | abstract specification: a changeable hash that answers with its collision histogram | `HashProblem` |
| `EntryToKey` | the incremental caches, one action per vector access phase of `flipBit` | `HashProblem`; implements `CollisionScore` |
| `SolverAnneal` | `solver_anneal` | `HashProblem` |
| `SolverGrasp` | `solver_grasp` with `randomised_greedy` and `relink_path` | `HashProblem` |
| `GreedyMoves`, `LocalSearch` | the local moves; any sequence of them, and the search of `anneal_fpga_hash` | `HashProblem` |
| `TabuSearch` | abstract specification: a walk that does not enter recent hashes again | `HashProblem` |
| `Naboo` | the tabu search of `naboo_fpga_hash` with its signature filter | `HashProblem`; implements `TabuSearch` |
| `ToCnf` | the clauses that `to_cnf` builds, `substitute`, `minisat_solve` | `BitHash` |
| `SolveCnf` | `solve_cnf` | an instance of `ToCnf` for every problem and choice of taps; `Widths` |
| `Polish` | `bit_hash_polish` | `ToCnf` |
| `Shuffle` | the choice of taps, plain and weighted | - |
| `ResultLog` | the log and cout with their buffers | - |
| `FindFpgaHash`, `PerfectFpgaHash` | the two solver processes, with the signal at any point | `ResultLog` |
| `FrontEnds` | the process that a script starts: either of them, and what the script relies on | an instance of each, on shared variables |
| `KeyValueSet` | overlaps, order, text and parsing of vectors and key sets | `BitHash` |
| `Generated` | the arrays and functions of the generated C++ and VHDL, and their tests | `KeyValueSet` |
| `WriteFpgaHash` | the chain of tools: generator or user, `find_fpga_hash`, `write_fpga_hash_*`, the generated test | `Generated` |
| `BitHashProofs` | lemmas that several components need | `BitHash`, TLAPS |
| `EntryToKeyProofs`, `SolverGraspProofs`, `LocalSearchProofs`, `NabooProofs` | theorems of one component | the module of that name |
| `CnfProofs` | theorems of `ToCnf`, `SolveCnf` and `Polish` | these |
| `ToolProofs` | theorems of `Shuffle` and `FrontEnds` | these |
| `AnnealChainProofs` | theorems of `SolverAnneal` and `WriteFpgaHash` | these |
| `MC*` | constants for TLC | the module of that name |

**Representation.** An unsigned that packs bits (a key, an address, a hash) is
the function from bit position to bit. Packing is injective as long as addresses
and hashes are narrower than an unsigned, which the code needs too (`1<<wO`), and
keys no wider; XOR with a mask is then the flip of a component. Where keys or values
reach or exceed the width of an unsigned, which the tools accept, the chain of tools
models what becomes of them (`word` in `WriteFpgaHash`). A lut entry is a pair of its table and its
address. Scores are `double` in the code but always small integers.
`BitHash::distance` (bit_hash.hpp:197) is left out: it names a member that
tables do not have, and nothing calls it.

**EntryToKey.** The variables are the members of the struct, plus the program
counter and locals of a call of `flipBit`. `BeginFlip` is lines 177-184,
`RemoveOld` and `AddNew` the two halves of the loop body, `EndFlip` the return.
`Assign` is a search writing to the hash behind the caches (`et.bh = ...`,
`solCurr = ...`), after which every caller in the code calls `sync`. All the
searches below represent an EntryToKey by the hash that its caches describe,
which is what the properties of this module justify.

**SolverAnneal.** One action per stage of the loop. The hash that the caches
describe (`view`) is kept apart from `solCurr`, which the restart overwrites.
Random draws are choices. The temperature is left out: a worse move may be
accepted or rejected at any time, and any level may be the one that restarts;
the only fact about probabilities that is kept is that an improvement has
probability 1.0 and `udist` never draws 1.0. `sel` (line 132) is uninitialised
and taken modulo the size of `solBest`, which is 1.

**SolverGrasp.** One action for the random start, for a step of each walk and for
what `solver_grasp` does with the result. A flip that is tried and undone is part
of the step that tries it. `alpha` is left out: the moves that remain are those
that some alpha leaves. The moves are sorted by score and then by bit, so the
first of them does not depend on `offset`, against the comment on line 31 of
`bit_hash_relink.hpp`. Among elites of the same worst score any may be evicted.
`tries` is never incremented, so `maxTries` has no effect, the clock is looked at
after every try, and the function ends by a solution or by time. `MaxElites` and
`NoIncreases` stand for the constants 20 and 1000 of the code.

**GreedyMoves and LocalSearch.** A greedy function is represented by the tuples
of bits that its nested loops go through, which differ between functions of the
same name and depth: `greedyTwoBitFast` ends before the last bit (line 497,
unlike the same loops on line 308), and `greedyThreeBit` increments `j` in the
loop over `k` (line 528), so that it tries only the first bit of a table with the
one after it. In `LocalSearch` they act on one hash (`pc = "moves"`) in any
order; with `pc = "loop"` it is the search of `anneal_fpga_hash.cpp`, whose
limits 100, 1000 and 10000 on failures are `Patience`.

**Naboo and TabuSearch.** A signature word is represented by the slot of the
filter that it selects, a set of slot bits, because folding a word to a slot and
combining words are both XORs (`Mix`). `Try` is one turn of the loop: the best
allowed flip, the new signature, eviction and addition, and the comparison with
the best hash. The asserts on the counters are ends of their own (`underflow`,
`overflow`), and so is the error exit when every neighbour is tabu (`stuck`).
`recent` is auxiliary: the hashes behind the queued signatures. `TabuSearch` has
neither signatures nor counters.

**ToCnf.** A variable is the lut entry that it decides, a literal a pair of an
entry and a value, a clause a set of literals. The doubling and pruning of
clauses in the pair loop is stated by its result: one clause for every way to
say, table by table, which value the two entries must not share. minisat's own
numbering matters only for the clauses about don't-cares, which confuse it
(`Meant`): such a clause may constrain other entries than intended, or have a
literal whose variable does not exist. minisat then reads outside its arrays; the
outcomes modelled are that the clause is dropped, that it loses the literal, and
a crash. The fresh variables of `cnf_expr_t` are functions of the others and
left out. minisat itself is external: `minisat_solve` is the set of models.

**SolveCnf.** One action per step of the loop body. `m_maxHash` is not
initialised when neither `--max-hash` nor `--minimal` is given, so the bound is
any of a set. The problem and the taps are variables, and the operators of
`ToCnf` come from an instance with those substituted. Both ways to draw the taps (`makeBitHash`,
`makeWeightedBitHash`) are a choice from `TapChoices`.

**Polish.** `Unbind` is the part of a level up to the encoding: a prefix of the
clash entries in the order of their counts, ties open because `std::sort` is not
stable, and a set of further entries that the draws and the two breaks allow.
`Levels` is the sequence of the rounded up values of `todo`. Keys are concrete,
because `bh(kv.first)` throws on others.

**Shuffle.** The taps of a table are their set, because they are sorted and have
no repeats. Entropy is abstracted to what decides here, whether a key bit has
both values. The default method of the tools is compared with one name in
`solver_cnf.hpp:40` and with another in `perfect_fpga_hash.cpp`, so a
weighted draw is asked for under two names (`Defaults`).

**Front ends.** One action per statement that writes, flushes, sets a limit or
leaves. What a solver does is a choice and may take for ever. The SIGXCPU
handler may run between any two actions and uses the same streams; in
`FindFpgaHash` a flush is two actions, so that the handler can find a buffer
already written but not yet forgotten. The log of `perfect_fpga_hash` is
static, is not flushed after its row, and is closed before cout is. `FrontEnds`
has the variables of both processes; `tool` says which one runs, and the other's
own variables do not change. `LastRow` says what a reader finds at the end of the
log: a whole row with this result.

**KeyValueSet, Generated and WriteFpgaHash.** A vector is a function to 0, 1 or
-1 without leading zeros, its text a sequence of digits, most significant first.
The order in which a `std::map` is walked is `InOrder`, which puts at place r the
key that has r-1 others before it by `operator<`; the rows of the generated test
are ordered in the same way (`Ranked`), by key and then by variant.
`WriteFpgaHash` passes only texts between the tools. The generator's
two distributions are choices of the width and digits of a key, and its target may be
0, as a low load factor makes it; what the search finds is any solution among
`Candidates`, or nothing (`GiveUp`). A value with a don't-care has no number:
`to_unsigned` throws, and no program is written (`WriteNothing`).

The width of an unsigned is the variable `word`, any of `WordSizes`; it does not
change. `number` is the number that a vector stands for, `to_unsigned(x, w)` what
the function of that name may return where an unsigned has w bits: the number if x has
no more, and else its low bits with anything or-ed on them, because a bit above is
shifted by the width or more, which is undefined (bit_vector.hpp:208). `shifted(w)`
is `1<<wI` in the same way: 2^wI if keys are narrower than an unsigned, and one of
`Overshifts` if they have as many bits, as the input generator (`--wi` up to 32) and
`write_cpp_hit` (line 46) allow. That is the sentinel of the tags, the bound of the test's
loop, the key of its last row, and what `BitHash::operator()` asserts about a key
(`AssertHolds`, `Abort`). The assertions are on in a build without a type; in one
with `NDEBUG` the tools go on as they do where the shift gives more than the size of
any key. Keys wider than an unsigned are left out: neither the generator
nor `write_cpp_hit` takes them.

`CppPrograms` and `VhdlPrograms` are the programs that may be written: the arrays of
the texts, one for each outcome of the undefined shifts, which the writer meets
separately in the table and in the rows of the test. `CppTest` is one iteration of
the loop of the generated C++ test. `Poison` stands for what an unused row of a
table holds. A VHDL design is only written (`written`): its test bench
instantiates `<name>_hit` and declares `<name>_lookup` alone
(bit_hash_vhdl.hpp:264-278), so that no analyser accepts it. `Analysable` says of which
key sets and hashes the design itself is legal.

## 3. Runs

| run | question | instance |
|---|---|---|
| `entry_to_key` | are the caches coherent at every vector access, and the answers those of a fresh evaluation? | 4 keys, 2 tables that share an input |
| `solver_anneal` | is undo exact, is the best never lost, does it end? | every initial hash of 2 tables, 3 keys, 2 tries of 4 flips, a level every try |
| `solver_grasp` | do the walks pass by nothing better, does the pool keep the best, does it end? | every initial hash of a table with 4 entries, 6 keys, 3 to a value, a pool of 3 |
| `local_search` | does a move find what it looks for, are the flags of the search true, does it end? | 4 keys without solution, 2 tables, 64 hashes, 7 tries, patience 0, 1, 2 |
| `naboo` | do queue, filter and search stay in step, is it a tabu search, is the best kept, does it end? | 6 keys on one table, with and without a solution, queue of 3, 8 slots, counters up to 2, 10 tries |
| `solve_cnf` | is the encoding sound and complete, is the bound kept, does the loop end? | 3 concrete keys, and 3 keys one of which has a don't-care; 2 ways to wire 2 tables, all bounds, `maxTries` 3 |
| `polish` | the result, undecided entries, hopeless levels, termination | 4 concrete keys, 16 hashes, 2 of them perfect, all 12 levels |
| `shuffle` | do the taps separate the keys, are tables sorted, when does it crash, does it end? | all problems of up to 3 keys of 3 bits, 1 or 2 taps, 2 or 3 tables or as many as needed |
| `front_ends` | do status, log and output agree, and does a time limit end the process? | every solver outcome, exception, buffering and signal, 2 attempts |
| `write_fpga_hash` | do key sets survive the chain of tools, what do the programs at its end answer, and does their test tell? | 2-bit keys and hashes, values of up to 4 bits, an unsigned of 2 or 3; see below |
| `solve_cnf_variants`, `solve_cnf_minimal` | findings, see below | 5 keys and 3 tables; 3 keys and a bound of 3 |

**Why the bounds are enough.** The code treats tables, keys and entries alike, so
what matters is which of them coincide. With two tables that share an input there
are keys that share the entry of one table and not of the other, entries that
no key reads, hashes on which three keys collide, and taps for which no
solution exists. Two tries of `solver_anneal` are enough for a flip left on the
stack by one try to be seen by the undo of the next; more tries repeat this. In
`solver_grasp` the walk stops at local minima that are no solution, so that the pool
fills, evicts and is relinked to, and with one step of patience it passes minima.
In `local_search` eight hashes are local minima of one flip that two or more flips
improve, so every depth of move has something to find. In `naboo` the queue
evicts, words share slots and cancel out, counters reach their limit, searches run
out of moves, and a level is two tries, so that restarts fall between additions;
two problems, because one that is solved hardly ever gets that far. Three
values of `tries` in `solve_cnf` have the loop end by a solution and by the
limit. The levels of `bit_hash_polish` are the actual ones for the eight entries
of the instance. In `shuffle` three keys of three bits give bits that are
constant, needed, or above the width of the key set, and tables with fewer bits
to draw from than taps. In `write_fpga_hash` the key sets are all that the
generator draws for targets of 0 to 4 keys, with values of two bits, and all texts
of a user with no line, with one line of a key of one or two digits and a value of one bit, of
four bits or of a don't-care, or with two lines; the hashes are all solutions that
tell three keys apart, up to the inversion of bits of the hash, and some with an entry left undecided. An unsigned of
three bits is wider than keys and drawn values, and too narrow for a value of
four; one of two bits has the width of a key, where `1<<wI` is undefined. For that,
`Overshifts` has 1, which a processor gives that shifts by the width modulo the
width, and 3, with which every key passes the assertion and the test's loop
stops before the last key.

**Deadlock** is not checked where a function returns or a process ends: its
behaviours end there.

**Fairness** is weak fairness of the steps of the code: one thread, no locks, and
a call either goes on or has returned. Beyond that:

* `solver_grasp`: a clock that is read again and again passes `maxTime` in the end
  (strong fairness, because the model moves the clock only where it is read).
* `solve_cnf` and `bit_hash_polish`: minisat, which is called without a limit,
  comes to an answer.
* `front_ends`: the solver need not return. If there is a time limit, the kernel
  sends the signal once the limit is passed; a solver that does not return uses
  processor time. That a `perfect_fpga_hash` without limit ends is claimed only if minisat
  returns (`Solving`).
* `shuffle` and the key generator: every value is drawn again and again (strong
  fairness of each draw), for the draws are independent and each value has a positive
  probability. For the generator this is claimed of concrete keys only, which the
  tool's check that `probUndefined` is below 1 justifies.

## 4. Findings

Two disagreements have a run:

* The clauses for don't-cares (bit_hash_cnf.hpp:205) use one-based variable
  numbers as zero-based ones and so constrain other entries; a key's variants
  need not share a hash, and `solve_cnf` ends with the exception of its last check
  (`solve_cnf_variants`).
* A minimal hash of n keys may use the hash n (bit_hash_cnf.hpp:332 with
  key_value_set.hpp:100), against notes/minimal.md (`solve_cnf_minimal`).

Others were met while reading the code, and are modelled as they are:

* The clash counts that order the entries to unbind are all 1
  (bit_hash_polish.hpp:39), against the comment on line 24; and a level may unbind
  more entries than its budget (line 134).
* `greedyTwoBitFast` omits the last bit (bit_hash_anneal.hpp:497), `greedyThreeBit`
  most combinations (line 528).
* The default tap method "minisat_weighted" of `find_fpga_hash` (lines 204-205) is
  not the name that `solve_cnf` compares with (solver_cnf.hpp:40), so the default
  is not weighted.
* A problem with a single key has no tables, and the division `i%wO` fails.
* The generated programs miss keys with don't-cares: the mask of such a key comes
  from its first, concrete, variant (bit_hash_cpp.hpp:61), so that the other variants
  are not hit. The generated C++ test has a row for every variant and rightly fails.
* The width of values is taken from the width of keys (bit_hash_cpp.hpp:102,
  bit_hash_vhdl.hpp:143): VHDL cuts values, and for the single key 0 with a value
  `lookup` gives 0 and the generated test fails.
* Values may have up to 64 bits in a key set (`--wv`) and in the table of `lookup`, but go through
  `to_unsigned` (bit_vector.hpp:202-211), which has 32: the upper bits are lost or corrupt the
  lower ones. The expected values of the test go the same way, so that a test may pass.
* With keys of 32 bits the sentinel of the tags (bit_hash_cpp.hpp:51,
  bit_hash_vhdl.hpp:71), the bound of the test's loop and the key of its last row
  (bit_hash_cpp.hpp:170, 173), and the assertion on a key (bit_hash.hpp:150) use a
  shift by 32, which is undefined: an unused tag may be that of a key, the search may
  abort, and the test may end early.
* The generated VHDL test bench instantiates `<name>_hit` but declares only
  `<name>_lookup` (bit_hash_vhdl.hpp:264-278), so that it cannot be analysed. Nor can the design for keys with don't-cares, which names a
  mask that it does not declare (line 130), or for a table with one tap or a hash of one bit,
  where a `std_logic` is assigned to a vector (lines 46-62).
* The generated C++ test returns `true`, an exit status of 1, after "Pass", and
  declares its lookup without the space after the type `long`.
* The loop over hexadecimal digits (bit_vector.hpp:294) is bounded by a count of
  characters where bits are meant, and reads too few digits.
* `generate_random_hash_input` prints its usage for `--verbose` (lines 44-46), and
  the default of `--wv` is 16 where its usage says zero.

## 5. Proofs

The theorems hold for every width, wiring, number of keys, hash and sequence of
levels, under the assumptions in the modules: selectors are inputs
(`BitHashAssumption`), keys are concrete (`HashProblemAssumption`) or there is
one and no two overlap (`ToCnfAssumption`, `KeySetsAssumption`), numbers of flips
and of taps are positive (`SolverAnnealAssumption`, `ShuffleAssumption`), words
are sets of slot bits (`NabooAssumption`), a pool has room for two elites and the
hash a bit to flip (`SolverGraspAssumption`: 20 in the code, and a single key is
solved before the search begins), numbers of tries and of bits are natural
(`FrontEndsAssumption`, `KeyValueSetAssumption`), an undefined shift gives some
number that an unsigned of wI bits holds (`GeneratedAssumption`), a user's text has no digit beyond the widths, and an unsigned has at least the bits
of a key (`WriteFpgaHashAssumption`: `find_fpga_hash` refuses
keys wider than the hash, and `wV` is chosen to cover the values), a hash has the three bits without which the
unsigned bound of a loop underflows (`GreedyMovesAssumption`), limits are numbers
(`LocalSearchAssumption`), and for `Polish` keys are concrete, what is to be polished is decided where keys read
it, and a hash has at least one bit (`PolishAssumption`). The last is also assumed
of `SolveCnf` (`SolveCnfAssumption`): for a single key the empty hash is a solution,
which minisat's answer, the empty map, does not tell from "unsatisfiable".

* **EntryToKey.** `Coherent` together with `TypeOK` is inductive, because
  `Coherent` says of every moment inside `flipBit` what the caches are: those of
  the new hash for the keys that have moved, and of the old one for the rest. The
  argument counts: taking a key off a hash moves it from one fibre of `hashes` to
  none (`FibreMove`), which moves that hash from one fibre of the counters to the
  next (`HistogramMove`). `IndexSafe` follows. The refinement maps the
  abstract answer to `counts` between calls, and shows that every step is an
  abstract step or a stutter (`Implements`). `EvalAlwaysAgrees` compares a sum with
  a cardinality: `eval` sums the excesses of the hashes over `g`, `evalFull`
  counts the keys that find their hash full. Every excess of a hash is as many
  numbers above `g`, so the set of pairs of hash and number (`Excess`) has the size that
  `evalFull` means, and its parts satisfy the recursion of the sum (`IsSum`). That no
  other function does is an induction over finite sets, done without the induction
  theorem: a smallest set on which two such functions differ (`SmallestSubset`) has
  an element to take out.
* **SolverAnneal.** `BestIsKept` is not inductive: an undo goes back over hashes
  that the state no longer shows, and `RejectRestores` needs them to end where
  the try began. The invariant adds that there is a walk back along the flips on top
  of the stack, from the current hash to `before`, which meets no hash better than
  the best one (`Back`). A flip makes the walk longer (`BackGrows`), an undo shorter
  (`BackShrinks`), and a new best hash keeps it (`BackLower`). That a rejected try
  has made all its flips follows from the early break: a try with flips left is
  an improvement, and an improvement is not rejected (`Stage`).
* **SolverGrasp.** `PoolKeepsBest` rests on no elite being better than the best
  hash (`PoolInv`), so that an eviction, which takes away the worst of more than
  one elite, can spare it. `RelinkNoWorse` speaks of the end of a walk; its invariant says
  it of every point on it (`RelinkInv`). The walk ends at its target, which is
  therefore among what it compares: this is the half about the elite.
* **LocalSearch.** The properties are about distances between hashes, the code
  about numbers of bits in nested loops. Numbering the bits by counting those
  before them is a bijection with the order of the bits (`BitsNumbered`), so
  that two hashes at distance one to four differ in the bits of an increasing
  tuple of that length, which is among the tuples of the function
  (`ReachedByOne` ... `ReachedByFour`). What a greedy function returns is no
  worse than its argument under any of its tuples (`GreedyBest`, by a least element
  of the scores), which gives `Thorough`; a function that finds nothing
  leaves the hash alone, so that the flag it sets is true, and whatever changes the hash
  clears the flags (`FlagsHonest`). `NeverWorse` follows for every step.
* **Naboo.** The invariant is `FilterInStep` and `BestIsKept`, with types: it is
  inductive as it stands. Flipping a bit changes the parity of exactly the slot bits in
  its word (`Parity`), so `hash_with_flip` gives the signature of the new hash
  (`FlippedSignature`). Adding a signature adds one place of the queue to the
  words that select a slot, and removing the front shifts the rest by one, a
  bijection (`WordsAdded`, `WordsRemoved`), so the counters keep counting.
  A queued hash then has all its counters above zero, which the filter
  does not allow (`AllowedIsNew`): this is the step of the refinement to
  `TabuSearch`. `ZeroScore` says what a score of 0 means. Only the other
  assertion, that a counter overflows, can fail.
* **ToCnf.** `PairClausesExact`: if all clauses of a pair hold but the hashes are
  equal, the way that avoids the complement of the common value gives a clause
  without a true literal; if the hashes differ in a table, one of its two entries
  makes any clause true. `DifferClausesExact` is the same for all pairs. Both are
  about any wiring, any keys, with don't-cares too, and any lut of which a part is
  decided, because `Polish` and `SolveCnf` use the encoding of different ones.
  `CompareExact`: the constraint that goes through the bits of hash and bound says that the
  hash, as a number, is at most the bound. After bit i it has compared the bits up to
  i (`CompareStep`), which stand for less than the weight of the next (`LowBelow`).
  That number is a sum of powers of 2 in an order that is open. 2^t is the number of
  subsets of t numbers (`Powers`), so the sum is a number of pairs (`Weight`), which
  needs no order (`ValueIsWeight`). The recursive definitions are compared by a least
  argument at which they differ.
* **SolveCnf.** The invariant says that for concrete keys the clauses are those of
  the taps at hand, the clauses for don't-cares being none (`OnlyDiffer`); that what
  is substituted obeys the bound, with don't-cares too; and that it is a solution for
  concrete keys. With an undecided lut and a table there is a variable (`BlankLut`),
  so an empty answer means unsatisfiable, and `EmptyMeansHopeless` gives
  `TapsHopeless`: luts within the bound that were a solution would be an answer.
* **Polish.** The inductive invariant adds to the properties that the argument is
  no solution while levels are tried. So every level unbinds an entry that a key
  reads (`NeverTrivial`), so there is a variable, so an empty answer means
  unsatisfiable; with `DifferClausesExact`, carried over to its own keys and taps
  (`SameEncoding`), this gives `ResultOk` and
  `GivesUpHopeless`.
* **Shuffle.** Every needed bit has a table from the first loop on, and neither
  the draws nor the sorting, which is a bijection of the tables, take it away;
  two keys that do not overlap differ at a needed bit, weighted or not
  (`TapsAlwaysSeparate`). A division by zero needs a hash without tables, which
  only a single key has (`CrashOnlyForSingleKey`). `LargestAlwaysFirst` is about
  the sizes: the needed bits are dealt in turn, the bit at position p to table
  p mod wO (`PositionOnto`, `InRound`), so a table gets no more than an earlier
  one, and at most one less (`EarlierTables`). If the bits fit, drawing fills every
  table up to `PerTable` (`RoomForAll`); if they do not, nothing is drawn
  (`NoRoomForAll`), and the tables are still the dealt ones (`Sizes`). Sorting
  keeps this: tables that were only dealt to are in the order of `Before` already
  (`DealtInOrder`), and filled ones are all of one size.

* **Front ends.** What a script sees is what is in the files once the process is
  gone, so the invariant says of every point of `main` what file and buffer hold
  together (`FindTexts`, `PerfectTexts`): the row so far and the solution so far, for
  a process on its way to success exactly that. Buffers may be written at any time,
  which changes neither (`FlushWrites`, `Putting`). Two places need more. Between
  the halves of a flush the row is in the file and still in the buffer, and the
  handler, which flushes too, writes it twice (`FindFlush`, `FindSignal`): only that
  a whole row is at the end of the file is kept, which is why `LastRowTells` is
  about the last row. And the handler uses the log's context until `main` returns
  (`context`), so that a signal after the row of success adds a row of its own.
  Of a process that has ended, the invariant is the promises themselves.
* **The texts of the chain.** A vector has no zero above its size, so its
  digits are its bits up to there, and parsing gives the vector back, at every width
  that covers it (`PrintedParses`). `operator<` is a strict total order
  (`LessIsOrder`), and the members of a finite set that is so ordered have each a
  different number of others before them (`Placing`), so that the printed set has one
  line for every key (`RankedIsOrdered`, `Printout`). `KeySetKept` follows: what is
  in the entries and what is still in the lines together do not change when a set is
  printed (`FlightPrinted`) or a line parsed (`FlightParsed`). For `Unambiguous`, two
  keys overlap exactly if they share a concrete key (`OverlapIsCommon`), which is
  what `setupProperties` looks for. The generator's keys fit the hashes because each
  covers at least one concrete key and the loop stops at its target; that needs
  `numKeys`, a sum over a set in no particular order, as the size of a set
  (`SumIsPlaces`).
* **The generated programs.** A key is read as a number by the programs, so the proof
  begins with binary numbers: the remainders of n below bit j make up n modulo 2^j
  (`NumberedBits`), hence different numbers have different bits; and there are as
  many vectors of k bits as numbers below 2^k (`BitsCounted`), hence `number` is
  one to one both ways (`NumberOfNumbered`, `NumberedOfNumber`). A vector no wider than an unsigned is read
  as its number (`ReadingIs`). A lut that is printed as one vector
  and parsed is the same lut, address by address (`HashComesBack`). The invariant
  `ProgramInv` then carries the solution through the texts: what is printed, parsed and
  written solves the key set that travels with it (`HashInv`). In a program made of a
  solution, the entry of a key's hash is that key's (`FilledIs`), so the program hits
  the first variants, whatever the shifts give, and nothing else where the sentinel is
  no key (`ProgramsHit`, `MadeInv`); and it finds the values that an unsigned holds (`CppFinds`,
  `VhdlFinds`). For concrete keys the first variant is the only one. For others the mask
  lets nothing but the first variant through, so the program is not right.
  The test is one loop over the numbers with a second index into its rows. Its
  invariant (`InLoop`) says that the rows before the index are all the first variants
  below the number, and that the row at the index is still ahead. A program that is
  right passes every turn (`RightIsFine`), so a test that fails has found one that is
  not; there the rows ascend. With don't-cares
  the rows need not ascend, but a row of another variant of a key comes right after
  a lower one (`RowsWellOrdered`), so that the loop expects it before it gets there
  (`LoopTurns`) and never passes it by; a test that gets to its end has met every row as
  a first variant (`EndingProgram`), so there are no other variants, and every value
  was compared. So `GeneratedAlwaysRight` proves
  both halves: the verdict of a test, with its rows all met, is that on the program. It claims nothing of a
  VHDL design that cannot be analysed, nor of values wider than an unsigned or of what
  is hit where `1<<wI` is undefined, beyond that concrete keys still are.

`BitHashProofs` has what several of these need: that a flip changes one entry and that a
second one undoes it, that every table's addresses and every lut are finite sets, that a
non-empty set of numbers, or of bits in their order, has a least element, a
smallest set with a property, and that 2^t is the number of subsets of t numbers.

The type invariants of `EntryToKey`, `SolverAnneal`, `Polish` and `Shuffle` are
theorems of their own; the invariants of `Naboo`, `SolverGrasp`, `LocalSearch`,
`SolveCnf`, `FrontEnds` and `WriteFpgaHash` contain the types that they need. In the
other modules a value of a wrong type would break a safety property.

Every invariant, action property and refinement of a passing run is the subject of
a theorem. Only model-checked: liveness (`Terminates` of the searches, `SolveTerminates`,
`Ends`, `VerdictReached`), which needs fairness and ENABLED and is out of TLAPS's
reach; and the two findings that are violations of a run.

## 6. Limits

The searches, the encoding, the processes and the chain of tools are modelled, and what
the runs check of them for safety is proved. What a change of the code would have to
be held against next is below.

**Not modelled, and why.** minisat (vendored) is an external choice where it is
called. `family_hash.hpp` is a stub that no tool includes. Of
`anneal_fpga_hash_v2.cpp` the main (141-268) is an older copy of `solver_anneal`,
and `random_fpga_hash.cpp` (127-151) draws hashes until one is good; modelling
them would repeat `SolverAnneal` and say nothing new. `polish_fpga_hash.cpp` around
`bit_hash_polish` reads and prints. Also left out are prototypes, tests and
build files, option parsing, layout and wording of what is printed, the generated VHDL test
bench, which has no behaviour (section 4), keys of more than 32 bits, hexadecimal
and decimal digits, times except for the decision to stop, and real-valued probabilities.
