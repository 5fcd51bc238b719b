--------------------------- MODULE WriteFpgaHash ---------------------------
(***************************************************************************)
(* The chain of tools around the search: generate_random_hash_input prints *)
(* a key set, or the user writes one; find_fpga_hash parses it and prints  *)
(* a BitHash that solves it, followed by the key set; write_fpga_hash_cpp  *)
(* or write_fpga_hash_vhdl parses both and writes the hash as a program    *)
(* with its test, which then runs.  The tools share nothing but the texts  *)
(* that they print.                                                        *)
(***************************************************************************)
EXTENDS Generated

CONSTANTS DrawnValues,   \* the values that the generator's random bits give
          UserLines,     \* the key sets, as texts, that a user may write
          Candidates,    \* the contents of tables that the search comes up with
          WordSizes      \* the numbers of bits that an unsigned may have

\* A text whose digits beyond the width n are zeros.
Fits(s, n) == \A i \in DOMAIN s : s[i] # 0 => Len(s) - i < n

\* wI and wV cover the keys and the values; find_fpga_hash refuses wider keys.  Keys
\* are no wider than an unsigned, or write_cpp_hit() throws; values may be.
ASSUME WriteFpgaHashAssumption ==
    /\ DrawnValues \subseteq Values
    /\ UserLines \subseteq Seq(Seq({-1, 0, 1}) \X Seq({-1, 0, 1}))
    /\ \A text \in UserLines :
          \A m \in DOMAIN text : Fits(text[m][1], wI) /\ Fits(text[m][2], wV)
    /\ Candidates \subseteq PartialLuts
    /\ WordSizes \subseteq Nat /\ \A w \in WordSizes : wI <= w

VARIABLES word,     \* the number of bits of an unsigned where the tools run
          stage,    \* what is being done
          target,   \* generator: the number of concrete keys to cover
          undef,    \* generator: is probUndefined above 0?
          lines,    \* the lines of the key set on their way to a parser
          entries,  \* the key set of the tool that runs, a map
          luts,     \* the printed BitHash: for each table the text of its lut
          lut,      \* the BitHash of the tool that runs
          program,  \* the generated program, its arrays
          tested, curr   \* test: the key tested, and the row expected next

chainVars == <<word, stage, target, undef, lines, entries, luts, lut, program, tested, curr>>

NoLuts == <<>>

\* The generator starts, or find_fpga_hash with a key set of the user's.
ChainInit ==
    /\ word \in WordSizes
    /\ \/ /\ stage = "draw"
          /\ target \in 0 .. 2^(IF wO < wI THEN wO ELSE wI)
          /\ undef \in BOOLEAN
          /\ lines = <<>>
       \/ /\ stage = "parse"
          /\ target = 0 /\ undef = FALSE
          /\ lines \in UserLines
    /\ entries = NoEntries
    /\ luts = NoLuts /\ lut = NoLuts
    /\ program = NoLuts
    /\ tested = 0 /\ curr = 1

-----------------------------------------------------------------------------
\* How many concrete keys a key stands for.
NumVariants == [x \in AbstractKeys |-> Cardinality(variants(x))]

\* A mutant: numKeys counts the keys, not their variants.
CoveredOnce == Cardinality(DOMAIN entries)

\* uniform_random_key_value_set() and exponential_random_key_value_set(): the
\* second one draws the width of a key first.
Covered == MapThenSumSet(LAMBDA x : NumVariants[x], DOMAIN entries)

Draw(x) ==
    /\ stage = "draw" /\ Covered < target
    /\ \E w \in 1 .. wI : x \in RandomVectors(w, undef)
    /\ IF \E y \in DOMAIN entries : overlaps(y, x)
       THEN UNCHANGED entries
       ELSE \E v \in DrawnValues : entries' = With(entries, x, v)
    /\ UNCHANGED <<word, stage, target, undef, lines, luts, lut, program, tested, curr>>

\* key_value_set(keys) and problem.print()
PrintKeys ==
    /\ stage = "draw" /\ Covered >= target
    /\ IF Overlapping(entries)
       THEN stage' = "rejected" /\ UNCHANGED <<lines, entries>>
       ELSE stage' = "parse" /\ lines' = print(entries) /\ entries' = NoEntries
    /\ target' = 0 /\ undef' = FALSE
    /\ UNCHANGED <<word, luts, lut, program, tested, curr>>

\* parse_key_value_set(): a line; a second one with the same key is an error.
ParseLine ==
    /\ stage \in {"parse", "reparse"} /\ lines # <<>>
    /\ LET x == parse_bit_vector(Head(lines)[1], wI)
           v == parse_bit_vector(Head(lines)[2], wV)
       IN  IF x \in DOMAIN entries
           THEN stage' = "rejected" /\ UNCHANGED <<lines, entries>>
           ELSE /\ entries' = With(entries, x, v)
                /\ lines' = Tail(lines)
                /\ UNCHANGED stage
    /\ UNCHANGED <<word, target, undef, luts, lut, program, tested, curr>>

\* The end of the text, and setupProperties().
ParseEnd ==
    /\ stage \in {"parse", "reparse"} /\ lines = <<>>
    /\ stage' = IF Overlapping(entries) THEN "rejected"
                ELSE IF stage = "parse" THEN "solve" ELSE "write"
    /\ UNCHANGED <<word, target, undef, lines, entries, luts, lut, program, tested, curr>>

-----------------------------------------------------------------------------
\* The addresses of a table as numbers, and the lut as a vector.
AddressNumbered(t, a) == [j \in DOMAIN Selectors[t] |-> (a \div 2^(j-1)) % 2]

Vector(l, t) ==
    [a \in 0 .. Cardinality(Addresses(t))-1 |-> l[<<t, AddressNumbered(t, a)>>]]

\* BitHash::operator() asserts that a key has fewer bits than 1u<<wI.  The search
\* hashes all variants, the writers only the first one of a key.
FirstVariants == {FirstVariant(x) : x \in DOMAIN entries}

Hashed == IF stage = "solve" THEN UNION {variants(x) : x \in DOMAIN entries}
          ELSE FirstVariants

AssertHolds == \A y \in Hashed : \E bound \in shifted(word) : size(y) < bound

Abort ==
    /\ stage \in {"solve", "write"}
    /\ \E y \in Hashed, bound \in shifted(word) : size(y) >= bound
    /\ stage' = "aborted"
    /\ UNCHANGED <<word, target, undef, lines, entries, luts, lut, program, tested, curr>>

\* The search ends with a solution, decided wherever a key reads it, and
\* BitHash::print() and problem.print() follow; or it gives up.
Decided(l) == \A x \in DOMAIN entries : \A y \in variants(x) : \A t \in Tables :
                  l[<<t, address(t, y)>>] # -1

Solve ==
    /\ stage = "solve" /\ AssertHolds
    /\ \E l \in Candidates :
          /\ Decided(l) /\ is_solution(l, DOMAIN entries)
          /\ luts' = [t \in Tables |-> to_string(Vector(l, t))]
    /\ lines' = print(entries)
    /\ entries' = NoEntries
    /\ stage' = "read"
    /\ UNCHANGED <<word, target, undef, lut, program, tested, curr>>

GiveUp ==
    /\ stage = "solve"
    /\ stage' = "unsolved"
    /\ UNCHANGED <<word, target, undef, lines, entries, luts, lut, program, tested, curr>>

\* parse_bit_hash(), whose addresses are narrower than an unsigned
ReadHash ==
    /\ stage = "read"
    /\ lut' = [b \in LutBits |->
                  parse_bit_vector(luts[b[1]], Cardinality(Addresses(b[1])))[
                      number([j \in 0 .. Len(b[2])-1 |-> b[2][j+1]])]]
    /\ luts' = NoLuts
    /\ stage' = "reparse"
    /\ UNCHANGED <<word, target, undef, lines, entries, program, tested, curr>>

\* write_fpga_hash_cpp and write_fpga_hash_vhdl with --write-test.  to_unsigned()
\* throws for a value with a don't-care; a VHDL table needs no values if no key has
\* a bit.
ConcreteValues == \A x \in DOMAIN entries : is_concrete(entries[x])

WriteCpp ==
    /\ stage = "write" /\ AssertHolds /\ ConcreteValues
    /\ stage' = "cpp_test"
    /\ program' \in CppPrograms(lut, entries, word)
    /\ UNCHANGED <<word, target, undef, lines, entries, luts, lut, tested, curr>>

WriteVhdl ==
    /\ stage = "write" /\ AssertHolds /\ (ConcreteValues \/ getKeyWidth(entries) = 0)
    /\ stage' = "written"
    /\ program' \in VhdlPrograms(lut, entries, word)
    /\ UNCHANGED <<word, target, undef, lines, entries, luts, lut, tested, curr>>

WriteNothing ==
    /\ stage = "write" /\ AssertHolds /\ ~ConcreteValues
    /\ stage' = "refused"
    /\ UNCHANGED <<word, target, undef, lines, entries, luts, lut, program, tested, curr>>

\* One turn of the loop over all keys in the generated main().
CppTest ==
    /\ stage = "cpp_test" /\ tested < program.limit
    /\ IF CppFine(program, program.row[curr], tested)
       THEN /\ curr' = IF tested = program.row[curr].key THEN curr + 1 ELSE curr
            /\ tested' = tested + 1
            /\ UNCHANGED stage
       ELSE stage' = "failed" /\ UNCHANGED <<tested, curr>>
    /\ UNCHANGED <<word, target, undef, lines, entries, luts, lut, program>>

TestEnd ==
    /\ stage = "cpp_test" /\ tested >= program.limit
    /\ stage' = "passed"
    /\ UNCHANGED <<word, target, undef, lines, entries, luts, lut, program, tested, curr>>

Step == \/ PrintKeys \/ ParseLine \/ ParseEnd
        \/ GiveUp \/ Solve \/ Abort \/ ReadHash
        \/ WriteNothing \/ WriteVhdl \/ WriteCpp \/ CppTest \/ TestEnd

ChainNext == Step \/ \E x \in AbstractKeys : Draw(x)

ChainSpec == ChainInit /\ [][ChainNext]_chainVars

\* The tools run to their ends, the search with a solution or without; the random
\* numbers give every key without don't-cares again and again, for the tool
\* insists on probUndefined < 1.
FairChainSpec ==
    /\ ChainSpec
    /\ WF_chainVars(Step)
    /\ \A x \in ConcreteKeys : SF_chainVars(Draw(x))

-----------------------------------------------------------------------------
\* The key set on its way: the entries that a tool has, and those that the
\* lines still to be parsed will add.
LineKeys == {parse_bit_vector(lines[m][1], wI) : m \in DOMAIN lines}

InFlight ==
    [x \in DOMAIN entries \cup LineKeys |->
        IF x \in DOMAIN entries THEN entries[x]
        ELSE LET first == CHOOSE m \in DOMAIN lines :
                             /\ parse_bit_vector(lines[m][1], wI) = x
                             /\ \A k \in 1 .. m-1 :
                                   parse_bit_vector(lines[k][1], wI) # x
             IN  parse_bit_vector(lines[first][2], wV)]

Ambiguous(e) == \E x, y \in DOMAIN e : x # y /\ variants(x) \cap variants(y) # {}

\* No concrete key belongs to two entries of a key set that a tool works with;
\* the generator's have no more keys than there are hashes; and a set is only
\* rejected if its text gives a concrete key to two lines.
Unambiguous ==
    /\ stage \in {"draw", "solve", "write", "cpp_test", "written"} => ~Ambiguous(entries)
    /\ stage = "draw" => Cardinality(DOMAIN entries) <= 2^wO
    /\ stage = "rejected" =>
          \/ Ambiguous(InFlight)
          \/ Cardinality(DOMAIN InFlight) < Cardinality(DOMAIN entries) + Len(lines)

\* Once the generator has drawn a key, printing, trimming, sorting and parsing
\* it, in every tool of the chain, neither lose nor change the key or its value.
KeySetKept ==
    [][\/ InFlight' = InFlight
       \/ stage = "draw" /\ \A x \in DOMAIN InFlight :
             x \in DOMAIN InFlight' /\ InFlight'[x] = InFlight[x]]_chainVars

\* What a generated program should do: hit every variant of every key, hit nothing
\* else, and find a key's value, or the part of it that bits bits hold.
HitsKeys ==
    \A x \in DOMAIN entries : \A y \in variants(x) : hit(program, number(y))

HitsOnlyKeys ==
    \A n \in 0 .. 2^wI-1 : hit(program, n) =>
        \E x \in DOMAIN entries : KeyNumbered(n) \in variants(x)

FindsValues(bits) ==
    \A x \in DOMAIN entries : \A y \in variants(x) :
        lookup(program, number(y)) = number(entries[x]) % 2^bits

IsRight == HitsKeys /\ HitsOnlyKeys /\ FindsValues(wV)

\* An unsigned holds every value.
ValuesFit == \A x \in DOMAIN entries : size(entries[x]) <= word

\* For every solution that the search may print, the C++ program hits keys without
\* don't-cares; it hits nothing else if an unsigned is wider than a key; and it finds
\* the values that an unsigned holds, but for the key of width 0.  So does a VHDL
\* design that can be analysed, with the part of a value that fits the width of a key.
\* Where an unsigned is wide enough for everything, the verdict of the generated C++
\* test is that on the program: it meets its rows in order and passes, having
\* gone through them all, exactly if the program is right.
GeneratedIsRight ==
    /\ stage = "cpp_test" /\ tested = 0 =>
          /\ has_concrete_keys(entries) => HitsKeys
          /\ wI < word => HitsOnlyKeys
          /\ getKeyWidth(entries) > 0 /\ ValuesFit => FindsValues(wV)
    /\ stage = "written" /\ Analysable(entries) =>
          /\ HitsKeys
          /\ wI < word => HitsOnlyKeys
          /\ ValuesFit => FindsValues(getKeyWidth(entries))
    /\ wI < word /\ ValuesFit =>
          /\ stage = "failed" => ~IsRight
          /\ stage = "passed" => IsRight /\ curr = Len(program.row)

\* Every key set is rejected, refused or not solved, aborts a tool, or becomes a VHDL
\* design or a C++ program whose test has a verdict, whatever the generator draws.
VerdictReached ==
    <>(stage \in {"rejected", "unsolved", "aborted", "refused", "written",
                  "passed", "failed"})
=============================================================================
