---------------------------- MODULE CommandLine ----------------------------
(***************************************************************************)
(* One command line, from the buffer the keyboard handler filled to the    *)
(* call it becomes: tokinize_words and the number helpers of kutils.c, the *)
(* checks of diskW and diskR in raxzus_shell.c, and the decimal output of  *)
(* vga.c.                                                                  *)
(*                                                                         *)
(* Characters are small codes, the digits of base Base in one run, with a  *)
(* character on either side of them.  The words are cut out of the buffer  *)
(* in place, one character a step.                                         *)
(***************************************************************************)
EXTENDS Integers, Sequences, SequencesExt, FiniteSetsExt

CONSTANTS
    Base,       \* 10
    MaxLine,    \* characters of a line
    IntLimit,   \* an int is in -IntLimit .. IntLimit - 1 (2^31)
    MaxLba,     \* largest address the disk commands take (2000)
    MaxCount    \* largest sector count they take (255)

NUL   == 0
Space == 1
Quote == 2
Below == 3              \* a character before '0'
Zero  == 4              \* '0'
Above == Zero + Base    \* a character after '9'
Digit == Zero .. Above - 1
Char  == Space .. Above

ASSUME CommandLineAssumption ==
    /\ Base \in Nat /\ Base >= 2
    /\ MaxLine \in Nat /\ IntLimit \in Nat \ {0}
    /\ MaxLba \in 0 .. IntLimit - 1 /\ MaxCount \in 0 .. IntLimit - 1

\* The names of the two disk commands, one character each.
DiskW == <<Above>>
DiskR == <<Below>>

VARIABLES
    input,       \* the buffer: the line, its NUL and what a longer line left
    sim_input,   \* the position tokinize_words is at
    is_string,   \* between two quotes
    argv,        \* where the words start
    pc,          \* "scan", "run" or "done"
    answer,      \* what process_input did
    typed        \* ghost: the line as it was typed

vars == <<input, sim_input, is_string, argv, pc, answer, typed>>

Silent == [kind |-> "none", lba |-> 0, count |-> 0, text |-> <<>>]

Init ==
    /\ typed \in BoundedSeq(Char, MaxLine)
    /\ input = typed \o <<NUL, Above>>
    /\ sim_input = 1 /\ is_string = FALSE /\ argv = <<1>>
    /\ pc = "scan" /\ answer = Silent
-----------------------------------------------------------------------------
(* tokinize_words *)

\* A space outside quotes ends a word: its place gets the NUL.
scan_separator ==
    /\ pc = "scan" /\ input[sim_input] = Space /\ ~is_string
    /\ input' = [input EXCEPT ![sim_input] = NUL]
    /\ sim_input' = sim_input + 1
    /\ argv' = Append(argv, sim_input + 1)
    /\ UNCHANGED <<is_string, pc, answer, typed>>

\* Mutants: a quote only opens; a quote is not stepped over.
scan_char_opens ==
    /\ pc = "scan" /\ input[sim_input] # NUL
    /\ input[sim_input] = Space => is_string
    /\ is_string' = (is_string \/ input[sim_input] = Quote)
    /\ sim_input' = sim_input + 1
    /\ UNCHANGED <<input, argv, pc, answer, typed>>
scan_char_stays ==
    /\ pc = "scan" /\ input[sim_input] # NUL
    /\ input[sim_input] = Space => is_string
    /\ is_string' = (is_string # (input[sim_input] = Quote))
    /\ sim_input' = IF input[sim_input] = Quote THEN sim_input ELSE sim_input + 1
    /\ UNCHANGED <<input, argv, pc, answer, typed>>

\* Any other character belongs to the word; a quote opens or closes a string.
scan_char ==
    /\ pc = "scan" /\ input[sim_input] # NUL
    /\ input[sim_input] = Space => is_string
    /\ is_string' = (is_string # (input[sim_input] = Quote))
    /\ sim_input' = sim_input + 1
    /\ UNCHANGED <<input, argv, pc, answer, typed>>

\* The end of the line.
scan_end ==
    /\ pc = "scan" /\ input[sim_input] = NUL
    /\ pc' = "run"
    /\ UNCHANGED <<input, sim_input, is_string, argv, answer, typed>>
-----------------------------------------------------------------------------
(* Words and numbers. *)

\* The string that starts at a place of the buffer.
StringAt(p) ==
    LET end == Min({i \in p .. Len(input) : input[i] = NUL})
    IN  SubSeq(input, p, end - 1)

\* What 32-bit arithmetic leaves of a number.
Wrap(n) == ((n + IntLimit) % (2 * IntLimit)) - IntLimit

is_valid_number(word) == \A i \in DOMAIN word : word[i] \in Digit

\* Mutant: the code of a digit for its value.
string_to_int_code(word) ==
    LET result[n \in 0 .. Len(word)] ==
            IF n = 0 THEN 0 ELSE Wrap(result[n - 1] * Base + word[n])
    IN  result[Len(word)]

string_to_int(word) ==
    LET result[n \in 0 .. Len(word)] ==
            IF n = 0 THEN 0 ELSE Wrap(result[n - 1] * Base + word[n] - Zero)
    IN  result[Len(word)]

\* The digits the loop of int_to_string stores, the last one first.
Digits[n \in Nat] ==
    IF n = 0 THEN <<>> ELSE <<Zero + (n % Base)>> \o Digits[n \div Base]

\* Mutant: zero is not handled on its own.
int_to_string_no_zero(n) == Reverse(Digits[n])

\* Only numbers that passed the checks of a command are printed; none is negative.
int_to_string(n) == IF n = 0 THEN <<Zero>> ELSE Reverse(Digits[n])
-----------------------------------------------------------------------------
(* process_input *)

\* Mutant: the numbers are only compared with their upper bounds.
CheckUpper ==
    IF ~is_valid_number(StringAt(argv[2])) \/ ~is_valid_number(StringAt(argv[3]))
        THEN "not a number"
    ELSE IF string_to_int(StringAt(argv[2])) > MaxLba THEN "bad address"
    ELSE IF string_to_int(StringAt(argv[3])) > MaxCount THEN "bad count"
    ELSE "ok"

\* The checks both disk commands make, in their order.
Check ==
    IF ~is_valid_number(StringAt(argv[2])) \/ ~is_valid_number(StringAt(argv[3]))
        THEN "not a number"
    ELSE IF string_to_int(StringAt(argv[2])) \notin 0 .. MaxLba THEN "bad address"
    ELSE IF string_to_int(StringAt(argv[3])) \notin 0 .. MaxCount THEN "bad count"
    ELSE "ok"

\* A disk command with that many words; only diskW prints what it was given.
DiskCommand(kind, words) ==
    IF Len(argv) # words THEN [Silent EXCEPT !.kind = "usage"]
    ELSE IF Check # "ok" THEN [Silent EXCEPT !.kind = Check]
    ELSE LET lba == string_to_int(StringAt(argv[2]))
         IN  [kind |-> kind, lba |-> lba, count |-> string_to_int(StringAt(argv[3])),
              text |-> IF kind = "write" THEN int_to_string(lba) ELSE <<>>]

process_input ==
    /\ pc = "run"
    /\ answer' = CASE StringAt(argv[1]) = DiskW -> DiskCommand("write", 4)
                   [] StringAt(argv[1]) = DiskR -> DiskCommand("read", 3)
                   [] OTHER -> [Silent EXCEPT !.kind = "other"]
    /\ pc' = "done"
    /\ UNCHANGED <<input, sim_input, is_string, argv, typed>>

Next == scan_separator \/ scan_char \/ scan_end \/ process_input

\* The handler runs on: interrupts are off.
Spec == Init /\ [][Next]_vars /\ WF_vars(Next)
-----------------------------------------------------------------------------
(* Properties. *)

\* The scan stays inside the line and its NUL, and every word starts there.
TypeOK ==
    /\ input \in Seq(Char \cup {NUL}) /\ Len(input) = Len(typed) + 2
    /\ sim_input \in 1 .. Len(typed) + 1
    /\ is_string \in BOOLEAN
    /\ argv \in Seq(1 .. Len(typed) + 1)
    /\ pc \in {"scan", "run", "done"}
    /\ answer.lba \in 0 .. MaxLba /\ answer.count \in 0 .. MaxCount

\* Reference: the spaces with an even number of quotes before them separate
\* words, and nothing else does.
Separators ==
    {i \in DOMAIN typed :
        /\ typed[i] = Space
        /\ Quantify(1 .. i - 1, LAMBDA j : typed[j] = Quote) % 2 = 0}
Words ==
    LET starts == {1} \cup {i + 1 : i \in Separators}
        ends   == Separators \cup {Len(typed) + 1}
    IN  [k \in 1 .. Cardinality(starts) |->
            LET start == CHOOSE p \in starts : Quantify(starts, LAMBDA q : q < p) = k - 1
            IN  SubSeq(typed, start, Min({e \in ends : e >= start}) - 1)]

\* Reference: the value of a numeral, among all numbers.
Value(word) ==
    LET value[n \in 0 .. Len(word)] ==
            IF n = 0 THEN 0 ELSE Base * value[n - 1] + (word[n] - Zero)
    IN  value[Len(word)]

\* tokinize_words: the strings behind argv are the words of the typed line, cut
\* in place, all of them and in order, empty ones between two spaces included.
ArgvExact == pc # "scan" => [k \in DOMAIN argv |-> StringAt(argv[k])] = Words

\* The words of a line that diskW takes, with numbers that fit in an int.
Numeral(word) == \A i \in DOMAIN word : word[i] \in Digit
Fits(word)    == Numeral(word) => Value(word) < IntLimit
GoodWrite ==
    /\ Len(Words) = 4 /\ Words[1] = DiskW
    /\ Numeral(Words[2]) /\ Value(Words[2]) <= MaxLba
    /\ Numeral(Words[3]) /\ Value(Words[3]) <= MaxCount

\* diskW writes for exactly the lines that ask for it, at the address and with
\* the count that were typed, as long as the numbers fit in an int.
WriteAsTyped ==
    pc = "done" /\ (\A k \in DOMAIN Words : Fits(Words[k])) =>
        /\ (answer.kind = "write") <=> GoodWrite
        /\ GoodWrite => answer.lba = Value(Words[2]) /\ answer.count = Value(Words[3])

\* The address in the success message is the one written to, in its shortest form.
MessageTrue ==
    answer.kind = "write" =>
        /\ answer.text # <<>> /\ Numeral(answer.text)
        /\ Value(answer.text) = answer.lba
        /\ answer.text[1] = Zero => Len(answer.text) = 1

\* Every line is answered.
LineAnswered == <>(pc = "done")
=============================================================================
