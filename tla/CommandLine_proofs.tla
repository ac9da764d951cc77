------------------------- MODULE CommandLine_proofs -------------------------
(***************************************************************************)
(* Proofs about the command line, for every line, base, int and limit.     *)
(***************************************************************************)
EXTENDS CommandLine, NumberFacts, SequenceTheorems, FiniteSetTheorems, TLAPS

-----------------------------------------------------------------------------
(* Quotes. *)

\* The quotes before a place of a line.
QuotesBefore(text, i) == {j \in 1 .. i - 1 : text[j] = Quote}
Odd(text, i) == Cardinality(QuotesBefore(text, i)) % 2 = 1

\* The quotes can be counted, and before the first place there are none.
LEMMA QuotesFinite ==
    ASSUME NEW text, NEW i \in Nat
    PROVE  /\ IsFiniteSet(QuotesBefore(text, i))
           /\ Cardinality(QuotesBefore(text, i)) \in Nat
<1>1. IsFiniteSet(1 .. i - 1)
  BY FS_Interval
<1>2. QuotesBefore(text, i) \subseteq 1 .. i - 1
  BY DEF QuotesBefore
<1>3. IsFiniteSet(QuotesBefore(text, i))
  BY <1>1, <1>2, FS_Subset
<1>. QED
  BY <1>3, FS_CardinalityType

\* Before the first character there is no quote.
LEMMA NoQuotesAtStart ==
    ASSUME NEW text
    PROVE  ~Odd(text, 1)
<1>1. QuotesBefore(text, 1) = {}
  BY DEF QuotesBefore
<1>2. Cardinality(QuotesBefore(text, 1)) = 0
  BY <1>1, FS_EmptySet
<1>. QED
  BY <1>2 DEF Odd

\* A step over a quote changes the parity, a step over anything else does not.
LEMMA ParityStep ==
    ASSUME NEW text, NEW i \in Nat, i >= 1
    PROVE  /\ text[i] = Quote => (Odd(text, i + 1) <=> ~Odd(text, i))
           /\ text[i] # Quote => (Odd(text, i + 1) <=> Odd(text, i))
<1>1. CASE text[i] = Quote
  <2>1. QuotesBefore(text, i + 1) = QuotesBefore(text, i) \cup {i}
    BY <1>1 DEF QuotesBefore
  <2>2. i \notin QuotesBefore(text, i)
    BY DEF QuotesBefore
  <2>3. Cardinality(QuotesBefore(text, i + 1)) = Cardinality(QuotesBefore(text, i)) + 1
    BY <2>1, <2>2, QuotesFinite, FS_AddElement
  <2>4. Cardinality(QuotesBefore(text, i)) \in Nat
    BY QuotesFinite
  <2>. QED
    BY <1>1, <2>3, <2>4 DEF Odd
<1>2. CASE text[i] # Quote
  <2>1. QuotesBefore(text, i + 1) = QuotesBefore(text, i)
    BY <1>2 DEF QuotesBefore
  <2>. QED
    BY <1>2, <2>1 DEF Odd
<1>. QED
  BY <1>1, <1>2

\* The separators of the line, by that parity.
LEMMA SeparatorsAre ==
    ASSUME typed \in Seq(Char)
    PROVE  /\ Separators \subseteq 1 .. Len(typed)
           /\ \A i \in 1 .. Len(typed) :
                 i \in Separators <=> typed[i] = Space /\ ~Odd(typed, i)
<1>1. DOMAIN typed = 1 .. Len(typed) /\ Len(typed) \in Nat
  OBVIOUS
<1>2. ASSUME NEW i \in 1 .. Len(typed)
      PROVE  Quantify(1 .. i - 1, LAMBDA j : typed[j] = Quote) % 2 = 0 <=> ~Odd(typed, i)
  <2>1. Quantify(1 .. i - 1, LAMBDA j : typed[j] = Quote) = Cardinality(QuotesBefore(typed, i))
    BY DEF Quantify, QuotesBefore
  <2>2. Cardinality(QuotesBefore(typed, i)) \in Nat
    BY <1>1, QuotesFinite
  <2>. QED
    BY <2>1, <2>2 DEF Odd
<1>. QED
  BY <1>1, <1>2 DEF Separators

-----------------------------------------------------------------------------
(* The inductive invariant. *)

\* The types, with the NUL that stops the scan.
Typed ==
    /\ typed \in Seq(Char)
    /\ input \in Seq(Char \cup {NUL}) /\ Len(input) = Len(typed) + 2
    /\ input[Len(typed) + 1] = NUL
    /\ sim_input \in 1 .. Len(typed) + 1
    /\ is_string \in BOOLEAN
    /\ argv \in Seq(1 .. Len(typed) + 1)
    /\ pc \in {"scan", "run", "done"}
    /\ answer.lba \in 0 .. MaxLba /\ answer.count \in 0 .. MaxCount

\* The flag is the parity of the quotes passed.
ParityKnown == is_string <=> Odd(typed, sim_input)

\* The buffer is the line with NULs for the separators passed.
CutSoFar ==
    \A i \in 1 .. Len(typed) :
        input[i] = IF i < sim_input /\ i \in Separators THEN NUL ELSE typed[i]

\* The starts of the words are behind the separators passed, in their order.
StartsSoFar ==
    /\ Len(argv) >= 1 /\ argv[1] = 1
    /\ \A k \in 1 .. Len(argv) : argv[k] <= sim_input
    /\ \A k \in 2 .. Len(argv) : argv[k] - 1 \in Separators
    /\ \A k, l \in 1 .. Len(argv) : k < l => argv[k] < argv[l]
    /\ \A i \in Separators :
          i < sim_input => \E k \in 2 .. Len(argv) : argv[k] = i + 1

\* The scan ends at the NUL of the line.
ScanComplete == pc # "scan" => sim_input = Len(typed) + 1

IInv == Typed /\ ParityKnown /\ CutSoFar /\ StartsSoFar /\ ScanComplete

\* The buffer as the keyboard handler leaves it satisfies the invariant.
LEMMA InitIInv == Init => IInv
<1>. SUFFICES ASSUME Init PROVE IInv
  OBVIOUS
<1>1. typed \in Seq(Char) /\ Len(typed) \in Nat
  <2>1. PICK m \in 0 .. MaxLine : typed \in [1 .. m -> Char]
    BY DEF Init, BoundedSeq, SeqOf
  <2>2. typed \in Seq(Char)
    BY <2>1, CommandLineAssumption, SeqDef
  <2>. QED
    BY <2>2
<1>2. /\ \A c \in Char : c \in Nat /\ c # NUL
      /\ Above \in Char
  BY CommandLineAssumption DEF Char, Space, Above, Zero, NUL
<1>3. /\ input \in Seq(Char \cup {NUL}) /\ Len(input) = Len(typed) + 2
      /\ input[Len(typed) + 1] = NUL
      /\ \A i \in 1 .. Len(typed) : input[i] = typed[i]
  <2>1. <<NUL, Above>> \in Seq(Char \cup {NUL}) /\ Len(<<NUL, Above>>) = 2 /\ <<NUL, Above>>[1] = NUL
    BY <1>2
  <2>2. typed \in Seq(Char \cup {NUL})
    BY <1>1
  <2>. DEFINE rest == <<NUL, Above>>
  <2>3. rest \in Seq(Char \cup {NUL}) /\ Len(rest) = 2 /\ rest[1] = NUL /\ input = typed \o rest
    BY <2>1 DEF Init
  <2>. HIDE DEF rest
  <2>4. /\ typed \o rest \in Seq(Char \cup {NUL})
        /\ Len(typed \o rest) = Len(typed) + Len(rest)
        /\ \A i \in 1 .. Len(typed) + Len(rest) : (typed \o rest)[i] =
              IF i <= Len(typed) THEN typed[i] ELSE rest[i - Len(typed)]
    BY <2>2, <2>3, ConcatProperties
  <2>5. (typed \o rest)[Len(typed) + 1] = rest[1]
    BY <1>1, <2>3, <2>4
  <2>6. \A i \in 1 .. Len(typed) : (typed \o rest)[i] = typed[i]
    BY <1>1, <2>3, <2>4
  <2>. QED
    BY <2>3, <2>4, <2>5, <2>6
<1>4. Typed
  <2>1. answer.lba \in 0 .. MaxLba /\ answer.count \in 0 .. MaxCount
    BY CommandLineAssumption DEF Init, Silent
  <2>2. argv \in Seq(1 .. Len(typed) + 1)
    BY <1>1 DEF Init
  <2>3. sim_input \in 1 .. Len(typed) + 1
    BY <1>1 DEF Init
  <2>. QED
    BY <1>1, <1>3, <2>1, <2>2, <2>3, Zenon DEF Init, Typed
<1>5. ParityKnown
  BY NoQuotesAtStart DEF Init, ParityKnown
<1>6. CutSoFar
  BY <1>3 DEF Init, CutSoFar
<1>7. StartsSoFar
  BY <1>1, SeparatorsAre DEF Init, StartsSoFar
<1>8. ScanComplete
  BY DEF Init, ScanComplete
<1>. QED
  BY <1>4, <1>5, <1>6, <1>7, <1>8 DEF IInv

\* Separators only depends on the line.
LEMMA SeparatorsKept ==
    ASSUME typed' = typed
    PROVE  Separators' = Separators
BY DEF Separators, Quantify

\* The codes differ, and a character of the line is not the NUL.
LEMMA Codes ==
    /\ Space # NUL /\ Quote # NUL /\ Space # Quote
    /\ NUL \notin Char
BY CommandLineAssumption DEF Space, Quote, NUL, Char, Above, Zero

\* What the scan reads is the typed character, or the NUL behind the line.
LEMMA ScanReads ==
    ASSUME IInv
    PROVE  /\ Len(typed) \in Nat
           /\ input[sim_input] # NUL =>
                 /\ sim_input \in 1 .. Len(typed)
                 /\ input[sim_input] = typed[sim_input]
           /\ input[sim_input] = NUL => sim_input = Len(typed) + 1
<1>1. Len(typed) \in Nat /\ sim_input \in 1 .. Len(typed) + 1
  BY DEF IInv, Typed
<1>2. sim_input \in 1 .. Len(typed) => input[sim_input] = typed[sim_input]
  BY <1>1 DEF IInv, CutSoFar
<1>3. sim_input \in 1 .. Len(typed) => typed[sim_input] \in Char
  BY <1>1 DEF IInv, Typed
<1>4. input[Len(typed) + 1] = NUL
  BY DEF IInv, Typed
<1>. QED
  BY <1>1, <1>2, <1>3, <1>4, Codes

\* Cutting at a space outside quotes keeps the invariant.
LEMMA SeparatorIInv ==
    ASSUME IInv, scan_separator
    PROVE  IInv'
<1>. DEFINE n == Len(typed)
            here == sim_input
<1>1. /\ n \in Nat /\ here \in 1 .. n
      /\ typed[here] = Space /\ input[here] = Space
  BY ScanReads, Codes DEF scan_separator
<1>2. typed' = typed /\ sim_input' = here + 1 /\ is_string' = is_string /\ pc' = pc
  BY DEF scan_separator
<1>3. typed \in Seq(Char) /\ ~Odd(typed, here)
  BY DEF IInv, Typed, ParityKnown, scan_separator
<1>4. here \in Separators /\ Separators \subseteq 1 .. n
  BY <1>1, <1>3, SeparatorsAre
<1>5. Separators' = Separators
  BY <1>2, SeparatorsKept
<1>6. /\ input' \in Seq(Char \cup {NUL}) /\ Len(input') = n + 2
      /\ input'[here] = NUL
      /\ \A i \in 1 .. n + 1 : i # here => input'[i] = input[i]
  <2>1. input \in Seq(Char \cup {NUL}) /\ Len(input) = n + 2
    BY DEF IInv, Typed
  <2>2. input' = [input EXCEPT ![here] = NUL]
    BY DEF scan_separator
  <2>. HIDE DEF n, here
  <2>. QED
    BY <1>1, <2>1, <2>2
<1>7. /\ argv' \in Seq(1 .. n + 1) /\ Len(argv') = Len(argv) + 1
      /\ Len(argv) \in Nat
      /\ argv'[Len(argv) + 1] = here + 1
      /\ \A k \in 1 .. Len(argv) : argv'[k] = argv[k] /\ argv[k] \in 1 .. n + 1
  <2>1. argv \in Seq(1 .. n + 1)
    BY DEF IInv, Typed
  <2>2. argv' = Append(argv, here + 1)
    BY DEF scan_separator
  <2>3. here + 1 \in 1 .. n + 1
    BY <1>1
  <2>. HIDE DEF n, here
  <2>4. /\ Append(argv, here + 1) \in Seq(1 .. n + 1)
        /\ Len(Append(argv, here + 1)) = Len(argv) + 1
        /\ \A i \in 1 .. Len(argv) : Append(argv, here + 1)[i] = argv[i]
        /\ Append(argv, here + 1)[Len(argv) + 1] = here + 1
    BY <2>1, <2>3, AppendProperties
  <2>5. Len(argv) \in Nat /\ \A k \in 1 .. Len(argv) : argv[k] \in 1 .. n + 1
    BY <2>1, ElementOfSeq, LenProperties
  <2>. QED
    BY <2>2, <2>4, <2>5
<1>8. Typed'
  <2>1. input'[n + 1] = NUL
    <3>1. input[n + 1] = NUL
      BY DEF IInv, Typed
    <3>2. n + 1 \in 1 .. n + 1 /\ n + 1 # here
      BY <1>1
    <3>. QED
      BY <1>6, <3>1, <3>2
  <2>2. sim_input' \in 1 .. n + 1
    BY <1>1, <1>2
  <2>3. answer' = answer /\ is_string \in BOOLEAN /\ pc \in {"scan", "run", "done"}
    BY DEF scan_separator, IInv, Typed
  <2>4. answer.lba \in 0 .. MaxLba /\ answer.count \in 0 .. MaxCount
    BY DEF IInv, Typed
  <2>. QED
    BY <1>2, <1>3, <1>6, <1>7, <2>1, <2>2, <2>3, <2>4, Zenon DEF Typed
<1>9. ParityKnown'
  <2>1. typed[here] # Quote
    BY <1>1, Codes
  <2>2. ~Odd(typed, here + 1)
    BY <1>1, <1>3, <2>1, ParityStep
  <2>3. ~is_string
    BY DEF scan_separator
  <2>. QED
    BY <1>2, <2>2, <2>3 DEF ParityKnown
<1>10. CutSoFar'
  <2>. SUFFICES ASSUME NEW i \in 1 .. n
                PROVE  input'[i] = IF i < here + 1 /\ i \in Separators THEN NUL ELSE typed[i]
    BY <1>2, <1>5 DEF CutSoFar
  <2>1. input[i] = IF i < here /\ i \in Separators THEN NUL ELSE typed[i]
    BY DEF IInv, CutSoFar
  <2>2. CASE i = here
    BY <1>1, <1>4, <1>6, <2>2
  <2>3. CASE i # here
    BY <1>1, <1>6, <2>1, <2>3
  <2>. QED
    BY <2>2, <2>3
<1>11. StartsSoFar'
  <2>0. /\ Len(argv) >= 1 /\ argv[1] = 1
        /\ \A k \in 1 .. Len(argv) : argv[k] <= here
        /\ \A k \in 2 .. Len(argv) : argv[k] - 1 \in Separators
        /\ \A k, l \in 1 .. Len(argv) : k < l => argv[k] < argv[l]
        /\ \A i \in Separators :
              i < here => \E k \in 2 .. Len(argv) : argv[k] = i + 1
    BY DEF IInv, StartsSoFar
  <2>a. \A k \in 1 .. Len(argv') : k \in 1 .. Len(argv) \/ k = Len(argv) + 1
    BY <1>7
  <2>1. Len(argv') >= 1 /\ argv'[1] = 1
    BY <1>7, <2>0
  <2>2. ASSUME NEW k \in 1 .. Len(argv') PROVE argv'[k] <= here + 1
    <3>1. CASE k = Len(argv) + 1
      BY <1>1, <1>7, <3>1
    <3>2. CASE k \in 1 .. Len(argv)
      <4>1. argv'[k] = argv[k] /\ argv[k] \in Nat /\ argv[k] <= here
        BY <1>1, <1>7, <2>0, <3>2
      <4>. QED
        BY <1>1, <4>1
    <3>. QED
      BY <2>a, <3>1, <3>2
  <2>3. ASSUME NEW k \in 2 .. Len(argv')
        PROVE  argv'[k] - 1 \in Separators
    <3>1. CASE k = Len(argv) + 1
      <4>1. argv'[k] - 1 = here
        BY <1>1, <1>7, <3>1
      <4>. QED
        BY <1>4, <4>1
    <3>2. CASE k \in 2 .. Len(argv)
      <4>1. k \in 1 .. Len(argv)
        BY <1>7, <3>2
      <4>2. argv'[k] = argv[k]
        BY <1>7, <4>1
      <4>. QED
        BY <2>0, <3>2, <4>2
    <3>. QED
      BY <1>7, <3>1, <3>2
  <2>4. ASSUME NEW k \in 1 .. Len(argv'), NEW l \in 1 .. Len(argv'), k < l
        PROVE  argv'[k] < argv'[l]
    <3>1. k \in 1 .. Len(argv)
      BY <1>7, <2>4
    <3>2. CASE l = Len(argv) + 1
      <4>1. argv'[l] = here + 1 /\ argv'[k] <= here /\ argv'[k] \in Nat
        BY <1>7, <2>0, <3>1, <3>2
      <4>. QED
        BY <1>1, <4>1
    <3>3. CASE l \in 1 .. Len(argv)
      BY <1>7, <2>0, <2>4, <3>1, <3>3
    <3>. QED
      BY <2>a, <3>2, <3>3
  <2>5. ASSUME NEW i \in Separators, i < here + 1
        PROVE  \E k \in 2 .. Len(argv') : argv'[k] = i + 1
    <3>1. CASE i = here
      BY <1>7, <2>0, <3>1
    <3>2. CASE i # here
      <4>1. i < here
        BY <1>1, <1>4, <2>5, <3>2
      <4>2. PICK k \in 2 .. Len(argv) : argv[k] = i + 1
        BY <2>0, <4>1
      <4>. QED
        BY <1>7, <4>2
    <3>. QED
      BY <3>1, <3>2
  <2>. QED
    BY <1>2, <1>5, <2>1, <2>2, <2>3, <2>4, <2>5 DEF StartsSoFar
<1>12. ScanComplete'
  BY <1>2 DEF ScanComplete, scan_separator
<1>. QED
  BY <1>8, <1>9, <1>10, <1>11, <1>12 DEF IInv

\* Stepping over any other character keeps the invariant.
LEMMA CharIInv ==
    ASSUME IInv, scan_char
    PROVE  IInv'
<1>. DEFINE n == Len(typed)
            here == sim_input
<1>1. /\ n \in Nat /\ here \in 1 .. n
      /\ input[here] = typed[here]
  BY ScanReads DEF scan_char
<1>2. /\ typed' = typed /\ sim_input' = here + 1 /\ pc' = pc /\ answer' = answer
      /\ input' = input /\ argv' = argv
  BY DEF scan_char
<1>3. typed \in Seq(Char)
  BY DEF IInv, Typed
<1>4. here \notin Separators /\ Separators \subseteq 1 .. n
  <2>1. typed[here] = Space => Odd(typed, here)
    BY <1>1 DEF scan_char, IInv, ParityKnown
  <2>. QED
    BY <1>1, <1>3, <2>1, SeparatorsAre
<1>5. Separators' = Separators
  BY <1>2, SeparatorsKept
<1>6. is_string' \in BOOLEAN /\ (is_string' <=> Odd(typed, here + 1))
  <2>1. /\ typed[here] = Quote => (Odd(typed, here + 1) <=> ~Odd(typed, here))
        /\ typed[here] # Quote => (Odd(typed, here + 1) <=> Odd(typed, here))
    BY <1>1, ParityStep
  <2>2. is_string <=> Odd(typed, here)
    BY DEF IInv, ParityKnown
  <2>3. is_string \in BOOLEAN
    BY DEF IInv, Typed
  <2>4. is_string' = (is_string # (typed[here] = Quote))
    BY <1>1 DEF scan_char
  <2>5. CASE typed[here] = Quote
    <3>1. is_string' = ~is_string
      BY <2>3, <2>4, <2>5, Zenon
    <3>. QED
      BY <2>1, <2>2, <2>3, <2>5, <3>1, Zenon
  <2>6. CASE typed[here] # Quote
    <3>1. is_string' = is_string
      BY <2>3, <2>4, <2>6, Zenon
    <3>. QED
      BY <2>1, <2>2, <2>3, <2>6, <3>1, Zenon
  <2>. QED
    BY <2>5, <2>6
<1>7. Typed'
  <2>1. sim_input' \in 1 .. n + 1
    BY <1>1, <1>2
  <2>. QED
    BY <1>2, <1>6, <2>1, Zenon DEF IInv, Typed
<1>8. ParityKnown'
  BY <1>2, <1>6 DEF ParityKnown
<1>9. CutSoFar'
  <2>. SUFFICES ASSUME NEW i \in 1 .. n
                PROVE  input[i] = IF i < here + 1 /\ i \in Separators THEN NUL ELSE typed[i]
    BY <1>2, <1>5 DEF CutSoFar
  <2>1. input[i] = IF i < here /\ i \in Separators THEN NUL ELSE typed[i]
    BY DEF IInv, CutSoFar
  <2>. QED
    BY <1>1, <1>4, <2>1
<1>10. StartsSoFar'
  <2>0. /\ Len(argv) >= 1 /\ argv[1] = 1
        /\ \A k \in 1 .. Len(argv) : argv[k] <= here
        /\ \A k \in 2 .. Len(argv) : argv[k] - 1 \in Separators
        /\ \A k, l \in 1 .. Len(argv) : k < l => argv[k] < argv[l]
        /\ \A i \in Separators :
              i < here => \E k \in 2 .. Len(argv) : argv[k] = i + 1
    BY DEF IInv, StartsSoFar
  <2>1. \A k \in 1 .. Len(argv) : argv[k] <= here + 1
    BY <1>1, <2>0 DEF IInv, Typed
  <2>2. \A i \in Separators : i < here + 1 => i < here
    BY <1>1, <1>4
  <2>. QED
    BY <1>2, <1>5, <2>0, <2>1, <2>2 DEF StartsSoFar
<1>11. ScanComplete'
  BY <1>2 DEF ScanComplete, scan_char
<1>. QED
  BY <1>7, <1>8, <1>9, <1>10, <1>11 DEF IInv

\* The scan stops at the NUL of the line and nowhere else.
LEMMA EndIInv ==
    ASSUME IInv, scan_end
    PROVE  IInv'
<1>1. sim_input = Len(typed) + 1
  BY ScanReads DEF scan_end
<1>2. /\ typed' = typed /\ sim_input' = sim_input /\ answer' = answer
      /\ input' = input /\ argv' = argv /\ is_string' = is_string /\ pc' = "run"
  BY DEF scan_end
<1>3. Separators' = Separators
  BY <1>2, SeparatorsKept
<1>4. Typed'
  BY <1>2, Zenon DEF IInv, Typed
<1>5. ParityKnown' /\ CutSoFar' /\ StartsSoFar' /\ ScanComplete'
  BY <1>1, <1>2, <1>3
  DEF IInv, ParityKnown, CutSoFar, StartsSoFar, ScanComplete
<1>. QED
  BY <1>4, <1>5 DEF IInv

\* What a disk command asks of the drive is within its limits.
LEMMA CommandInLimits ==
    ASSUME NEW kind, NEW words
    PROVE  /\ DiskCommand(kind, words).lba \in 0 .. MaxLba
           /\ DiskCommand(kind, words).count \in 0 .. MaxCount
<1>1. 0 \in 0 .. MaxLba /\ 0 \in 0 .. MaxCount
  BY CommandLineAssumption
<1>2. Check = "ok" => /\ string_to_int(StringAt(argv[2])) \in 0 .. MaxLba
                      /\ string_to_int(StringAt(argv[3])) \in 0 .. MaxCount
  BY DEF Check
<1>3. \A k : [Silent EXCEPT !.kind = k].lba = 0 /\ [Silent EXCEPT !.kind = k].count = 0
  BY DEF Silent
<1>4. CASE Len(argv) # words
  BY <1>1, <1>3, <1>4, Zenon DEF DiskCommand
<1>5. CASE Len(argv) = words /\ Check # "ok"
  BY <1>1, <1>3, <1>5, Zenon DEF DiskCommand
<1>6. CASE Len(argv) = words /\ Check = "ok"
  BY <1>2, <1>6 DEF DiskCommand
<1>. QED
  BY <1>4, <1>5, <1>6

\* Running the command keeps the invariant.
LEMMA InputIInv ==
    ASSUME IInv, process_input
    PROVE  IInv'
<1>1. /\ typed' = typed /\ sim_input' = sim_input /\ pc' = "done"
      /\ input' = input /\ argv' = argv /\ is_string' = is_string
  BY DEF process_input
<1>2. Separators' = Separators
  BY <1>1, SeparatorsKept
<1>3. answer'.lba \in 0 .. MaxLba /\ answer'.count \in 0 .. MaxCount
  <2>1. /\ [Silent EXCEPT !.kind = "other"].lba \in 0 .. MaxLba
        /\ [Silent EXCEPT !.kind = "other"].count \in 0 .. MaxCount
    BY CommandLineAssumption DEF Silent
  <2>2. \/ answer' = DiskCommand("write", 4)
        \/ answer' = DiskCommand("read", 3)
        \/ answer' = [Silent EXCEPT !.kind = "other"]
    <3>1. CASE StringAt(argv[1]) = DiskW
      <4>1. StringAt(argv[1]) # DiskR
        BY <3>1, CommandLineAssumption DEF DiskW, DiskR, Above, Below, Zero
      <4>. QED
        BY <3>1, <4>1, Zenon DEF process_input
    <3>2. CASE StringAt(argv[1]) # DiskW
      BY <3>2, Zenon DEF process_input
    <3>. QED
      BY <3>1, <3>2
  <2>. QED
    BY <2>1, <2>2, CommandInLimits
<1>4. Typed'
  BY <1>1, <1>3, Zenon DEF IInv, Typed
<1>5. ParityKnown' /\ CutSoFar' /\ StartsSoFar' /\ ScanComplete'
  BY <1>1, <1>2
  DEF IInv, ParityKnown, CutSoFar, StartsSoFar, ScanComplete, process_input
<1>. QED
  BY <1>4, <1>5 DEF IInv

\* Every step keeps the invariant.
LEMMA NextIInv ==
    ASSUME IInv, [Next]_vars
    PROVE  IInv'
<1>1. CASE UNCHANGED vars
  <2>1. Separators' = Separators
    BY <1>1, SeparatorsKept DEF vars
  <2>. QED
    BY <1>1, <2>1
    DEF vars, IInv, Typed, ParityKnown, CutSoFar, StartsSoFar, ScanComplete
<1>. QED
  BY <1>1, SeparatorIInv, CharIInv, EndIInv, InputIInv DEF Next

\* The inductive invariant holds in every state.
THEOREM Invariance == Spec => []IInv
BY InitIInv, NextIInv, PTL DEF Spec

\* The scan stays inside the line and its NUL, and what a disk command asks of
\* the drive is within its limits.
THEOREM TypeCorrect == Spec => []TypeOK
<1>1. IInv => TypeOK
  BY DEF IInv, Typed, TypeOK
<1>. QED
  BY <1>1, Invariance, PTL

-----------------------------------------------------------------------------
(* The words. *)

\* The first k members of an increasing sequence are k numbers.
LEMMA CountIncreasing ==
    ASSUME NEW m \in Nat, NEW a, NEW k \in 0 .. m,
           \A i \in 1 .. m : a[i] \in Nat,
           \A i, j \in 1 .. m : i < j => a[i] < a[j]
    PROVE  Cardinality({a[i] : i \in 1 .. k}) = k
<1>. DEFINE S == {a[i] : i \in 1 .. k}
            f == [i \in 1 .. k |-> a[i]]
<1>1. f \in [1 .. k -> S]
  OBVIOUS
<1>2. \A i, j \in 1 .. k : f[i] = f[j] => i = j
  <2>. SUFFICES ASSUME NEW i \in 1 .. k, NEW j \in 1 .. k, i # j
                PROVE  a[i] # a[j]
    OBVIOUS
  <2>1. i \in 1 .. m /\ j \in 1 .. m /\ (i < j \/ j < i)
    OBVIOUS
  <2>2. a[i] \in Nat /\ a[j] \in Nat /\ (a[i] < a[j] \/ a[j] < a[i])
    BY <2>1
  <2>. QED
    BY <2>2
<1>3. \A x \in S : \E i \in 1 .. k : f[i] = x
  OBVIOUS
<1>. HIDE DEF f, S
<1>4. f \in Bijection(1 .. k, S)
  BY <1>1, <1>2, <1>3 DEF Bijection, Injection, Surjection, IsInjective
<1>5. ExistsBijection(1 .. k, S)
  BY <1>4 DEF ExistsBijection
<1>. QED
  BY <1>5, FS_CountingElements DEF S

\* The member of a set of numbers with k - 1 members below it.
KthOf(S, k) == CHOOSE p \in S : Cardinality({q \in S : q < p}) = k - 1

\* In the set of an increasing sequence that is the kth.
LEMMA KthOfIncreasing ==
    ASSUME NEW m \in Nat, NEW a, NEW k \in 1 .. m, NEW S, S = {a[i] : i \in 1 .. m},
           \A i \in 1 .. m : a[i] \in Nat,
           \A i, j \in 1 .. m : i < j => a[i] < a[j]
    PROVE  KthOf(S, k) = a[k]
<1>1. ASSUME NEW j \in 1 .. m
      PROVE  Cardinality({q \in S : q < a[j]}) = j - 1
  <2>1. ASSUME NEW i \in 1 .. m
        PROVE  a[i] < a[j] <=> i < j
    <3>1. a[i] \in Nat /\ a[j] \in Nat /\ (i < j => a[i] < a[j]) /\ (j < i => a[j] < a[i])
      OBVIOUS
    <3>2. i = j => a[i] = a[j]
      OBVIOUS
    <3>. QED
      BY <3>1, <3>2
  <2>2. {q \in S : q < a[j]} = {a[i] : i \in 1 .. j - 1}
    <3>1. ASSUME NEW q \in S, q < a[j] PROVE q \in {a[i] : i \in 1 .. j - 1}
      <4>1. PICK i \in 1 .. m : q = a[i]
        OBVIOUS
      <4>2. i \in 1 .. j - 1
        BY <2>1, <3>1, <4>1
      <4>. QED
        BY <4>1, <4>2
    <3>2. ASSUME NEW i \in 1 .. j - 1 PROVE a[i] \in S /\ a[i] < a[j]
      <4>1. i \in 1 .. m /\ i < j
        OBVIOUS
      <4>. QED
        BY <2>1, <4>1
    <3>. QED
      BY <3>1, <3>2
  <2>3. j - 1 \in 0 .. m
    OBVIOUS
  <2>. QED
    BY <2>2, <2>3, CountIncreasing
<1>2. a[k] \in S /\ Cardinality({q \in S : q < a[k]}) = k - 1
  BY <1>1
<1>3. ASSUME NEW p \in S, Cardinality({q \in S : q < p}) = k - 1
      PROVE  p = a[k]
  <2>1. PICK j \in 1 .. m : p = a[j]
    OBVIOUS
  <2>2. j - 1 = k - 1
    BY <1>1, <1>3, <2>1
  <2>. QED
    BY <2>1, <2>2
<1>. QED
  BY <1>2, <1>3 DEF KthOf

\* Cutting the same places out of two buffers that agree there.
LEMMA SameSubSeq ==
    ASSUME NEW S, NEW s, NEW t, NEW p \in Int, NEW e \in Int,
           \A i \in p .. e : s[i] \in S /\ s[i] = t[i]
    PROVE  SubSeq(s, p, e) = SubSeq(t, p, e)
<1>. DEFINE u == SubSeq(s, p, e)
            v == SubSeq(t, p, e)
            l == IF p <= e THEN e - p + 1 ELSE 0
<1>1. /\ u \in Seq(S) /\ Len(u) = l
      /\ \A i \in 1 .. e - p + 1 : u[i] = s[p + i - 1]
  BY SubSeqProperties
<1>2. /\ v \in Seq(S) /\ Len(v) = l
      /\ \A i \in 1 .. e - p + 1 : v[i] = t[p + i - 1]
  BY SubSeqProperties
<1>3. ASSUME NEW i \in 1 .. l PROVE u[i] = v[i]
  <2>1. i \in 1 .. e - p + 1 /\ p + i - 1 \in p .. e
    OBVIOUS
  <2>2. u[i] = s[p + i - 1] /\ v[i] = t[p + i - 1]
    BY <1>1, <1>2, <2>1
  <2>. QED
    BY <2>1, <2>2
<1>. HIDE DEF u, v, l
<1>4. u = v
  BY <1>1, <1>2, <1>3, SeqEqual
<1>. QED
  BY <1>4 DEF u, v

\* A word in the cut buffer ends where the typed line has its next separator,
\* or its end.
LEMMA StringCut ==
    ASSUME IInv, pc # "scan", NEW p \in 1 .. Len(typed) + 1
    PROVE  StringAt(p) =
             SubSeq(typed, p, Min({e \in Separators \cup {Len(typed) + 1} : e >= p}) - 1)
<1>. DEFINE n == Len(typed)
            B == {e \in Separators \cup {n + 1} : e >= p}
            A == {i \in p .. Len(input) : input[i] = NUL}
            e == Min(B)
<1>1. /\ n \in Nat /\ typed \in Seq(Char) /\ sim_input = n + 1
      /\ Len(input) = n + 2 /\ input[n + 1] = NUL
  BY DEF IInv, Typed, ScanComplete
<1>2. Separators \subseteq 1 .. n
  BY <1>1, SeparatorsAre
<1>3. ASSUME NEW i \in 1 .. n
      PROVE  /\ i \in Separators => input[i] = NUL
             /\ i \notin Separators =>
                   input[i] = typed[i] /\ typed[i] \in Char /\ typed[i] # NUL
  <2>1. i < sim_input
    BY <1>1
  <2>2. typed[i] \in Char /\ typed[i] # NUL
    BY <1>1, Codes
  <2>. QED
    BY <2>1, <2>2 DEF IInv, CutSoFar
<1>4. B \in SUBSET Nat /\ n + 1 \in B
  <2>1. \A i \in Separators : i \in Nat
    BY <1>1, <1>2
  <2>2. n + 1 \in Nat /\ n + 1 >= p
    BY <1>1
  <2>. QED
    BY <2>1, <2>2
<1>. HIDE DEF n, B
<1>5. e \in B /\ e \in Nat /\ e <= n + 1 /\ \A y \in B : e <= y
  BY <1>4, MinOfNats
<1>. HIDE DEF e
<1>6. e >= p /\ (e \in Separators \/ e = n + 1)
  BY <1>5 DEF B, n
<1>7. Min(A) = e
  <2>1. e \in A
    <3>1. input[e] = NUL
      BY <1>1, <1>2, <1>3, <1>6 DEF n
    <3>2. e \in p .. Len(input)
      BY <1>1, <1>5, <1>6 DEF n
    <3>. QED
      BY <3>1, <3>2
  <2>2. ASSUME NEW y \in A PROVE e <= y
    <3>1. y \in p .. n + 2 /\ input[y] = NUL
      BY <1>1 DEF n
    <3>2. CASE y \in 1 .. n
      <4>1. y \in Separators
        BY <1>3, <3>1, <3>2 DEF n
      <4>2. y \in B
        BY <3>1, <4>1 DEF B, n
      <4>. QED
        BY <1>5, <4>2
    <3>3. CASE y \notin 1 .. n
      BY <1>1, <1>5, <3>1, <3>3 DEF n
    <3>. QED
      BY <3>2, <3>3
  <2>3. A \in SUBSET Nat
    BY <1>1 DEF n
  <2>. HIDE DEF A
  <2>. QED
    BY <2>1, <2>2, <2>3, MinIs
<1>8. ASSUME NEW i \in p .. e - 1
      PROVE  input[i] \in Char /\ input[i] = typed[i]
  <2>1. i \in 1 .. n /\ i < e
    BY <1>1, <1>5 DEF n
  <2>2. i \notin B
    BY <1>5, <2>1
  <2>3. i \notin Separators
    BY <2>1, <2>2 DEF B, n
  <2>. QED
    BY <1>3, <2>1, <2>3 DEF n
<1>9. SubSeq(input, p, e - 1) = SubSeq(typed, p, e - 1)
  <2>1. e - 1 \in Int /\ p \in Int
    BY <1>1, <1>5
  <2>. DEFINE f == e - 1
  <2>2. f \in Int /\ \A i \in p .. f : input[i] \in Char /\ input[i] = typed[i]
    BY <1>8, <2>1
  <2>. HIDE DEF f
  <2>3. SubSeq(input, p, f) = SubSeq(typed, p, f)
    BY <2>1, <2>2, SameSubSeq
  <2>. QED
    BY <2>3 DEF f
<1>10. StringAt(p) = SubSeq(input, p, Min(A) - 1)
  BY DEF StringAt
<1>. QED
  BY <1>7, <1>9, <1>10 DEF e, B, n

\* At the end of the scan argv holds the starts of the words, in order.
LEMMA StartsAre ==
    ASSUME IInv, pc # "scan"
    PROVE  {1} \cup {i + 1 : i \in Separators} = {argv[k] : k \in 1 .. Len(argv)}
<1>1. /\ Len(typed) \in Nat /\ typed \in Seq(Char) /\ sim_input = Len(typed) + 1
      /\ argv \in Seq(1 .. Len(typed) + 1)
  BY DEF IInv, Typed, ScanComplete
<1>2. Separators \subseteq 1 .. Len(typed)
  BY <1>1, SeparatorsAre
<1>3. /\ Len(argv) \in Nat
      /\ \A k \in 1 .. Len(argv) : argv[k] \in 1 .. Len(typed) + 1
  BY <1>1, ElementOfSeq, LenProperties
<1>4. /\ Len(argv) >= 1 /\ argv[1] = 1
      /\ \A k \in 2 .. Len(argv) : argv[k] - 1 \in Separators
      /\ \A i \in Separators :
            i < sim_input => \E k \in 2 .. Len(argv) : argv[k] = i + 1
  BY DEF IInv, StartsSoFar
<1>5. ASSUME NEW k \in 1 .. Len(argv)
      PROVE  argv[k] \in {1} \cup {i + 1 : i \in Separators}
  <2>1. CASE k = 1
    BY <1>4, <2>1
  <2>2. CASE k \in 2 .. Len(argv)
    <3>1. argv[k] - 1 \in Separators /\ argv[k] = (argv[k] - 1) + 1
      BY <1>3, <1>4, <2>2
    <3>. QED
      BY <3>1
  <2>. QED
    BY <1>3, <2>1, <2>2
<1>6. ASSUME NEW i \in Separators
      PROVE  i + 1 \in {argv[k] : k \in 1 .. Len(argv)}
  <2>1. i < sim_input
    BY <1>1, <1>2
  <2>2. PICK k \in 2 .. Len(argv) : argv[k] = i + 1
    BY <1>4, <2>1
  <2>3. k \in 1 .. Len(argv)
    BY <1>3
  <2>. QED
    BY <2>2, <2>3
<1>7. 1 \in {argv[k] : k \in 1 .. Len(argv)}
  BY <1>3, <1>4
<1>. QED
  BY <1>5, <1>6, <1>7

\* tokinize_words, for lines of any length: when the scan is over, the strings
\* behind argv are exactly the words of the typed line, in their order.
THEOREM ArgvIsExact == Spec => []ArgvExact
<1>1. ASSUME IInv PROVE ArgvExact
  <2>. SUFFICES ASSUME pc # "scan"
                PROVE  [k \in DOMAIN argv |-> StringAt(argv[k])] = Words
    BY DEF ArgvExact
  <2>. DEFINE starts == {1} \cup {i + 1 : i \in Separators}
              ends == Separators \cup {Len(typed) + 1}
              m == Len(argv)
              Word(p) == SubSeq(typed, p, Min({e \in ends : e >= p}) - 1)
  <2>1. /\ m \in Nat /\ DOMAIN argv = 1 .. m
        /\ \A k \in 1 .. m : argv[k] \in Nat /\ argv[k] \in 1 .. Len(typed) + 1
        /\ \A k, l \in 1 .. m : k < l => argv[k] < argv[l]
    <3>1. Len(typed) \in Nat /\ argv \in Seq(1 .. Len(typed) + 1)
      BY <1>1 DEF IInv, Typed
    <3>2. m \in Nat /\ DOMAIN argv = 1 .. m
      BY <3>1, LenProperties
    <3>3. \A k \in 1 .. m : argv[k] \in 1 .. Len(typed) + 1
      BY <3>1, ElementOfSeq
    <3>. QED
      BY <1>1, <3>1, <3>2, <3>3 DEF IInv, StartsSoFar
  <2>2. starts = {argv[k] : k \in 1 .. m}
    BY <1>1, StartsAre
  <2>3. \A k \in 1 .. m : StringAt(argv[k]) = Word(argv[k])
    BY <1>1, <2>1, StringCut
  <2>4. Words = [k \in 1 .. Cardinality(starts) |->
                    Word(KthOf(starts, k))]
    BY DEF Words, Quantify, KthOf
  <2>. HIDE DEF starts, Word, m
  <2>5. Cardinality(starts) = m
    BY <2>1, <2>2, CountIncreasing
  <2>6. ASSUME NEW k \in 1 .. m
        PROVE  KthOf(starts, k) = argv[k]
    BY <2>1, <2>2, KthOfIncreasing
  <2>. QED
    BY <2>1, <2>3, <2>4, <2>5, <2>6
<1>. QED
  BY <1>1, Invariance, PTL

-----------------------------------------------------------------------------
(* Numerals. *)

\* v are the values of the first n characters of a word, one after the other.
Values(v, word, n) ==
    v = [k \in 0 .. n |-> IF k = 0 THEN 0 ELSE Base * v[k - 1] + (word[k] - Zero)]

\* The recursive function in Value's definition exists.
LEMMA ValuesExist ==
    ASSUME NEW word, NEW N \in Nat
    PROVE  \E v : Values(v, word, N)
<1>. DEFINE I == {n \in Nat : \E v : Values(v, word, n)}
<1>1. 0 \in I
  <2>. DEFINE v == [k \in 0 .. 0 |-> 0]
  <2>1. v = [k \in 0 .. 0 |-> IF k = 0 THEN 0 ELSE Base * v[k - 1] + (word[k] - Zero)]
    OBVIOUS
  <2>2. Values(v, word, 0)
    BY <2>1 DEF Values
  <2>. QED
    BY <2>2
<1>2. ASSUME NEW n \in 0 .. N - 1, n \in I PROVE n + 1 \in I
  <2>1. PICK v : Values(v, word, n)
    BY <1>2
  <2>2. v = [k \in 0 .. n |-> IF k = 0 THEN 0 ELSE Base * v[k - 1] + (word[k] - Zero)]
    BY <2>1 DEF Values
  <2>. DEFINE last == Base * v[n] + (word[n + 1] - Zero)
              h == [k \in 0 .. n + 1 |-> IF k = n + 1 THEN last ELSE v[k]]
  <2>3. n \in Nat
    OBVIOUS
  <2>4. ASSUME NEW k \in 0 .. n + 1
        PROVE  h[k] = IF k = 0 THEN 0 ELSE Base * h[k - 1] + (word[k] - Zero)
    <3>1. CASE k = n + 1
      <4>1. k # 0 /\ k - 1 = n /\ n \in 0 .. n + 1 /\ n # n + 1
        BY <2>3, <3>1
      <4>2. h[n] = v[n] /\ h[k] = last
        BY <3>1, <4>1
      <4>. QED
        BY <3>1, <4>1, <4>2
    <3>2. CASE k \in 0 .. n
      <4>1. k # n + 1
        BY <2>3, <3>2
      <4>2. h[k] = v[k]
        BY <4>1
      <4>3. v[k] = IF k = 0 THEN 0 ELSE Base * v[k - 1] + (word[k] - Zero)
        BY <2>2, <3>2
      <4>4. k # 0 => h[k - 1] = v[k - 1]
        BY <2>3, <3>2
      <4>. HIDE DEF h
      <4>. QED
        BY <4>2, <4>3, <4>4
    <3>. QED
      BY <2>3, <3>1, <3>2
  <2>5. h = [k \in 0 .. n + 1 |-> h[k]]
    OBVIOUS
  <2>. HIDE DEF h
  <2>6. h = [k \in 0 .. n + 1 |-> IF k = 0 THEN 0 ELSE Base * h[k - 1] + (word[k] - Zero)]
    BY <2>4, <2>5
  <2>7. Values(h, word, n + 1)
    BY <2>6 DEF Values
  <2>. QED
    BY <2>3, <2>7
<1>. HIDE DEF I
<1>3. N \in I
  BY <1>1, <1>2, StepByStep
<1>. QED
  BY <1>3 DEF I

\* Each value is the base times the one before and the digit.
LEMMA ValuesStep ==
    ASSUME NEW word, NEW N \in Nat, NEW v, Values(v, word, N)
    PROVE  /\ v[0] = 0
           /\ \A n \in 0 .. N - 1 : v[n + 1] = Base * v[n] + (word[n + 1] - Zero)
<1>1. v = [k \in 0 .. N |-> IF k = 0 THEN 0 ELSE Base * v[k - 1] + (word[k] - Zero)]
  BY DEF Values
<1>2. v[0] = 0
  BY <1>1
<1>3. ASSUME NEW n \in 0 .. N - 1 PROVE v[n + 1] = Base * v[n] + (word[n + 1] - Zero)
  <2>1. n + 1 \in 0 .. N /\ n + 1 # 0 /\ (n + 1) - 1 = n
    OBVIOUS
  <2>2. PICK k : k = n + 1
    OBVIOUS
  <2>3. v[k] = Base * v[k - 1] + (word[k] - Zero)
    BY <1>1, <2>1, <2>2
  <2>. QED
    BY <2>1, <2>2, <2>3
<1>. QED
  BY <1>2, <1>3

\* Value is the last of them.
LEMMA ValueSteps ==
    ASSUME NEW word, Len(word) \in Nat
    PROVE  \E v : Values(v, word, Len(word)) /\ Value(word) = v[Len(word)]
<1>1. PICK N \in Nat : N = Len(word)
  OBVIOUS
<1>. DEFINE v == CHOOSE f : Values(f, word, N)
<1>2. Value(word) = v[N]
  BY <1>1 DEF Value, Values
<1>3. Values(v, word, N)
  BY ValuesExist
<1>. QED
  BY <1>1, <1>2, <1>3

\* The values of the beginnings of a numeral are numbers and do not fall.
LEMMA NumeralGrows ==
    ASSUME NEW N \in Nat, NEW word, \A i \in 1 .. N : word[i] \in Digit,
           NEW v, Values(v, word, N)
    PROVE  /\ \A n \in 0 .. N : v[n] \in Nat
           /\ \A n \in 0 .. N : v[n] <= v[N]
           /\ \A n \in 0 .. N - 1 : word[n + 1] - Zero \in 0 .. Base - 1
<1>1. Base \in Nat /\ Base >= 2 /\ Zero \in Nat
  BY CommandLineAssumption DEF Zero
<1>2. /\ v[0] = 0
      /\ \A n \in 0 .. N - 1 : v[n + 1] = Base * v[n] + (word[n + 1] - Zero)
  BY ValuesStep
<1>3. ASSUME NEW n \in 0 .. N - 1 PROVE word[n + 1] - Zero \in 0 .. Base - 1
  <2>1. n + 1 \in 1 .. N
    OBVIOUS
  <2>2. PICK d : d = word[n + 1]
    OBVIOUS
  <2>3. d \in Digit
    BY <2>1, <2>2
  <2>4. d - Zero \in 0 .. Base - 1
    BY <1>1, <2>3 DEF Digit, Above
  <2>. QED
    BY <2>2, <2>4
<1>4. ASSUME NEW n \in 0 .. N - 1, v[n] \in Nat
      PROVE  v[n + 1] \in Nat /\ v[n] <= v[n + 1]
  <2>1. PICK d \in 0 .. Base - 1, x \in Nat : d = word[n + 1] - Zero /\ x = v[n]
    BY <1>3, <1>4
  <2>2. x * 1 <= x * Base
    BY <1>1, ProductMonotone
  <2>3. x * Base = Base * x /\ x * 1 = x
    BY <1>1
  <2>4. PICK w \in Nat : w = Base * x
    BY <1>1, <2>1
  <2>5. v[n + 1] = w + d
    BY <1>2, <2>1, <2>4
  <2>6. x <= w
    BY <2>2, <2>3, <2>4
  <2>. QED
    BY <1>1, <2>1, <2>4, <2>5, <2>6
<1>. DEFINE I == {n \in 0 .. N : v[n] \in Nat}
<1>5. 0 \in I
  BY <1>2
<1>6. \A n \in 0 .. N - 1 : n \in I => n + 1 \in I
  BY <1>4
<1>. HIDE DEF I
<1>7. \A n \in 0 .. N : n \in I
  BY <1>5, <1>6, StepByStep
<1>8. \A n \in 0 .. N : v[n] \in Nat
  BY <1>7 DEF I
<1>. DEFINE J == {k \in 0 .. N : v[N - k] <= v[N]}
<1>9. 0 \in J
  BY <1>8
<1>10. ASSUME NEW k \in 0 .. N - 1, k \in J PROVE k + 1 \in J
  <2>1. PICK n \in 0 .. N - 1 : n = N - (k + 1)
    OBVIOUS
  <2>2. n + 1 = N - k /\ k + 1 \in 0 .. N /\ n \in 0 .. N /\ n + 1 \in 0 .. N /\ N \in 0 .. N
    BY <2>1
  <2>3. v[n] <= v[n + 1] /\ v[n + 1] <= v[N]
    BY <1>4, <1>8, <1>10, <2>2
  <2>4. v[n] \in Nat /\ v[n + 1] \in Nat /\ v[N] \in Nat
    BY <1>8, <2>2
  <2>5. v[n] <= v[N]
    BY <2>3, <2>4
  <2>. QED
    BY <2>1, <2>2, <2>5
<1>. HIDE DEF J
<1>11. \A k \in 0 .. N : k \in J
  BY <1>9, <1>10, StepByStep
<1>12. ASSUME NEW n \in 0 .. N PROVE v[n] <= v[N]
  <2>1. PICK k \in 0 .. N : k = N - n
    OBVIOUS
  <2>2. N - k = n
    BY <2>1
  <2>. QED
    BY <1>11, <2>1, <2>2 DEF J
<1>. QED
  BY <1>3, <1>8, <1>12

\* An int holds the numbers below its limit.
LEMMA WrapSmall ==
    ASSUME NEW n \in 0 .. IntLimit - 1
    PROVE  Wrap(n) = n
<1>1. IntLimit \in Nat \ {0}
  BY CommandLineAssumption
<1>2. PICK x \in Nat, b \in Nat \ {0} : x = n + IntLimit /\ b = 2 * IntLimit
  BY <1>1
<1>3. x \in 0 .. b - 1 /\ x = x + b * 0 /\ 0 \in Nat
  BY <1>1, <1>2
<1>4. x % b = x
  BY <1>2, <1>3, QuotientUnique
<1>. QED
  BY <1>1, <1>2, <1>4 DEF Wrap

\* string_to_int of a numeral whose value fits in an int is that value: when
\* the end fits, no multiplication on the way has wrapped.
LEMMA ParsedExactly ==
    ASSUME NEW word, Len(word) \in Nat, \A i \in 1 .. Len(word) : word[i] \in Digit,
           Value(word) < IntLimit
    PROVE  Value(word) \in Nat /\ string_to_int(word) = Value(word)
<1>1. PICK N \in Nat : N = Len(word)
  OBVIOUS
<1>2. PICK v : Values(v, word, N) /\ Value(word) = v[N]
  BY <1>1, ValueSteps
<1>3. /\ \A n \in 0 .. N : v[n] \in Nat
      /\ \A n \in 0 .. N : v[n] <= v[N]
      /\ \A n \in 0 .. N - 1 : word[n + 1] - Zero \in 0 .. Base - 1
  BY <1>1, <1>2, NumeralGrows
<1>4. v = [k \in 0 .. N |-> IF k = 0 THEN 0 ELSE Base * v[k - 1] + (word[k] - Zero)]
  BY <1>2 DEF Values
<1>5. /\ v[0] = 0
      /\ \A n \in 0 .. N - 1 : v[n + 1] = Base * v[n] + (word[n + 1] - Zero)
  BY <1>2, ValuesStep
<1>6. IntLimit \in Nat /\ Base \in Nat /\ Zero \in Nat
  BY CommandLineAssumption DEF Zero
<1>7. \A n \in 0 .. N : v[n] \in 0 .. IntLimit - 1
  <2>. SUFFICES ASSUME NEW n \in 0 .. N PROVE v[n] \in 0 .. IntLimit - 1
    OBVIOUS
  <2>1. v[n] \in Nat /\ v[n] <= v[N] /\ v[N] \in Nat /\ v[N] < IntLimit
    BY <1>2, <1>3
  <2>. QED
    BY <1>6, <2>1
<1>. DEFINE Parsed(r) ==
                r = [k \in 0 .. N |->
                        IF k = 0 THEN 0 ELSE Wrap(r[k - 1] * Base + word[k] - Zero)]
            r == CHOOSE f : Parsed(f)
<1>8. string_to_int(word) = r[N]
  BY <1>1 DEF string_to_int
<1>9. ASSUME NEW n \in 0 .. N - 1
      PROVE  Wrap(v[n] * Base + word[n + 1] - Zero) = v[n + 1]
  <2>1. n \in 0 .. N /\ n + 1 \in 0 .. N
    OBVIOUS
  <2>2. PICK d \in Int, x \in Nat : d = word[n + 1] - Zero /\ x = v[n]
    BY <1>3, <1>6, <2>1
  <2>3. v[n + 1] = Base * x + d
    BY <1>5, <2>2
  <2>4. v[n] * Base + word[n + 1] - Zero = v[n + 1]
    BY <1>6, <2>2, <2>3
  <2>. QED
    BY <1>7, <2>1, <2>4, WrapSmall
<1>10. Parsed(v)
  <2>1. ASSUME NEW k \in 0 .. N
        PROVE  v[k] = IF k = 0 THEN 0 ELSE Wrap(v[k - 1] * Base + word[k] - Zero)
    <3>1. CASE k = 0
      BY <1>5, <3>1
    <3>2. CASE k # 0
      <4>1. PICK n \in 0 .. N - 1 : n = k - 1
        BY <3>2
      <4>2. n + 1 = k
        BY <4>1
      <4>3. Wrap(v[k - 1] * Base + word[k] - Zero) = v[k]
        BY <1>9, <4>1, <4>2
      <4>. QED
        BY <3>2, <4>3
    <3>. QED
      BY <3>1, <3>2
  <2>2. v = [k \in 0 .. N |-> v[k]]
    BY <1>4
  <2>. QED
    BY <2>1, <2>2
<1>11. Parsed(r)
  BY <1>10
<1>12. r = [k \in 0 .. N |->
                IF k = 0 THEN 0 ELSE Wrap(r[k - 1] * Base + word[k] - Zero)]
  BY <1>11
<1>. HIDE DEF Parsed, r
<1>. DEFINE I == {n \in 0 .. N : r[n] = v[n]}
<1>13. 0 \in I
  <2>1. r[0] = 0
    BY <1>12
  <2>. QED
    BY <1>5, <2>1
<1>14. ASSUME NEW n \in 0 .. N - 1, n \in I PROVE n + 1 \in I
  <2>1. n + 1 \in 0 .. N /\ n + 1 # 0 /\ (n + 1) - 1 = n
    OBVIOUS
  <2>2. PICK k : k = n + 1
    OBVIOUS
  <2>3. r[k] = Wrap(r[k - 1] * Base + word[k] - Zero)
    BY <1>12, <2>1, <2>2
  <2>4. r[k - 1] = v[n]
    BY <1>14, <2>1, <2>2
  <2>5. r[k] = v[n + 1]
    BY <1>9, <2>2, <2>3, <2>4
  <2>. QED
    BY <2>1, <2>2, <2>5
<1>. HIDE DEF I
<1>15. N \in I
  <2>1. \A n \in 0 .. N - 1 : n \in I => n + 1 \in I
    BY <1>14
  <2>2. \A n \in 0 .. N : n \in I
    BY <1>13, <2>1, StepByStep
  <2>. QED
    BY <2>2
<1>. QED
  BY <1>2, <1>3, <1>8, <1>15 DEF I
-----------------------------------------------------------------------------
(* int_to_string. *)

\* A division by the base makes a number smaller.
LEMMA QuotientSmaller ==
    ASSUME NEW n \in Nat \ {0}
    PROVE  n \div Base \in 0 .. n - 1 /\ n % Base \in 0 .. Base - 1
           /\ n = Base * (n \div Base) + (n % Base)
<1>1. Base \in Nat \ {0} /\ Base >= 2
  BY CommandLineAssumption
<1>2. PICK q \in Nat, r \in 0 .. Base - 1 :
          q = n \div Base /\ r = n % Base /\ n = r + Base * q
  BY <1>1, Division
<1>3. q * 2 <= q * Base
  BY <1>1, ProductMonotone
<1>4. q * Base = Base * q
  BY <1>1
<1>5. PICK w \in Nat : w = Base * q
  BY <1>1
<1>6. q * 2 <= w /\ n = r + w
  BY <1>2, <1>3, <1>4, <1>5
<1>7. q \in 0 .. n - 1
  BY <1>1, <1>6
<1>. QED
  BY <1>1, <1>2, <1>5, <1>6, <1>7

\* g has the digits of the numbers up to N.
DigitsTo(g, N) ==
    \A k \in 0 .. N :
        g[k] = IF k = 0 THEN <<>> ELSE <<Zero + (k % Base)>> \o g[k \div Base]

\* There is such a function.
LEMMA DigitsToExist ==
    ASSUME NEW N \in Nat
    PROVE  \E g : DigitsTo(g, N)
<1>. DEFINE I == {n \in Nat : \E g : DigitsTo(g, n)}
<1>1. 0 \in I
  <2>. DEFINE g == [k \in 0 .. 0 |-> <<>>]
  <2>1. DigitsTo(g, 0)
    BY DEF DigitsTo
  <2>. QED
    BY <2>1
<1>2. ASSUME NEW n \in 0 .. N - 1, n \in I PROVE n + 1 \in I
  <2>1. PICK g : DigitsTo(g, n)
    BY <1>2
  <2>. DEFINE last == <<Zero + ((n + 1) % Base)>> \o g[(n + 1) \div Base]
              h == [k \in 0 .. n + 1 |-> IF k = n + 1 THEN last ELSE g[k]]
  <2>2. n \in Nat
    OBVIOUS
  <2>3. h[n + 1] = last /\ \A k \in 0 .. n : h[k] = g[k]
    BY <2>2
  <2>. HIDE DEF h
  <2>4. ASSUME NEW k \in 0 .. n + 1
        PROVE  h[k] = IF k = 0 THEN <<>> ELSE <<Zero + (k % Base)>> \o h[k \div Base]
    <3>1. CASE k = 0
      <4>1. h[0] = g[0] /\ g[0] = <<>>
        <5>1. 0 \in 0 .. n
          BY <2>2
        <5>2. g[0] = <<>>
          BY <2>1, <5>1 DEF DigitsTo
        <5>. QED
          BY <2>3, <5>1, <5>2
      <4>. QED
        BY <3>1, <4>1
    <3>2. CASE k # 0
      <4>1. PICK q : q = k \div Base
        OBVIOUS
      <4>2. q \in 0 .. k - 1
        BY <2>2, <3>2, <4>1, QuotientSmaller
      <4>3. h[q] = g[q]
        BY <2>2, <2>3, <4>2
      <4>4. h[k] = <<Zero + (k % Base)>> \o g[q]
        <5>1. CASE k = n + 1
          BY <2>3, <4>1, <5>1
        <5>2. CASE k # n + 1
          <6>1. k \in 0 .. n
            BY <2>2, <5>2
          <6>. QED
            BY <2>1, <2>3, <3>2, <4>1, <6>1 DEF DigitsTo
        <5>. QED
          BY <5>1, <5>2
      <4>. QED
        BY <3>2, <4>1, <4>3, <4>4
    <3>. QED
      BY <3>1, <3>2
  <2>5. DigitsTo(h, n + 1)
    BY <2>4 DEF DigitsTo
  <2>. QED
    BY <2>2, <2>5
<1>. HIDE DEF I
<1>3. \A n \in 0 .. N - 1 : n \in I => n + 1 \in I
  BY <1>2
<1>4. \A n \in 0 .. N : n \in I
  BY <1>1, <1>3, StepByStep
<1>5. N \in I
  BY <1>4
<1>. QED
  BY <1>5 DEF I

\* Two of them agree where both are defined.
LEMMA DigitsToUnique ==
    ASSUME NEW N \in Nat, NEW g, DigitsTo(g, N), NEW M \in Nat, NEW h, DigitsTo(h, M),
           NEW k \in 0 .. N, k <= M
    PROVE  g[k] = h[k]
<1>. SUFFICES ASSUME g[k] # h[k] PROVE FALSE
  OBVIOUS
<1>. DEFINE S == {j \in 0 .. N : j <= M /\ g[j] # h[j]}
<1>1. S \in SUBSET Nat /\ S # {}
  OBVIOUS
<1>2. PICK x : x = Min(S)
  OBVIOUS
<1>3. x \in S /\ \A y \in S : x <= y
  BY <1>1, <1>2, MinOfNats
<1>4. x \in 0 .. N /\ x \in 0 .. M /\ g[x] # h[x]
  BY <1>3
<1>5. x # 0
  <2>1. 0 \in 0 .. N /\ 0 \in 0 .. M
    OBVIOUS
  <2>2. g[0] = <<>> /\ h[0] = <<>>
    BY <2>1 DEF DigitsTo
  <2>. QED
    BY <1>4, <2>2
<1>6. PICK q : q = x \div Base
  OBVIOUS
<1>7. q \in 0 .. x - 1
  BY <1>4, <1>5, <1>6, QuotientSmaller
<1>8. q \in 0 .. N /\ q <= M /\ ~(x <= q)
  BY <1>4, <1>7
<1>9. g[q] = h[q]
  BY <1>3, <1>8
<1>10. g[x] = <<Zero + (x % Base)>> \o g[q] /\ h[x] = <<Zero + (x % Base)>> \o h[q]
  BY <1>4, <1>5, <1>6 DEF DigitsTo
<1>. QED
  BY <1>4, <1>9, <1>10

\* Digits satisfies the equation it is defined by.
LEMMA DigitsEquation ==
    ASSUME NEW n \in Nat
    PROVE  Digits[n] = IF n = 0 THEN <<>> ELSE <<Zero + (n % Base)>> \o Digits[n \div Base]
<1>. DEFINE To(N) == CHOOSE g : DigitsTo(g, N)
            G == [k \in Nat |-> To(k)[k]]
<1>1. \A N \in Nat : DigitsTo(To(N), N)
  BY DigitsToExist
<1>. HIDE DEF To
<1>2. ASSUME NEW k \in Nat
      PROVE  G[k] = IF k = 0 THEN <<>> ELSE <<Zero + (k % Base)>> \o G[k \div Base]
  <2>1. PICK g : g = To(k)
    OBVIOUS
  <2>2. DigitsTo(g, k) /\ G[k] = g[k] /\ k \in 0 .. k
    BY <1>1, <2>1
  <2>3. g[k] = IF k = 0 THEN <<>> ELSE <<Zero + (k % Base)>> \o g[k \div Base]
    BY <2>2 DEF DigitsTo
  <2>4. ASSUME k # 0 PROVE G[k \div Base] = g[k \div Base]
    <3>1. PICK q : q = k \div Base
      OBVIOUS
    <3>2. q \in 0 .. k - 1
      BY <2>4, <3>1, QuotientSmaller
    <3>3. q \in Nat /\ q \in 0 .. k /\ q <= q
      BY <3>2
    <3>4. PICK h : h = To(q)
      OBVIOUS
    <3>5. DigitsTo(h, q) /\ G[q] = h[q]
      BY <1>1, <3>3, <3>4
    <3>6. g[q] = h[q]
      BY <2>2, <3>3, <3>5, DigitsToUnique
    <3>. QED
      BY <3>1, <3>5, <3>6
  <2>. HIDE DEF G
  <2>. QED
    BY <2>2, <2>3, <2>4
<1>3. G = [k \in Nat |-> G[k]]
  OBVIOUS
<1>. HIDE DEF G
<1>4. G = [k \in Nat |-> IF k = 0 THEN <<>> ELSE <<Zero + (k % Base)>> \o G[k \div Base]]
  BY <1>2, <1>3
<1>5. Digits = [k \in Nat |->
                   IF k = 0 THEN <<>> ELSE <<Zero + (k % Base)>> \o Digits[k \div Base]]
  BY <1>4 DEF Digits
<1>. QED
  BY <1>5

\* A digit behind a numeral.
LEMMA ValueOfLonger ==
    ASSUME NEW L \in Nat, NEW s, Len(s) = L, NEW t, Len(t) = L + 1,
           \A i \in 1 .. L : t[i] = s[i]
    PROVE  Value(t) = Base * Value(s) + (t[L + 1] - Zero)
<1>1. PICK v : Values(v, s, L) /\ Value(s) = v[L]
  BY ValueSteps
<1>2. PICK w : Values(w, t, L + 1) /\ Value(t) = w[L + 1]
  BY ValueSteps
<1>3. v[0] = 0 /\ \A n \in 0 .. L - 1 : v[n + 1] = Base * v[n] + (s[n + 1] - Zero)
  BY <1>1, ValuesStep
<1>4. w[0] = 0 /\ \A n \in 0 .. L : w[n + 1] = Base * w[n] + (t[n + 1] - Zero)
  <2>1. L + 1 \in Nat /\ (L + 1) - 1 = L
    OBVIOUS
  <2>2. w[0] = 0 /\ \A n \in 0 .. (L + 1) - 1 : w[n + 1] = Base * w[n] + (t[n + 1] - Zero)
    BY <1>2, <2>1, ValuesStep
  <2>. QED
    BY <2>1, <2>2
<1>. DEFINE I == {n \in 0 .. L : w[n] = v[n]}
<1>5. 0 \in I
  BY <1>3, <1>4
<1>6. ASSUME NEW n \in 0 .. L - 1, n \in I PROVE n + 1 \in I
  <2>1. n + 1 \in 0 .. L /\ n + 1 \in 1 .. L /\ n \in 0 .. L
    OBVIOUS
  <2>2. t[n + 1] = s[n + 1] /\ w[n] = v[n]
    BY <1>6, <2>1
  <2>3. w[n + 1] = v[n + 1]
    BY <1>3, <1>4, <2>1, <2>2
  <2>. QED
    BY <2>1, <2>3
<1>. HIDE DEF I
<1>7. \A n \in 0 .. L - 1 : n \in I => n + 1 \in I
  BY <1>6
<1>8. \A n \in 0 .. L : n \in I
  BY <1>5, <1>7, StepByStep
<1>9. L \in I /\ L \in 0 .. L
  BY <1>8
<1>10. w[L] = v[L]
  BY <1>9 DEF I
<1>. QED
  BY <1>1, <1>2, <1>4, <1>9, <1>10

\* What the loop of int_to_string leaves for a positive number, turned round:
\* a numeral with that value and without a leading zero.
Shown(n, t) ==
    /\ t \in Seq(Digit) /\ Len(t) \in Nat \ {0}
    /\ Value(t) = n /\ t[1] # Zero

\* The numeral of a number from that of its quotient.
LEMMA ShownLonger ==
    ASSUME NEW n \in Nat \ {0}, NEW s \in Seq(Digit), Len(s) \in Nat,
           Value(s) = n \div Base, n \div Base = 0 => s = <<>>,
           n \div Base # 0 => s # <<>> /\ s[1] # Zero,
           NEW t, t = Append(s, Zero + (n % Base))
    PROVE  Shown(n, t)
<1>1. Base \in Nat /\ Base >= 2 /\ Zero \in Nat
  BY CommandLineAssumption DEF Zero
<1>2. PICK q \in Nat, r \in 0 .. Base - 1 :
          q = n \div Base /\ r = n % Base /\ n = Base * q + r
  BY QuotientSmaller
<1>3. PICK d : d = Zero + r
  OBVIOUS
<1>4. d \in Digit /\ d - Zero = r
  BY <1>1, <1>2, <1>3 DEF Digit, Above
<1>5. PICK L \in Nat : L = Len(s)
  OBVIOUS
<1>6. t = Append(s, d)
  BY <1>2, <1>3
<1>7. /\ t \in Seq(Digit) /\ Len(t) = L + 1 /\ t[L + 1] = d
      /\ \A i \in 1 .. L : t[i] = s[i]
  BY <1>4, <1>5, <1>6
<1>8. Value(t) = Base * Value(s) + (t[L + 1] - Zero)
  <2>1. L \in Nat /\ Len(s) = L /\ Len(t) = L + 1 /\ \A i \in 1 .. L : t[i] = s[i]
    BY <1>5, <1>7
  <2>. QED
    BY ONLY <2>1, ValueOfLonger
<1>9. Value(t) = n
  BY <1>2, <1>4, <1>7, <1>8
<1>10. t[1] # Zero
  <2>1. CASE q = 0
    <3>1. L = 0
      BY <1>2, <1>5, <2>1
    <3>2. t[1] = d
      BY <1>7, <3>1
    <3>3. Base * 0 = 0
      BY <1>1
    <3>4. r # 0
      BY <1>1, <1>2, <2>1, <3>3
    <3>. QED
      BY <1>1, <1>2, <1>3, <3>2, <3>4
  <2>2. CASE q # 0
    <3>1. s # <<>> /\ s[1] # Zero
      BY <1>2, <2>2
    <3>2. L # 0
      BY <1>5, <3>1, EmptySeq
    <3>3. 1 \in 1 .. L
      BY <3>2
    <3>. QED
      BY <1>7, <3>1, <3>3
  <2>. QED
    BY <2>1, <2>2
<1>. QED
  BY <1>7, <1>9, <1>10 DEF Shown

\* The elements of two sequences put together.
LEMMA JoinedAt ==
    ASSUME NEW S, NEW a \in Seq(S), NEW b \in Seq(S), NEW i \in 1 .. Len(a) + Len(b)
    PROVE  (a \o b)[i] = IF i <= Len(a) THEN a[i] ELSE b[i - Len(a)]
OBVIOUS

\* Turning round a sequence with one more element at its start.
LEMMA ReverseLonger ==
    ASSUME NEW S, NEW s \in Seq(S), NEW c \in S
    PROVE  /\ Reverse(<<c>> \o s) = Append(Reverse(s), c)
           /\ Reverse(s) \in Seq(S) /\ Len(Reverse(s)) = Len(s)
<1>1. PICK L \in Nat : L = Len(s)
  OBVIOUS
<1>2. PICK r : r = Reverse(s)
  OBVIOUS
<1>3. r = [i \in 1 .. L |-> s[(L - i) + 1]]
  BY <1>1, <1>2 DEF Reverse
<1>4. \A i \in 1 .. L : s[(L - i) + 1] \in S
  BY <1>1
<1>5. r \in Seq(S) /\ Len(r) = L /\ \A i \in 1 .. L : r[i] = s[(L - i) + 1]
  <2>1. r \in [1 .. L -> S]
    BY <1>3, <1>4
  <2>. QED
    BY <1>3, <2>1
<1>6. PICK u : u = <<c>> \o s
  OBVIOUS
<1>7. u \in Seq(S) /\ Len(u) = L + 1 /\ u[1] = c /\ \A i \in 1 .. L : u[i + 1] = s[i]
  <2>1. <<c>> \in Seq(S) /\ Len(<<c>>) = 1 /\ <<c>>[1] = c
    OBVIOUS
  <2>2. PICK e : e = <<c>>
    OBVIOUS
  <2>3. e \in Seq(S) /\ Len(e) = 1 /\ e[1] = c /\ u = e \o s
    BY <1>6, <2>1, <2>2
  <2>4. u \in Seq(S) /\ Len(u) = 1 + L
    <3>1. (e \o s) \in Seq(S) /\ Len(e \o s) = Len(e) + Len(s)
      BY ONLY <2>3, s \in Seq(S), ConcatProperties
    <3>. QED
      BY ONLY <1>1, <2>3, <3>1
  <2>5. \A i \in 1 .. 1 + L : u[i] = IF i <= 1 THEN e[i] ELSE s[i - 1]
    <3>1. \A i \in 1 .. Len(e) + Len(s) :
            (e \o s)[i] = IF i <= Len(e) THEN e[i] ELSE s[i - Len(e)]
      BY ONLY <2>3, s \in Seq(S), JoinedAt, Zenon
    <3>2. PICK q : q = e \o s
      OBVIOUS
    <3>3. \A i \in 1 .. 1 + L : q[i] = IF i <= 1 THEN e[i] ELSE s[i - 1]
      BY ONLY <1>1, <2>3, <3>1, <3>2, Zenon
    <3>. QED
      BY ONLY <2>3, <3>2, <3>3, Zenon
  <2>6. u[1] = c
    <3>1. 1 \in 1 .. 1 + L
      OBVIOUS
    <3>2. u[1] = e[1]
      BY <2>5, <3>1
    <3>. QED
      BY <2>3, <3>2
  <2>7. ASSUME NEW i \in 1 .. L PROVE u[i + 1] = s[i]
    <3>1. PICK j : j = i + 1
      OBVIOUS
    <3>2. j \in 1 .. 1 + L /\ ~(j <= 1) /\ j - 1 = i
      BY <3>1
    <3>. QED
      BY <2>5, <3>1, <3>2
  <2>. QED
    BY <2>4, <2>6, <2>7
<1>8. PICK t, a : t = Reverse(u) /\ a = Append(r, c)
  OBVIOUS
<1>9. t = [i \in 1 .. L + 1 |-> u[(L + 1 - i) + 1]]
  BY <1>7, <1>8 DEF Reverse
<1>10. a \in Seq(S) /\ Len(a) = L + 1 /\ a[L + 1] = c /\ \A i \in 1 .. L : a[i] = r[i]
  BY <1>5, <1>8
<1>11. ASSUME NEW i \in 1 .. L + 1 PROVE t[i] = a[i]
  <2>1. CASE i = L + 1
    <3>1. (L + 1 - i) + 1 = 1
      BY <2>1
    <3>. QED
      BY <1>7, <1>9, <1>10, <2>1, <3>1
  <2>2. CASE i # L + 1
    <3>1. PICK j : j = (L - i) + 1
      OBVIOUS
    <3>2. i \in 1 .. L /\ j \in 1 .. L /\ (L + 1 - i) + 1 = j + 1
      BY <2>2, <3>1
    <3>3. t[i] = u[j + 1]
      BY <1>9, <3>2
    <3>. QED
      BY <1>5, <1>7, <1>10, <3>1, <3>2, <3>3
  <2>. QED
    BY <2>1, <2>2
<1>12. a = [i \in 1 .. L + 1 |-> a[i]]
  BY <1>10
<1>13. t = a
  BY <1>9, <1>11, <1>12
<1>. QED
  BY <1>1, <1>2, <1>5, <1>6, <1>8, <1>13

\* int_to_string of a positive number.
LEMMA DigitsShown ==
    ASSUME NEW n \in Nat \ {0}
    PROVE  Shown(n, Reverse(Digits[n]))
<1>. DEFINE Good(k) == /\ Digits[k] \in Seq(Digit)
                       /\ k # 0 => Shown(k, Reverse(Digits[k]))
            S == {k \in Nat : ~Good(k)}
<1>. SUFFICES ASSUME ~Good(n) PROVE FALSE
  OBVIOUS
<1>1. S \in SUBSET Nat /\ S # {}
  OBVIOUS
<1>2. PICK x : x = Min(S)
  OBVIOUS
<1>3. x \in S /\ \A y \in S : x <= y
  BY <1>1, <1>2, MinOfNats
<1>4. x \in Nat /\ ~Good(x)
  BY <1>3
<1>5. Digits[0] = <<>>
  BY DigitsEquation
<1>6. x # 0
  <2>1. Good(0)
    BY <1>5
  <2>. QED
    BY <1>4, <2>1
<1>7. PICK q \in Nat, r \in 0 .. Base - 1 : q = x \div Base /\ r = x % Base /\ q \in 0 .. x - 1
  BY <1>4, <1>6, QuotientSmaller
<1>8. Good(q)
  <2>1. ~(x <= q)
    BY <1>4, <1>7
  <2>. QED
    BY <1>3, <1>7, <2>1
<1>9. PICK D, s : D = Digits[q] /\ s = Reverse(D)
  OBVIOUS
<1>10. D \in Seq(Digit) /\ (q # 0 => Shown(q, s))
  BY <1>8, <1>9
<1>. HIDE DEF Good
<1>11. PICK c : c = Zero + r
  OBVIOUS
<1>12. c \in Digit
  BY <1>7, <1>11, CommandLineAssumption DEF Digit, Above, Zero
<1>13. Digits[x] = <<c>> \o D
  BY <1>4, <1>6, <1>7, <1>9, <1>11, DigitsEquation
<1>14. Reverse(<<c>> \o D) = Append(s, c) /\ s \in Seq(Digit) /\ Len(s) = Len(D)
  BY <1>9, <1>10, <1>12, ReverseLonger
<1>15. Len(s) \in Nat /\ (q = 0 => s = <<>>)
  <2>1. q = 0 => D = <<>>
    BY <1>5, <1>9
  <2>2. D = <<>> => Len(D) = 0
    OBVIOUS
  <2>. QED
    BY <1>14, <2>1, <2>2, EmptySeq
<1>16. Value(s) = q
  <2>1. CASE q = 0
    <3>1. Len(s) = 0
      BY <1>15, <2>1
    <3>2. PICK v : Values(v, s, 0) /\ Value(s) = v[0]
      BY <3>1, ValueSteps
    <3>3. v[0] = 0
      BY <3>2, ValuesStep
    <3>. QED
      BY <2>1, <3>2, <3>3
  <2>2. CASE q # 0
    BY <1>10, <2>2 DEF Shown
  <2>. QED
    BY <2>1, <2>2
<1>17. q # 0 => s # <<>> /\ s[1] # Zero
  BY <1>10 DEF Shown
<1>18. PICK t : t = Append(s, c)
  OBVIOUS
<1>19. Shown(x, t)
  <2>1. t = Append(s, Zero + (x % Base))
    BY <1>7, <1>11, <1>18
  <2>2. Value(s) = x \div Base /\ (x \div Base = 0 => s = <<>>)
        /\ (x \div Base # 0 => s # <<>> /\ s[1] # Zero)
    BY <1>7, <1>15, <1>16, <1>17
  <2>3. x \in Nat \ {0} /\ s \in Seq(Digit) /\ Len(s) \in Nat
    BY <1>4, <1>6, <1>14, <1>15
  <2>. QED
    BY <2>1, <2>2, <2>3, ShownLonger
<1>20. Digits[x] \in Seq(Digit)
  BY <1>10, <1>12, <1>13
<1>. QED
  BY <1>4, <1>13, <1>14, <1>18, <1>19, <1>20 DEF Good
-----------------------------------------------------------------------------
(* The disk commands. *)

\* What process_input makes of the words, and that it is the answer.
Reply ==
    CASE StringAt(argv[1]) = DiskW -> DiskCommand("write", 4)
      [] StringAt(argv[1]) = DiskR -> DiskCommand("read", 3)
      [] OTHER -> [Silent EXCEPT !.kind = "other"]

Answered == answer = IF pc = "done" THEN Reply ELSE Silent

\* It depends on the buffer and on argv alone.
LEMMA ReplyKept ==
    ASSUME input' = input, argv' = argv
    PROVE  Reply' = Reply
BY DEF Reply, DiskCommand, Check, StringAt

\* The answer is the reply to the words that argv points to.
LEMMA AnsweredAlways == Spec => []Answered
<1>1. Init => Answered
  BY DEF Init, Answered
<1>2. ASSUME Answered, [Next]_vars PROVE Answered'
  <2>1. CASE scan_separator \/ scan_char \/ scan_end
    <3>1. answer' = answer /\ pc = "scan" /\ pc' \in {"scan", "run"}
      BY <2>1 DEF scan_separator, scan_char, scan_end
    <3>2. answer = Silent
      BY <1>2, <3>1 DEF Answered
    <3>3. pc' # "done"
      BY <3>1
    <3>. QED
      BY <3>1, <3>2, <3>3 DEF Answered, Silent
  <2>2. CASE process_input
    <3>1. input' = input /\ argv' = argv /\ pc' = "done"
      BY <2>2 DEF process_input
    <3>2. answer' = Reply
      BY <2>2, Zenon DEF process_input, Reply
    <3>3. Reply' = Reply
      BY <3>1, ReplyKept
    <3>. QED
      BY <3>1, <3>2, <3>3 DEF Answered
  <2>3. CASE UNCHANGED vars
    <3>1. input' = input /\ argv' = argv /\ pc' = pc /\ answer' = answer
      BY <2>3 DEF vars
    <3>2. Reply' = Reply
      BY <3>1, ReplyKept
    <3>. QED
      BY <1>2, <3>1, <3>2 DEF Answered, Silent
  <2>. QED
    BY <1>2, <2>1, <2>2, <2>3 DEF Next
<1>3. Answered /\ [Next]_vars => Answered'
  BY <1>2
<1>. QED
  BY <1>1, <1>3, PTL DEF Spec

\* The kind of an answer.
LEMMA SilentKind ==
    ASSUME NEW k
    PROVE  [Silent EXCEPT !.kind = k].kind = k
BY DEF Silent

\* What Check can say.
LEMMA CheckSays ==
    Check # "write" /\ Check # "read"
BY DEF Check

\* A write is what diskW with four words that pass the checks becomes.
LEMMA ReplyWrites ==
    /\ Reply.kind = "write" <=>
          StringAt(argv[1]) = DiskW /\ Len(argv) = 4 /\ Check = "ok"
    /\ Reply.kind = "write" =>
          /\ Reply.lba = string_to_int(StringAt(argv[2]))
          /\ Reply.count = string_to_int(StringAt(argv[3]))
          /\ Reply.text = int_to_string(string_to_int(StringAt(argv[2])))
<1>1. CASE StringAt(argv[1]) = DiskW
  <2>1. StringAt(argv[1]) # DiskR
    BY <1>1, CommandLineAssumption DEF DiskW, DiskR, Above, Below, Zero
  <2>2. Reply = DiskCommand("write", 4)
    BY <1>1, <2>1, Zenon DEF Reply
  <2>3. CASE Len(argv) # 4
    <3>1. Reply = [Silent EXCEPT !.kind = "usage"]
      BY <2>2, <2>3, Zenon DEF DiskCommand
    <3>2. Reply.kind = "usage"
      BY <3>1, SilentKind, Zenon
    <3>. QED
      BY <2>3, <3>2
  <2>4. CASE Len(argv) = 4 /\ Check # "ok"
    <3>1. Reply = [Silent EXCEPT !.kind = Check]
      BY <2>2, <2>4, Zenon DEF DiskCommand
    <3>2. Reply.kind = Check
      BY <3>1, SilentKind, Zenon
    <3>. QED
      BY <2>4, <3>2, CheckSays
  <2>5. CASE Len(argv) = 4 /\ Check = "ok"
    <3>1. PICK a, b, c : /\ a = string_to_int(StringAt(argv[2]))
                         /\ b = string_to_int(StringAt(argv[3])) /\ c = int_to_string(a)
      OBVIOUS
    <3>2. Reply = [kind |-> "write", lba |-> a, count |-> b, text |-> c]
      BY <2>2, <2>5, <3>1 DEF DiskCommand
    <3>3. Reply.kind = "write" /\ Reply.lba = a /\ Reply.count = b /\ Reply.text = c
      BY <3>2
    <3>. QED
      BY <1>1, <2>5, <3>1, <3>3
  <2>. QED
    BY <2>3, <2>4, <2>5
<1>2. CASE StringAt(argv[1]) # DiskW
  <2>. SUFFICES Reply.kind # "write"
    BY <1>2
  <2>1. CASE StringAt(argv[1]) = DiskR
    <3>1. Reply = DiskCommand("read", 3)
      BY <1>2, <2>1, Zenon DEF Reply
    <3>2. CASE Len(argv) # 3
      <4>1. Reply = [Silent EXCEPT !.kind = "usage"]
        BY <3>1, <3>2, Zenon DEF DiskCommand
      <4>2. Reply.kind = "usage"
        BY <4>1, SilentKind, Zenon
      <4>. QED
        BY <4>2
    <3>3. CASE Len(argv) = 3 /\ Check # "ok"
      <4>1. Reply = [Silent EXCEPT !.kind = Check]
        BY <3>1, <3>3, Zenon DEF DiskCommand
      <4>2. Reply.kind = Check
        BY <4>1, SilentKind, Zenon
      <4>. QED
        BY <4>2, CheckSays
    <3>4. CASE Len(argv) = 3 /\ Check = "ok"
      <4>1. Reply.kind = "read"
        BY <3>1, <3>4 DEF DiskCommand
      <4>. QED
        BY <4>1
    <3>. QED
      BY <3>2, <3>3, <3>4
  <2>2. CASE StringAt(argv[1]) # DiskR
    <3>1. Reply = [Silent EXCEPT !.kind = "other"]
      BY <1>2, <2>2, Zenon DEF Reply
    <3>2. Reply.kind = "other"
      BY <3>1, SilentKind, Zenon
    <3>. QED
      BY <3>2
  <2>. QED
    BY <2>1, <2>2
<1>. QED
  BY <1>1, <1>2

\* The strings of the buffer are words of characters.
LEMMA WordsOfCharacters ==
    ASSUME IInv, pc # "scan", NEW k \in DOMAIN argv
    PROVE  /\ StringAt(argv[k]) \in Seq(Char) /\ Len(StringAt(argv[k])) \in Nat
           /\ DOMAIN StringAt(argv[k]) = 1 .. Len(StringAt(argv[k]))
<1>. DEFINE w == StringAt(argv[k])
<1>1. /\ typed \in Seq(Char) /\ Len(typed) \in Nat /\ argv \in Seq(1 .. Len(typed) + 1)
  BY DEF IInv, Typed
<1>2. PICK p \in 1 .. Len(typed) + 1 : p = argv[k]
  BY <1>1
<1>. DEFINE ends == {e \in Separators \cup {Len(typed) + 1} : e >= p}
<1>3. w = SubSeq(typed, p, Min(ends) - 1)
  BY <1>1, <1>2, StringCut
<1>4. Min(ends) \in p .. Len(typed) + 1
  <2>1. Separators \subseteq 1 .. Len(typed)
    BY <1>1, SeparatorsAre
  <2>2. ends \in SUBSET Nat /\ Len(typed) + 1 \in ends
    <3>1. Len(typed) + 1 \in Nat /\ Len(typed) + 1 >= p
      BY <1>1, <1>2
    <3>2. Len(typed) + 1 \in ends
      BY <3>1
    <3>3. Separators \in SUBSET Nat
      BY <1>1, <2>1
    <3>4. ASSUME NEW e \in ends PROVE e \in Nat
      <4>1. e \in Separators \/ e = Len(typed) + 1
        BY <3>4
      <4>. QED
        BY <3>1, <3>3, <4>1
    <3>. QED
      BY <3>2, <3>4
  <2>3. Min(ends) \in ends /\ Min(ends) <= Len(typed) + 1
    BY <2>2, MinOfNats
  <2>. QED
    BY <1>1, <1>2, <2>2, <2>3
<1>. HIDE DEF ends
<1>5. PICK e \in p .. Len(typed) + 1 : e = Min(ends)
  BY <1>4
<1>6. w = SubSeq(typed, p, e - 1)
  BY <1>3, <1>5
<1>7. w \in Seq(Char)
  BY <1>1, <1>2, <1>5, <1>6
<1>. HIDE DEF w
<1>8. Len(w) \in Nat /\ DOMAIN w = 1 .. Len(w)
  BY <1>7
<1>. QED
  BY <1>7, <1>8 DEF w

\* The checks, for a word that is not a numeral too large for an int.
LEMMA WordChecked ==
    ASSUME NEW word \in Seq(Char), Len(word) \in Nat, DOMAIN word = 1 .. Len(word),
           Fits(word), NEW max \in 0 .. IntLimit - 1
    PROVE  /\ is_valid_number(word) <=> Numeral(word)
           /\ Numeral(word) => string_to_int(word) = Value(word)
           /\ Numeral(word) => (string_to_int(word) \in 0 .. max <=> Value(word) <= max)
<1>1. is_valid_number(word) <=> Numeral(word)
  BY DEF is_valid_number, Numeral
<1>2. ASSUME Numeral(word) PROVE Value(word) \in Nat /\ string_to_int(word) = Value(word)
  <2>1. (\A i \in 1 .. Len(word) : word[i] \in Digit) /\ Value(word) < IntLimit
    BY <1>2 DEF Numeral, Fits
  <2>. QED
    BY <2>1, ParsedExactly
<1>3. max \in Nat
  BY CommandLineAssumption
<1>. QED
  BY <1>1, <1>2, <1>3

\* What the checks say of the second and the third word.
LEMMA CheckOk ==
    Check = "ok" <=>
        /\ is_valid_number(StringAt(argv[2])) /\ is_valid_number(StringAt(argv[3]))
        /\ string_to_int(StringAt(argv[2])) \in 0 .. MaxLba
        /\ string_to_int(StringAt(argv[3])) \in 0 .. MaxCount
BY DEF Check

\* The words by number.
LEMMA WordsBehindArgv ==
    ASSUME IInv, ArgvExact, pc # "scan"
    PROVE  /\ DOMAIN argv = 1 .. Len(argv) /\ Len(argv) \in Nat \ {0}
           /\ DOMAIN Words = 1 .. Len(argv) /\ Len(Words) = Len(argv)
           /\ \A k \in 1 .. Len(argv) : Words[k] = StringAt(argv[k])
<1>1. argv \in Seq(1 .. Len(typed) + 1) /\ Len(argv) >= 1
  BY DEF IInv, Typed, StartsSoFar
<1>2. PICK m \in Nat \ {0} : m = Len(argv) /\ DOMAIN argv = 1 .. m
  BY <1>1
<1>3. Words = [k \in 1 .. m |-> StringAt(argv[k])]
  BY <1>2 DEF ArgvExact
<1>4. DOMAIN Words = 1 .. m /\ \A k \in 1 .. m : Words[k] = StringAt(argv[k])
  BY <1>3
<1>5. Len(Words) = m
  BY <1>3
<1>. QED
  BY <1>2, <1>4, <1>5

\* diskW writes for exactly the lines that ask for it, at the address and with
\* the count that were typed, as long as the numbers fit in an int: whatever
\* quotes, spaces and leading zeros the line has.
THEOREM WriteIsAsTyped == Spec => []WriteAsTyped
<1>1. ASSUME IInv, ArgvExact, Answered, pc = "done", \A k \in DOMAIN Words : Fits(Words[k])
      PROVE  /\ (answer.kind = "write") <=> GoodWrite
             /\ GoodWrite => answer.lba = Value(Words[2]) /\ answer.count = Value(Words[3])
  <2>. DEFINE w1 == StringAt(argv[1])
              w2 == StringAt(argv[2])
              w3 == StringAt(argv[3])
              m == Len(argv)
  <2>1. /\ DOMAIN argv = 1 .. m /\ m \in Nat \ {0}
        /\ DOMAIN Words = 1 .. m /\ Len(Words) = m
        /\ \A k \in 1 .. m : Words[k] = StringAt(argv[k])
    BY <1>1, WordsBehindArgv
  <2>2. answer = Reply
    BY <1>1 DEF Answered
  <2>3. /\ answer.kind = "write" <=> w1 = DiskW /\ m = 4 /\ Check = "ok"
        /\ answer.kind = "write" =>
              answer.lba = string_to_int(w2) /\ answer.count = string_to_int(w3)
    BY <2>2, ReplyWrites
  <2>4. Check = "ok" <=>
           /\ is_valid_number(w2) /\ is_valid_number(w3)
           /\ string_to_int(w2) \in 0 .. MaxLba /\ string_to_int(w3) \in 0 .. MaxCount
    BY CheckOk
  <2>. HIDE DEF w1, w2, w3, m
  <2>5. CASE m # 4
    BY <2>1, <2>3, <2>5 DEF GoodWrite
  <2>6. CASE m = 4
    <3>1. 1 \in 1 .. m /\ 2 \in 1 .. m /\ 3 \in 1 .. m
      BY <2>6
    <3>2. Words[1] = w1 /\ Words[2] = w2 /\ Words[3] = w3
      BY <2>1, <3>1 DEF w1, w2, w3
    <3>3. Fits(w2) /\ Fits(w3)
      BY <1>1, <2>1, <3>1, <3>2
    <3>4. pc # "scan"
      BY <1>1
    <3>5. w2 \in Seq(Char) /\ Len(w2) \in Nat /\ DOMAIN w2 = 1 .. Len(w2)
      BY <1>1, <2>1, <3>1, <3>4, WordsOfCharacters DEF w2
    <3>6. w3 \in Seq(Char) /\ Len(w3) \in Nat /\ DOMAIN w3 = 1 .. Len(w3)
      BY <1>1, <2>1, <3>1, <3>4, WordsOfCharacters DEF w3
    <3>7. /\ is_valid_number(w2) <=> Numeral(w2)
          /\ Numeral(w2) => string_to_int(w2) = Value(w2)
          /\ Numeral(w2) => (string_to_int(w2) \in 0 .. MaxLba <=> Value(w2) <= MaxLba)
      BY <3>3, <3>5, WordChecked, CommandLineAssumption
    <3>8. /\ is_valid_number(w3) <=> Numeral(w3)
          /\ Numeral(w3) => string_to_int(w3) = Value(w3)
          /\ Numeral(w3) => (string_to_int(w3) \in 0 .. MaxCount <=> Value(w3) <= MaxCount)
      BY <3>3, <3>6, WordChecked, CommandLineAssumption
    <3>9. GoodWrite <=>
             /\ w1 = DiskW /\ Numeral(w2) /\ Value(w2) <= MaxLba
             /\ Numeral(w3) /\ Value(w3) <= MaxCount
      BY <2>1, <2>6, <3>2, Zenon DEF GoodWrite
    <3>10. answer.kind = "write" <=> GoodWrite
      BY <2>3, <2>4, <2>6, <3>7, <3>8, <3>9, Zenon
    <3>11. GoodWrite => answer.lba = Value(w2) /\ answer.count = Value(w3)
      BY <2>3, <3>7, <3>8, <3>9, <3>10, Zenon
    <3>. QED
      BY <3>2, <3>10, <3>11, Zenon
  <2>. QED
    BY <2>5, <2>6
<1>2. IInv /\ ArgvExact /\ Answered => WriteAsTyped
  BY <1>1 DEF WriteAsTyped
<1>. QED
  BY <1>2, Invariance, ArgvIsExact, AnsweredAlways, PTL

\* The address in diskW's message is the one written to: int_to_string gives a
\* numeral with that value, in its shortest form, for every address.
THEOREM MessageIsTrue == Spec => []MessageTrue
<1>1. ASSUME IInv, Answered, answer.kind = "write"
      PROVE  /\ answer.text # <<>> /\ Numeral(answer.text)
             /\ Value(answer.text) = answer.lba
             /\ answer.text[1] = Zero => Len(answer.text) = 1
  <2>1. answer = Reply
    <3>1. Silent.kind # "write"
      BY DEF Silent
    <3>. QED
      BY <1>1, <3>1 DEF Answered
  <2>2. PICK n, t : n = answer.lba /\ t = answer.text
    OBVIOUS
  <2>3. t = int_to_string(n)
    BY <1>1, <2>1, <2>2, ReplyWrites
  <2>4. n \in 0 .. MaxLba
    BY <1>1, <2>2 DEF IInv, Typed
  <2>5. n \in Nat
    BY <2>4, CommandLineAssumption
  <2>6. CASE n = 0
    <3>1. t = <<Zero>>
      BY <2>3, <2>6 DEF int_to_string
    <3>2. Len(t) = 1 /\ t[1] = Zero /\ t # <<>> /\ DOMAIN t = 1 .. 1
      BY <3>1
    <3>3. Zero \in Digit /\ Zero - Zero = 0 /\ Base * 0 = 0
      BY CommandLineAssumption DEF Digit, Above, Zero
    <3>4. Numeral(t)
      BY <3>2, <3>3 DEF Numeral
    <3>5. Value(t) = 0
      <4>1. PICK v : Values(v, t, 1) /\ Value(t) = v[1]
        <5>1. Len(t) \in Nat
          BY <3>2
        <5>2. \E v : Values(v, t, Len(t)) /\ Value(t) = v[Len(t)]
          BY <5>1, ValueSteps
        <5>. QED
          BY <3>2, <5>2
      <4>2. v[0] = 0 /\ \A k \in 0 .. 1 - 1 : v[k + 1] = Base * v[k] + (t[k + 1] - Zero)
        BY <4>1, ValuesStep
      <4>3. v[0 + 1] = Base * v[0] + (t[0 + 1] - Zero)
        BY <4>2
      <4>. QED
        BY <3>2, <3>3, <4>1, <4>2, <4>3
    <3>. QED
      BY <2>2, <2>6, <3>2, <3>4, <3>5
  <2>7. CASE n # 0
    <3>1. t = Reverse(Digits[n])
      BY <2>3, <2>7 DEF int_to_string
    <3>2. Shown(n, t)
      BY <2>5, <2>7, <3>1, DigitsShown
    <3>3. t \in Seq(Digit) /\ Len(t) \in Nat \ {0} /\ Value(t) = n /\ t[1] # Zero
      BY <3>2 DEF Shown
    <3>4. Numeral(t)
      BY <3>3 DEF Numeral
    <3>5. t # <<>>
      BY <3>3
    <3>. QED
      BY <2>2, <3>3, <3>4, <3>5
  <2>. QED
    BY <2>6, <2>7
<1>2. IInv /\ Answered => MessageTrue
  BY <1>1 DEF MessageTrue
<1>. QED
  BY <1>2, Invariance, AnsweredAlways, PTL
=============================================================================
