---------------------------- MODULE HeapClients ----------------------------
(***************************************************************************)
(* The heap's callers in the running kernel: the commands of the shell     *)
(* (process_input of src/lib/raxzus_shell.c) with the memory they take     *)
(* through tokinize_words, diskR and the two memory tests of               *)
(* src/lib/memtest.c, composed with the heap of module HeapDomains.        *)
(*                                                                         *)
(* A command is the sequence of its kmalloc and kfree calls and of the     *)
(* verdicts it prints; the user types any sequence of commands.  One       *)
(* command runs at a time: a second Enter waits until the keyboard handler *)
(* has returned (HandlersSerial of module Interrupts), also while memtest  *)
(* 2 has interrupts on.  A caller fills all of the memory it gets, where   *)
(* the code of memtest 1 writes its first word and the timed allocations   *)
(* of memtest 2 are never touched.                                         *)
(***************************************************************************)
EXTENDS HeapDomains, SequencesExt

CONSTANTS
    FragN,        \* FRAG_N
    SizeOf,       \* the size in words of each thing the commands allocate
    ReadSizes,    \* sizes of a diskR buffer: 10 sectors and more
    MaxCommands   \* bound: commands typed

\* The tables and blocks of memtest 1, in the order it takes them.
TableNames == <<"s64", "s128", "s256", "s512", "s1024">>

ASSUME ClientsAssumption ==
    /\ FragN \in Nat \ {0} /\ MaxCommands \in Nat
    /\ ToSet(TableNames) \cup {"table", "sample", "argv", "buf64k", "buf1m",
                           "tbuf", "tbuf8", "tbig"} = DOMAIN SizeOf
    /\ Range(SizeOf) \cup ReadSizes \subseteq Sizes

VARIABLES
    program,   \* what is left of the running command
    held,      \* its pointer variables
    waiting,   \* a kmalloc of it has started and not returned
    verdict,   \* the failures the tests have printed
    typed,     \* commands typed so far
    kept       \* ghost: early returns of disk commands, and diskR buffers

clientVars == <<program, held, waiting, verdict, typed, kept>>
-----------------------------------------------------------------------------
(* Instructions. *)

\* v = kmalloc(size), and what the code does when that is NULL: it writes
\* through it ("fault"), prints a failure ("report"), or never looks ("ignore").
Alloc(v, size, onNull) ==
    [do |-> "alloc", var |-> v, size |-> size, onNull |-> onNull]
Free(v) == [do |-> "free", var |-> v]
\* Are the values in these variables' memory still there; if not, does the
\* command return?
Verify(vs, stops) == [do |-> "verify", vars |-> vs, stops |-> stops]
\* Does v lie above w, when neither is NULL?
Above(v, w) == [do |-> "above", var |-> v, than |-> w]

Var(name)      == <<name, 0>>
Block(name, i) == <<name, i>>
Vars == {Var(n) : n \in DOMAIN SizeOf \cup {"buffer"}}
        \cup {Block(n, i) : n \in ToSet(TableNames), i \in 1 .. FragN}
Nothing == [ptr |-> NULL, size |-> 0]

Each(names, F(_)) == [k \in DOMAIN names |-> F(names[k])]
-----------------------------------------------------------------------------
(* The commands. *)

\* A round of the timing loops: kmalloc(1024), a store, kfree.  The other 31
\* rounds take and give back the block of the first.
Sample == <<Alloc(Var("sample"), SizeOf["sample"], "fault"), Free(Var("sample"))>>

\* The blocks in the order of the loops over FRAG_N: one of each table, then the
\* next of each.
AllBlocks ==
    [k \in 1 .. FragN * Len(TableNames) |->
        Block(TableNames[((k - 1) % Len(TableNames)) + 1],
              ((k - 1) \div Len(TableNames)) + 1)]

\* The blocks the "swiss cheese" frees: every other one of two classes.
Holes(name) == [k \in 1 .. (FragN + 1) \div 2 |-> Block(name, 2 * k - 1)]

cmd_memtest_v1 ==
    LET blocks == ToSet(AllBlocks)
        holes  == Holes("s64") \o Holes("s256")
    IN  Each(TableNames, LAMBDA n : Alloc(Var(n), SizeOf["table"], "fault"))
        \o Each(AllBlocks, LAMBDA v : Alloc(v, SizeOf[v[1]], "fault"))
        \o <<Verify(blocks, TRUE)>>
        \o Each(holes, Free)
        \o <<Verify(blocks \ ToSet(holes), TRUE)>>
        \o Sample
        \o Each(AllBlocks, Free)
        \o Each(<<"s64", "s256", "s512", "s128", "s1024">>, LAMBDA n : Free(Var(n)))
        \o Sample

\* Mutants: tbig is not given back; it is given back after tbuf8.
memtest_v2_frees_four  == <<"tbuf", "tbuf8", "buf64k", "buf1m">>
memtest_v2_frees_later == <<"tbuf", "tbuf8", "tbig", "buf64k", "buf1m">>

\* The order in which memtest 2 gives its memory back.
memtest_v2_frees == <<"tbig", "tbuf", "tbuf8", "buf64k", "buf1m">>

cmd_memtest_v2 ==
    LET alloc(n, onNull) == Alloc(Var(n), SizeOf[n], onNull)
    IN  <<alloc("buf64k", "report"), Verify({Var("buf64k")}, FALSE),
          alloc("buf1m", "report"), Verify({Var("buf1m")}, FALSE),
          Above(Var("buf1m"), Var("buf64k")),
          alloc("tbuf", "ignore"), alloc("tbuf8", "ignore"), alloc("tbig", "ignore")>>
        \o Each(memtest_v2_frees, LAMBDA n : Free(Var(n)))

\* What a command line does with the heap.  "other" is every command that takes
\* no memory of its own, diskW included; "refused" a disk command with wrong
\* arguments.  diskR with fewer than 10 sectors, whose read is longer than its
\* buffer, is left out.
Commands == [name : {"other", "refused", "memtest 1", "memtest 2"}, size : {0}]
            \cup [name : {"diskR"}, size : ReadSizes]

process_input(cmd) ==
    LET argv == Var("argv")
        tokinize_words == <<Alloc(argv, SizeOf["argv"], "fault")>>
    IN  tokinize_words \o
        (CASE cmd.name = "other"     -> <<Free(argv)>>
           [] cmd.name = "refused"   -> <<>>
           [] cmd.name = "diskR"     -> <<Alloc(Var("buffer"), cmd.size, "fault"),
                                          Free(argv)>>
           [] cmd.name = "memtest 1" -> cmd_memtest_v1 \o <<Free(argv)>>
           [] cmd.name = "memtest 2" -> cmd_memtest_v2 \o <<Free(argv)>>)
-----------------------------------------------------------------------------
(* A command runs. *)

ClientInit ==
    /\ Init
    /\ program = <<>> /\ waiting = FALSE
    /\ held = [v \in Vars |-> Nothing]
    /\ verdict = {}
    /\ typed = 0
    /\ kept = [refused |-> 0, buffers |-> 0]

\* The processor is about to execute an instruction of the command.
At(do) ==
    /\ cpu = "run" /\ op = Idle /\ ~waiting
    /\ program # <<>> /\ Head(program).do = do

\* Enter: the keyboard handler calls process_input.
enter_command(cmd) ==
    /\ cpu = "run" /\ op = Idle
    /\ program = <<>> /\ typed < MaxCommands
    /\ program' = process_input(cmd)
    /\ held' = [v \in Vars |-> Nothing]
    /\ typed' = typed + 1
    /\ kept' = CASE cmd.name = "refused" -> [kept EXCEPT !.refused = @ + 1]
                 [] cmd.name = "diskR"   -> [kept EXCEPT !.buffers = @ + 1]
                 [] OTHER                -> kept
    /\ UNCHANGED <<vars, waiting, verdict>>

call_kmalloc ==
    /\ At("alloc")
    /\ LET size == Head(program).size IN
           alloc_fast(size) \/ alloc_slow(size) \/ large_begin(size)
    /\ waiting' = TRUE
    /\ UNCHANGED <<program, held, verdict, typed, kept>>

\* The heap works on the call in progress; its caller gets the pointer, and
\* fills the memory.
heap_step ==
    /\ Step
    /\ IF op.kind = "fill"
       THEN /\ held' = [held EXCEPT ![Head(program).var] = op.of]
            /\ program' = Tail(program) /\ waiting' = FALSE
            /\ UNCHANGED <<verdict, typed, kept>>
       ELSE UNCHANGED clientVars

\* kmalloc returned NULL: the memory is full.
got_null ==
    /\ cpu = "run" /\ op = Idle /\ waiting
    /\ IF Head(program).onNull = "fault"
       THEN Stop("fault") /\ UNCHANGED clientVars
       ELSE /\ program' = Tail(program) /\ waiting' = FALSE
            /\ verdict' = IF Head(program).onNull = "report"
                          THEN verdict \cup {"null"} ELSE verdict
            /\ UNCHANGED <<vars, held, typed, kept>>

verify ==
    /\ At("verify")
    /\ LET vs    == {v \in Head(program).vars : held[v] # Nothing}
           words == UNION {UserWords(held[v]) : v \in vs}
           good  == \A w \in words : Read(m, w) = Sentinel(w)
       IN  IF \E w \in words : ~Mapped(m, w)
           THEN Stop("fault") /\ UNCHANGED clientVars
           ELSE /\ verdict' = IF good THEN verdict ELSE verdict \cup {"corrupt"}
                /\ program' = IF good \/ ~Head(program).stops THEN Tail(program)
                              ELSE <<Free(Var("argv"))>>
                /\ UNCHANGED <<vars, held, waiting, typed, kept>>

above ==
    /\ At("above")
    /\ LET v == held[Head(program).var]
           w == held[Head(program).than]
       IN  verdict' = IF v # Nothing /\ w # Nothing /\ v.ptr <= w.ptr
                      THEN verdict \cup {"overlap"} ELSE verdict
    /\ program' = Tail(program)
    /\ UNCHANGED <<vars, held, waiting, typed, kept>>

\* Mutant: the macro leaves the pointer as it was.
call_kfree_keeps ==
    /\ At("free")
    /\ LET a == held[Head(program).var] IN
          \/ free_small(a)
          \/ large_free_begin(a)
          \/ Route(a.ptr) = 0 /\ UNCHANGED vars
    /\ program' = Tail(program)
    /\ UNCHANGED <<held, waiting, verdict, typed, kept>>

\* The macro kfree: kfree_heap, in which NULL meets none of the address tests,
\* then the variable is cleared.
call_kfree ==
    /\ At("free")
    /\ LET a == held[Head(program).var] IN
          \/ free_small(a)
          \/ large_free_begin(a)
          \/ Route(a.ptr) = 0 /\ UNCHANGED vars
    /\ held' = [held EXCEPT ![Head(program).var] = Nothing]
    /\ program' = Tail(program)
    /\ UNCHANGED <<waiting, verdict, typed, kept>>

ClientNext ==
    \/ \E cmd \in Commands : enter_command(cmd)
    \/ call_kmalloc \/ heap_step \/ got_null
    \/ verify \/ above \/ call_kfree

ClientSpec == ClientInit /\ [][ClientNext]_<<vars, clientVars>>
-----------------------------------------------------------------------------
(* Properties. *)

AtPrompt == cpu = "run" /\ op = Idle /\ program = <<>>

\* The memory tests judge a heap that works and print no failure but "returned
\* NULL", in whatever order they are run and whatever is left on the free lists
\* by the commands before them.  The verdict on the addresses is the subtle
\* one: buf1m lies above buf64k only because no freed slot long enough for it
\* ever comes directly under the slot that buf64k takes.
NoFalseAlarm == TablesBacked => verdict \subseteq {"null"}

\* Back at the prompt, the heap has everything it handed out except argv of
\* each refused disk command and one buffer for each diskR: the tests lose
\* nothing, not even when they ran out of memory half-way.
OnlyKnownLeaks ==
    (AtPrompt /\ TablesBacked) =>
        /\ Cardinality({a \in live : a.size = SizeOf["argv"]}) = kept.refused
        /\ Cardinality(live) = kept.refused + kept.buffers
=============================================================================
