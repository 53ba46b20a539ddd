--------------------------- MODULE DriverOutline ---------------------------
(***************************************************************************)
(* Conditions on the text of a driver's programs, from which properties of *)
(* its runs follow however many accesses fail and however long it waits.   *)
(*                                                                         *)
(* An outline of a function says for each of its places what is known      *)
(* there: alternatives, one of which holds whenever the function is at the *)
(* place.  It is sound when each way an instruction may take, from what is *)
(* known before it, leads to something known where it leads.               *)
(* DriverOutlineProofs proves that functions with sound outlines keep to   *)
(* them; OutlineOf finds outlines for TLC, which looks whether they are    *)
(* sound.                                                                  *)
(***************************************************************************)
EXTENDS DriverMachine

CONSTANT Savable  \* the registers that the configuration memory of a board may hold

---------------------------------------------------------------------------
(* A fact is a subject and the value it has.                               *)

OfBank(d)     == <<"bank", d>>
OfRegister(k) == <<"register", k>>
OfField(x)    == <<"field", x>>
OfErr         == <<"own", "err">>
OfPut         == <<"own", "put">>
OfArg         == <<"own", "arg">>
OfFaults      == <<"own", "faults">>
OfFrozen      == <<"own", "frozen">>
OfReads       == <<"own", "reads">>
OfKept        == <<"own", "kept">>      \* the registers hold what the memory says
OfFresh       == <<"own", "fresh">>     \* a cancellation is not of an earlier call
OfRequest     == <<"own", "request">>   \* there is one, of this call

Whether(P) == IF P THEN "yes" ELSE "no"
Own ==
  [err |-> err, put |-> put, arg |-> arg, faults |-> IF faults = 0 THEN "none" ELSE "some",
   frozen |-> frozen, reads |-> reads,
   kept |-> Whether(\A k \in DOMAIN memory : regs[k] = memory[k]),
   fresh |-> Whether(cancel # "before"), request |-> Whether(cancel = "now")]
Values == [bank |-> selected, register |-> regs, field |-> drv, own |-> Own]
Value(s) == Values[s[1]][s[2]]
Names(b) ==
  [bank |-> Devices, register |-> DOMAIN AtPower[b], field |-> DOMAIN FieldsOf[b],
   own |-> {"err", "put", "arg", "faults", "frozen", "reads", "kept", "fresh", "request"}]
IsSubject(b, s) ==
  s = <<s[1], s[2]>> /\ s[1] \in {"bank", "register", "field", "own"} /\ s[2] \in Names(b)[s[1]]
Holds(F) == \A p \in F : IsSubject(board, p[1]) => Value(p[1]) = p[2]

\* Facts when nothing is known of a subject any more, when it got a value,
\* and when it got the value of another one.
Without(F, s)    == {p \in F : p[1] # s}
With(F, s, v)    == Without(F, s) \cup {<<s, v>>}
Told(F, s)       == {p[2] : p \in {q \in F : q[1] = s}}
Copied(F, s, to) == Without(F, to) \cup {<<to, v>> : v \in Told(F, s)}

AtFirst(b) ==
  {<<OfBank(d), 0>> : d \in Devices}
    \cup {<<OfRegister(k), AtPower[b][k]>> : k \in DOMAIN AtPower[b]}
    \cup {<<OfField(x), FieldsOf[b][x]>> : x \in DOMAIN FieldsOf[b]}
    \cup {<<OfErr, "OK">>, <<OfPut, "OK">>, <<OfArg, NoArg>>, <<OfFaults, "none">>,
          <<OfFrozen, "thawed">>, <<OfReads, "none">>, <<OfKept, "yes">>}

---------------------------------------------------------------------------
(* What is known after an access that was carried out.                     *)

\* The bank a write is made in, if it is known; a write whose bank is not
\* may be to any register of its address.
BanksOf(i, F) == IF i.bank = AllBanks THEN {AllBanks} ELSE Told(F, OfBank(i.dev))
MayReach(i, F, k) == k[1] = i.dev /\ k[3] = i.reg /\ BanksOf(i, F) \subseteq {k[2]}

MayLose(b, i) == i.op = "write" /\ \E k \in Savable[b] : k[1] = i.dev /\ k[3] = i.reg
AfterWrite(b, i, F) ==
  {p \in F : /\ p[1][1] = "register" => ~MayReach(i, F, p[1][2])
             /\ p[1] = OfKept => ~MayLose(b, i)}
    \cup {<<OfRegister(<<i.dev, n, i.reg>>), i.val>> : n \in BanksOf(i, F)}

Unfreezes(i) == {"T", "D"} \cap i.val # {}
AfterReset(b, i, F) ==
  {p \in F : /\ p[1][1] = "register" => p[1][2][1] \notin i.val
             /\ p[1] = OfKept => \A k \in Savable[b] : k[1] \notin i.val
             /\ p[1] = OfFrozen => ~Unfreezes(i)}
    \cup {<<OfRegister(k), AtPower[b][k]>> : k \in {k \in DOMAIN AtPower[b] : k[1] \in i.val}}
    \cup IF Unfreezes(i) THEN {<<OfFrozen, "thawed">>} ELSE {}

AfterLoad(b, F) ==
  With({p \in F : \A k \in Savable[b] : p[1] # OfBank(k[1]) /\ p[1] # OfRegister(k)},
       OfKept, "yes")

\* What a read adds to what a measurement has read, as in Read.
AfterRead(i, F) ==
  Without(F, OfReads) \cup
    {<<OfReads, LET taken == IF v = "thawed" THEN "live" ELSE "frozen"
                IN  IF r \in {"none", taken} THEN taken ELSE IF i.astray THEN r ELSE "mixed">> :
       r \in Told(F, OfReads), v \in Told(F, OfFrozen)}

Reaches(i, F) == i.dev = NoDevice \/ i.bank \in Told(F, OfBank(i.dev))
AfterFreeze(i, F, to) == IF Reaches(i, F) THEN With(F, OfFrozen, to) ELSE Without(F, OfFrozen)

\* An access that failed may have been carried out in part.
Fleeting == {OfFrozen, OfReads, OfKept}
Faulted(F) == With({p \in F : p[1] \notin Fleeting}, OfFaults, "some")

\* A cancellation that is found, and is not an old one, is of this call.
Found(F) == IF Told(F, OfFresh) = {} THEN F ELSE With(F, OfRequest, "yes")

---------------------------------------------------------------------------
(* Where an instruction may lead, <<place, facts>>; 0 is the end.          *)

About(i) == IF i.reg = "arg" THEN OfArg ELSE OfField(i.reg)
Provided(possible, flows) == IF possible THEN flows ELSE {}

Flow(b, n, i, F) ==
  LET errs    == Told(F, OfErr)
      puts    == Told(F, OfPut)
      decided == Told(F, About(i))
      next    == <<n + 1, F>>
      jump    == <<n + i.to, F>>
      fail    == <<n + i.fail, F>>
      raised  == <<n + i.fail, With(F, OfErr, i.err)>>
      settled == <<n + 1, With(F, OfErr, "OK")>>
      Access(G) == {<<n + 1, G>>, <<n + i.fail, With(Faulted(F \cap G), OfErr, "I2C")>>}
  IN  CASE i.op = "select" -> Access(With(F, OfBank(i.dev), i.bank))
        [] i.op \in {"write", "save"} -> Access(AfterWrite(b, i, F))
        [] i.op = "jump" -> {jump}
        [] i.op = "choose" -> {next, jump}
        [] i.op = "branch" -> Provided(decided \subseteq i.val, {next})
                                \cup Provided(decided \cap i.val = {}, {jump})
        [] i.op = "need" -> Provided(decided \subseteq i.val, {next})
                              \cup Provided(decided \cap i.val = {}, {raised})
        [] i.op \in {"check", "timeout"} -> {next, raised}
        [] i.op = "raise" -> {raised}
        [] i.op = "read" -> Access(AfterRead(i, F))
        [] i.op = "probe" -> Access(F)
        [] i.op = "assign" -> {<<n + 1, With(F, OfField(i.reg), i.val)>>}
        [] i.op = "assignArg" -> {<<n + 1, Copied(F, OfArg, OfField(i.reg))>>}
        [] i.op = "unless" -> Provided(errs \subseteq {"OK"}, {jump})
                                \cup Provided("OK" \notin errs, {next})
        [] i.op = "catch" -> Provided(errs \subseteq {"OK"}, {jump})
                               \cup Provided("OK" \notin errs /\ errs \subseteq i.val, {settled})
                               \cup Provided("OK" \notin errs /\ errs \cap i.val = {}, {fail})
        [] i.op = "forget" -> {settled}
        [] i.op = "aside" -> {<<n + 1, With(Copied(F, OfErr, OfPut), OfErr, "OK")>>}
        [] i.op = "again" ->
             Provided(puts \subseteq {"OK"}, {<<n + 1, With(F, OfPut, "OK")>>})
               \cup Provided("OK" \notin puts,
                             {<<n + i.fail, With(Copied(F, OfPut, OfErr), OfPut, "OK")>>})
        [] i.op = "rethrow" -> Provided(errs \subseteq {"OK"}, {next})
                                 \cup Provided("OK" \notin errs, {fail})
        [] i.op = "reset" -> Access(AfterReset(b, i, F))
        [] i.op = "load" -> Access(AfterLoad(b, F))
        [] i.op = "clear" -> {<<n + 1, With(F, OfKept, "yes")>>}
        [] i.op = "freeze" -> Access(AfterFreeze(i, F, "frozen"))
        [] i.op = "thaw" -> {<<n + 1, AfterFreeze(i, F, "thawed")>>, <<n + 1, Faulted(F)>>}
        [] i.op = "sample" -> {<<n + 1, With(F, OfReads, "none")>>}
        [] i.op \in {"watch", "tick"} -> {next}
        [] i.op = "clearCancel" -> {<<n + 1, With(Without(F, OfRequest), OfFresh, "yes")>>}
        [] i.op = "testCancel" -> {next, <<n + i.fail, With(Found(F), OfErr, i.err)>>}
        [] i.op = "return" -> {<<0, With(F, OfReads, "none")>>}

---------------------------------------------------------------------------
(* Outlines.                                                               *)

Covers(alternatives, F) == \E G \in alternatives : G \subseteq F
Resumed(F) == With(With(F, OfErr, "OK"), OfArg, NoArg)
\* At a call a cancellation becomes one of an earlier call.
Called(F, a) == Without(Without(With(F, OfArg, a), OfFresh), OfRequest)

\* Of what another thread or a write may make true, only that it is is kept.
Closed(b, F) ==
  \A p \in F : IsSubject(b, p[1]) /\ (p[1] \in {OfKept, OfFresh, OfRequest} => p[2] = "yes")

Followed(b, P, K) ==
  \A n \in DOMAIN P : \A F \in K[n] :
    /\ Closed(b, F)
    /\ \A flow \in Flow(b, n, P[n], F) : Covers(K[flow[1]], flow[2])

\* A program saves only registers that the configuration memory may hold.
SavesSavable(b, P) ==
  \A n \in DOMAIN P : P[n].op = "save" =>
    \A k \in DOMAIN AtPower[b] : k[1] = P[n].dev /\ k[3] = P[n].reg => k \in Savable[b]

\* An outline K of function f with the program P, and start: what is known
\* between calls.
Sound(b, f, P, K, start) ==
  /\ \A F \in start : \A a \in ArgsOf(f) : Covers(K[1], Called(F, a))
  /\ Followed(b, P, K) /\ SavesSavable(b, P)
  /\ \A F \in K[0] : Closed(b, F) /\ Covers(start, Resumed(F))

---------------------------------------------------------------------------
(* The search.  What is watched says for which subjects facts are kept,    *)
(* w.watch, or w.after once an access has failed; alternatives that differ *)
(* in what they say of w.split are kept apart, others become what they     *)
(* have in common; and w.start is what is known between calls.             *)

JumpsOf(P) ==
  {<<n, n + P[n].to>> : n \in {m \in DOMAIN P : P[m].op \in Branching}}
    \cup {<<n, n + P[n].fail>> : n \in {m \in DOMAIN P : P[m].op \in Failing}}
Seen(w, F) == {p \in F : p[1] \in IF <<OfFaults, "some">> \in F THEN w.after ELSE w.watch}
Common(facts) == {p \in UNION facts : \A F \in facts : p \in F}
Joined(w, alternatives) ==
  LET kept == {<<{p \in F : p[1] \in w.split}, F>> : F \in alternatives}
  IN  {Common({q[2] : q \in {q \in kept : q[1] = k}}) : k \in {q[1] : q \in kept}}

\* Of function f with the program P: its text, the place of its end, which
\* stands for 0, the places that lead to each, and what is known at first.
Searched(b, f, P, w) ==
  LET J == {e \in JumpsOf(P) : e[2] # e[1] + 1}
  IN  [board |-> b, text |-> P, end |-> Len(P) + 1, watch |-> w,
       into |-> [n \in {e[2] : e \in J} |-> {e[1] : e \in {e \in J : e[2] = n}}],
       loops |-> \E e \in J : e[1] >= e[2],
       called |-> UNION {{Seen(w, Called(F, a)) : a \in ArgsOf(f)} : F \in w.start}]
PlaceIn(s, n) == IF n = 0 THEN s.end ELSE n
Before(s, n) == ({n - 1} \ {0}) \cup IF n \in DOMAIN s.into THEN s.into[n] ELSE {}
\* What is known at a place and where it leads from there.
Place(s, n, alternatives) ==
  [known |-> alternatives,
   leads |-> IF n = s.end THEN {}
             ELSE {<<PlaceIn(s, flow[1]), Seen(s.watch, flow[2])>> :
                     flow \in UNION {Flow(s.board, n, s.text[n], F) : F \in alternatives}}]
Coming(place, n) == {flow[2] : flow \in {g \in place.leads : g[1] = n}}

\* Round after round through the text, each place from those that lead to it;
\* of those behind it, what the round before has found.  (The text is taken
\* by pages only so that the recursion is not deep.)
Page == 32
Known(s, old, k, n) ==
  Joined(s.watch,
    (IF n = 1 THEN s.called ELSE {})
      \cup UNION {Coming(k[m], n) : m \in {m \in Before(s, n) : m < n}}
      \cup UNION {Coming(old[m], n) : m \in {m \in Before(s, n) : m >= n /\ old # <<>>}})
Further(s, old, k) ==
  IF Len(k) = s.end THEN k
  ELSE Append(k, Place(s, Len(k) + 1, Known(s, old, k, Len(k) + 1)))
Paged(s, old, before) ==
  LET Filled[n \in 0..Page] == IF n = 0 THEN before ELSE Further(s, old, Filled[n - 1])
  IN  IF Len(before) = s.end THEN before ELSE Filled[Page]
Round(s, old) ==
  LET Book[c \in 0..(s.end \div Page + 1)] ==
        IF c = 0 THEN <<>> ELSE Paged(s, old, Book[c - 1])
  IN  Book[s.end \div Page + 1]
Checked(s, old, k) == [known |-> k, done |-> ~s.loops \/ k = old]
NextRound(s, found) ==
  IF found.done THEN found ELSE Checked(s, found.known, Round(s, found.known))
Search(s) ==
  LET Rounds[r \in 0..9] ==
        IF r = 0 THEN [known |-> <<>>, done |-> FALSE] ELSE NextRound(s, Rounds[r - 1])
  IN  Rounds[9].known
FromEnd(s, k) == [n \in {0} \cup DOMAIN s.text |-> k[PlaceIn(s, n)].known]
OutlineFound(s) == FromEnd(s, Search(s))
OutlineOf(b, f, P, w) == OutlineFound(Searched(b, f, P, w))

\* What is known between calls is so at first, and the functions that are
\* called have sound outlines.
Begins(b, w) == Covers(w.start, AtFirst(b))
Outlined(b, w) == Begins(b, w) /\ 
  \A f \in CallsOf[b] : Sound(b, f, Prog[f], OutlineOf(b, f, Prog[f], w), w.start)

\* The instructions that may change a register.
Touches(b, i, k) ==
  \/ i.op \in {"write", "save"} /\ i.dev = k[1] /\ i.reg = k[3]
  \/ i.op = "reset" /\ k[1] \in i.val
  \/ i.op = "load" /\ k \in Savable[b]
=============================================================================
