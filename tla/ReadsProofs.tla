---------------------------- MODULE ReadsProofs ----------------------------
(***************************************************************************)
(* TLAPS proof that a client thread reads what its user typed, for users   *)
(* who answer the prompts as OrdinaryCommands says.                        *)
(***************************************************************************)
EXTENDS OrdinaryCommands, WordsProofs, CommandsProofs

\* A word that a read returns as it was sent, if it returns all of it.
Full(w) == IsWhole(w) /\ Size(w) \in Nat /\ Size(w) > 0

\* The words that are typed, and those the programs add, are such words.
LEMMA WordsAreFull ==
  /\ \A w : IsWord(w) => Full(w)
  /\ \A k \in DOMAIN Prompts : Full(Word(k))
  /\ Full(Word("none"))
  /\ IsWhole(Nothing) /\ Size(Nothing) = 0
<1>1. ASSUME NEW x \in DOMAIN LengthOf
      PROVE  Full(Word(x))
  BY TextsAssumption DEF Full, IsWhole, Size, Word, IsNumeral
<1>2. ASSUME NEW w, IsNumeral(w), w = Numeral(w.digits), w.digits \in Seq(0..9), w.digits # <<>>
      PROVE  Full(w)
  <2>1. Len(w.digits) \in Nat /\ Len(w.digits) > 0
    BY <1>2
  <2> QED BY <1>2, <2>1 DEF Full, IsWhole, Size
<1>3. IsWhole(Nothing) /\ Size(Nothing) = 0
  BY DEF IsWhole, Size, IsNumeral, Nothing
<1>4. \A w : IsWord(w) => Full(w)
  BY <1>1, <1>2 DEF IsWord
<1> QED BY <1>1, <1>3, <1>4, TextsAssumption

\* A read that has room for a message returns it as it was sent.
LEMMA ReadAll ==
  ASSUME NEW ws, Len(ws) \in Nat, ws = [i \in 1..Len(ws) |-> ws[i]], NEW n \in Nat,
         Bytes(ws) <= n, \A i \in 1..Len(ws) : Full(ws[i])
  PROVE  Slice(ws, 0, n) = ws
<1>1. IsText(ws) /\ Len(ws) \in 0..Len(ws)
  BY DEF IsText, Full
<1>2. \A i \in 1..Len(ws) : Size(ws[i]) > 0 <=> i <= Len(ws)
  BY DEF Full
<1>3. Slice(ws, 0, n) = [k \in 1..Len(ws) |-> ws[k]]
  BY <1>1, <1>2, SliceAll DEF Full
<1> QED BY <1>3

\* A message that ends in an empty line arrives without it.
LEMMA ReadAllButLast ==
  ASSUME NEW ws, Len(ws) \in Nat, Len(ws) > 0, ws = [i \in 1..Len(ws) |-> ws[i]], NEW n \in Nat,
         Bytes(ws) <= n, \A i \in 1..Len(ws) - 1 : Full(ws[i]), ws[Len(ws)] = Nothing
  PROVE  Slice(ws, 0, n) = [i \in 1..Len(ws) - 1 |-> ws[i]]
<1>1. IsText(ws)
  <2>1. ASSUME NEW i \in 1..Len(ws)
        PROVE  Size(ws[i]) \in Nat
    <3>1. CASE i \in 1..Len(ws) - 1
      BY <3>1 DEF Full
    <3>2. CASE i = Len(ws)
      BY <3>2, WordsAreFull
    <3> QED BY <3>1, <3>2
  <2> QED BY <2>1 DEF IsText
<1>2. \A i \in 1..Len(ws) : Size(ws[i]) > 0 <=> i <= Len(ws) - 1
  BY WordsAreFull DEF Full
<1>3. Len(ws) - 1 \in 0..Len(ws) /\ \A i \in 1..Len(ws) - 1 : IsWhole(ws[i])
  BY DEF Full
<1> HIDE DEF Full
<1> QED BY <1>1, <1>2, <1>3, SliceAll, Zenon

\* What a read of n bytes returns of a message that has no more.
Arrives(ws, n, part) == Bytes(ws) \in Int /\ (Bytes(ws) <= n => Slice(ws, 0, n) = part)

\* Messages of up to five words, written out.
LEMMA ReadTuples ==
  ASSUME NEW n \in Nat
  PROVE  /\ \A a : Full(a) => Arrives(<<a>>, n, <<a>>)
         /\ \A a, b : Full(a) /\ Full(b) => Arrives(<<a, b>>, n, <<a, b>>)
         /\ \A a, b, c : Full(a) /\ Full(b) /\ Full(c) => Arrives(<<a, b, c>>, n, <<a, b, c>>)
         /\ \A a, b, c, d : Full(a) /\ Full(b) /\ Full(c) /\ Full(d) =>
              Arrives(<<a, b, c, d>>, n, <<a, b, c, d>>)
         /\ \A a, b, c, d, e : Full(a) /\ Full(b) /\ Full(c) /\ Full(d) /\ Full(e) =>
              Arrives(<<a, b, c, d, e>>, n, <<a, b, c, d, e>>)
         /\ \A a : Full(a) => Arrives(<<a, Nothing>>, n, <<a>>)
         /\ \A a, b : Full(a) /\ Full(b) => Arrives(<<a, b, Nothing>>, n, <<a, b>>)
<1>1. ASSUME NEW a, Full(a)
      PROVE  Arrives(<<a>>, n, <<a>>)
  <2>1. IsText(<<a>>)
    BY <1>1 DEF IsText, Full
  <2>2. Bytes(<<a>>) <= n => Slice(<<a>>, 0, n) = <<a>>
    BY <1>1, ReadAll
  <2> QED BY <2>1, <2>2, BytesIsInt DEF Arrives
<1>2. ASSUME NEW a, NEW b, Full(a), Full(b)
      PROVE  Arrives(<<a, b>>, n, <<a, b>>)
  <2>1. IsText(<<a, b>>)
    BY <1>2 DEF IsText, Full
  <2>2. Bytes(<<a, b>>) <= n => Slice(<<a, b>>, 0, n) = <<a, b>>
    BY <1>2, ReadAll
  <2> QED BY <2>1, <2>2, BytesIsInt DEF Arrives
<1>3. ASSUME NEW a, NEW b, NEW c, Full(a), Full(b), Full(c)
      PROVE  Arrives(<<a, b, c>>, n, <<a, b, c>>)
  <2>1. IsText(<<a, b, c>>)
    BY <1>3 DEF IsText, Full
  <2>2. Bytes(<<a, b, c>>) <= n => Slice(<<a, b, c>>, 0, n) = <<a, b, c>>
    BY <1>3, ReadAll
  <2> QED BY <2>1, <2>2, BytesIsInt DEF Arrives
<1>4. ASSUME NEW a, NEW b, NEW c, NEW d, Full(a), Full(b), Full(c), Full(d)
      PROVE  Arrives(<<a, b, c, d>>, n, <<a, b, c, d>>)
  <2>1. IsText(<<a, b, c, d>>)
    BY <1>4 DEF IsText, Full
  <2>2. Bytes(<<a, b, c, d>>) <= n => Slice(<<a, b, c, d>>, 0, n) = <<a, b, c, d>>
    BY <1>4, ReadAll
  <2> QED BY <2>1, <2>2, BytesIsInt DEF Arrives
<1>5. ASSUME NEW a, NEW b, NEW c, NEW d, NEW e, Full(a), Full(b), Full(c), Full(d), Full(e)
      PROVE  Arrives(<<a, b, c, d, e>>, n, <<a, b, c, d, e>>)
  <2>1. IsText(<<a, b, c, d, e>>)
    BY <1>5 DEF IsText, Full
  <2>2. Bytes(<<a, b, c, d, e>>) <= n => Slice(<<a, b, c, d, e>>, 0, n) = <<a, b, c, d, e>>
    BY <1>5, ReadAll
  <2> QED BY <2>1, <2>2, BytesIsInt DEF Arrives
<1>6. ASSUME NEW a, Full(a)
      PROVE  Arrives(<<a, Nothing>>, n, <<a>>)
  <2>1. ASSUME Bytes(<<a, Nothing>>) <= n
        PROVE  Slice(<<a, Nothing>>, 0, n) = <<a>>
    <3> DEFINE ws == <<a, Nothing>>
    <3>1. Len(ws) = 2 /\ ws = [i \in 1..Len(ws) |-> ws[i]] /\ ws[1] = a /\ ws[Len(ws)] = Nothing
      OBVIOUS
    <3>2. [i \in 1..Len(ws) - 1 |-> ws[i]] = <<a>>
      BY <3>1
    <3>3. \A i \in 1..Len(ws) - 1 : Full(ws[i])
      BY <1>6, <3>1
    <3>4. Len(ws) \in Nat /\ Len(ws) > 0
      BY <3>1
    <3>5. Bytes(ws) <= n
      BY <2>1
    <3>6. Slice(ws, 0, n) = [i \in 1..Len(ws) - 1 |-> ws[i]]
      <4> HIDE DEF ws
      <4> QED BY <3>1, <3>3, <3>4, <3>5, ReadAllButLast
    <3> QED BY <3>2, <3>6
  <2>2. IsText(<<a, Nothing>>)
    BY <1>6, WordsAreFull DEF IsText, Full
  <2> QED BY <2>1, <2>2, BytesIsInt DEF Arrives
<1>7. ASSUME NEW a, NEW b, Full(a), Full(b)
      PROVE  Arrives(<<a, b, Nothing>>, n, <<a, b>>)
  <2>1. ASSUME Bytes(<<a, b, Nothing>>) <= n
        PROVE  Slice(<<a, b, Nothing>>, 0, n) = <<a, b>>
    <3> DEFINE ws == <<a, b, Nothing>>
    <3>1. /\ Len(ws) = 3 /\ ws = [i \in 1..Len(ws) |-> ws[i]]
          /\ ws[1] = a /\ ws[2] = b /\ ws[Len(ws)] = Nothing
      OBVIOUS
    <3>2. [i \in 1..Len(ws) - 1 |-> ws[i]] = <<a, b>>
      BY <3>1
    <3>3. \A i \in 1..Len(ws) - 1 : Full(ws[i])
      BY <1>7, <3>1
    <3>4. Len(ws) \in Nat /\ Len(ws) > 0
      BY <3>1
    <3>5. Bytes(ws) <= n
      BY <2>1
    <3>6. Slice(ws, 0, n) = [i \in 1..Len(ws) - 1 |-> ws[i]]
      <4> HIDE DEF ws
      <4> QED BY <3>1, <3>3, <3>4, <3>5, ReadAllButLast
    <3> QED BY <3>2, <3>6
  <2>2. IsText(<<a, b, Nothing>>)
    BY <1>7, WordsAreFull DEF IsText, Full
  <2> QED BY <2>1, <2>2, BytesIsInt DEF Arrives
<1> QED BY <1>1, <1>2, <1>3, <1>4, <1>5, <1>6, <1>7

-----------------------------------------------------------------------------
(* What users type, and what the client thread reads of it.                *)

\* An empty line, or a word that is not "none".
IsLine(line) == line # <<>> => (line = <<line[1]>> /\ Full(line[1]) /\ line[1] # Word("none"))

\* A line that is typed is empty or one word.
LEMMA LinesAre ==
  ASSUME NEW p \in DOMAIN Lines, NEW line \in Lines[p]
  PROVE  IsLine(line)
BY WordsAssumption, WordsAreFull DEF IsLine

\* What stands for a line is one word, which is "none" for an empty line only.
LEMMA OrNoneIs ==
  ASSUME NEW line, IsLine(line)
  PROVE  /\ OrNone(line) = <<OrNone(line)[1]>> /\ Full(OrNone(line)[1])
         /\ OrNone(line)[1] = IF line = <<>> THEN Word("none") ELSE line[1]
         /\ (OrNone(line)[1] = Word("none")) <=> (line = <<>>)
BY WordsAreFull DEF IsLine, OrNone

\* One line for each prompt of k, which passed the check of the application.
IsTyped(k, ls) ==
  \A i \in 1..Len(Prompts[k]) :
    ls[i] \in Lines[Prompts[k][i]] /\ Valid(Prompts[k][i], ls[i])

\* Every command has its prompts, at most four, and lines for each of them.
LEMMA PromptsAre ==
  /\ DOMAIN Prompts = {"LOGIN", "REGISTER", "LOGOUT", "DELETE_ACCOUNT",
                       "ADD_CONNECTION", "SET_TRUSTLINE"}
  /\ \A k \in DOMAIN Prompts : Len(Prompts[k]) \in 0..4 /\ DOMAIN Prompts[k] = 1..Len(Prompts[k])
  /\ \A k \in DOMAIN Prompts : \A i \in 1..Len(Prompts[k]) : Prompts[k][i] \in DOMAIN Lines
BY WordsAssumption DEF Prompts

\* What is typed is one line for each prompt of a command, which passed its check.
LEMMA TypeableIs ==
  ASSUME NEW m \in Typeable
  PROVE  \E k \in DOMAIN Prompts : \E ls : m = Compose(k, ls) /\ IsTyped(k, ls)
<1> DEFINE L(k) == [i \in 1..4 |-> IF i \in DOMAIN Prompts[k]
                                   THEN {l \in Lines[Prompts[k][i]] : Valid(Prompts[k][i], l)} ELSE {<<>>}]
<1>1. PICK k \in DOMAIN Prompts :
        m \in {Compose(k, SubSeq(ls, 1, Len(Prompts[k]))) : ls \in L(k)[1] \X L(k)[2] \X L(k)[3] \X L(k)[4]}
  BY DEF Typeable
<1>2. PICK ls \in L(k)[1] \X L(k)[2] \X L(k)[3] \X L(k)[4] :
        m = Compose(k, SubSeq(ls, 1, Len(Prompts[k])))
  BY <1>1
<1>3. ls = <<ls[1], ls[2], ls[3], ls[4]>> /\ \A i \in 1..4 : ls[i] \in L(k)[i]
  BY <1>2
<1>4. ASSUME NEW i \in 1..Len(Prompts[k])
      PROVE  ls[i] \in Lines[Prompts[k][i]] /\ Valid(Prompts[k][i], ls[i])
  BY <1>3, PromptsAre
<1>5. ASSUME NEW i \in 1..Len(Prompts[k])
      PROVE  SubSeq(ls, 1, Len(Prompts[k]))[i] = ls[i]
  BY <1>3, PromptsAre
<1>6. IsTyped(k, SubSeq(ls, 1, Len(Prompts[k])))
  BY <1>4, <1>5 DEF IsTyped
<1> QED BY <1>2, <1>6

\* A message that fits is read at once (all but ADD_CONNECTION, which snprintf
\* may cut).
LEMMA FitsInOneRead ==
  ASSUME NEW k \in DOMAIN Prompts, k # "ADD_CONNECTION", NEW ls, Compose(k, ls).fits,
         NEW ws, NEW part, Text(k, ls) = ws, Arrives(ws, 255, part)
  PROVE  Compose(k, ls).reads = <<part>>
<1>1. PICK bytes \in {Bytes(ws) + 1, Bytes(ws)} :
        Message(k, ls) = [words |-> ws, bytes |-> bytes]
  BY DEF Message
<1>2. ~(Message(k, ls).bytes > ReadMax) /\ Compose(k, ls).reads = Reads(Message(k, ls))
  BY DEF Compose
<1>3. Reads(Message(k, ls)) = <<Slice(ws, 0, ReadMax)>>
  BY <1>1, <1>2 DEF Reads
<1>4. Bytes(ws) <= 255
  BY <1>1, <1>2 DEF Arrives, ReadMax
<1> QED BY <1>2, <1>3, <1>4 DEF Arrives, ReadMax

\* LOGIN and REGISTER arrive as typed, without a password that is empty.
LEMMA ReadLoginOrRegister ==
  ASSUME NEW k \in {"LOGIN", "REGISTER"}, NEW ls, IsTyped(k, ls), Compose(k, ls).fits
  PROVE  Compose(k, ls).reads = <<Meant(k, ls)>>
<1>1. /\ Len(Prompts[k]) = 2 /\ Prompts[k][1] = "username" /\ Prompts[k][2] = "password"
      /\ k \in DOMAIN Prompts /\ k # "ADD_CONNECTION"
  BY DEF Prompts
<1>2. ls[1] \in Lines["username"] /\ ls[2] \in Lines["password"]
  BY <1>1 DEF IsTyped
<1>3. IsLine(ls[1]) /\ IsLine(ls[2]) /\ ls[1] # <<>>
  BY <1>1, <1>2, LinesAre, PromptsAre, PromptsAssumption
<1>4. PICK u : ls[1] = <<u>> /\ Full(u)
  BY <1>3 DEF IsLine
<1>5. /\ Text(k, ls) = <<Word(k)>> \o AsIs(ls[1]) \o AsIs(ls[2])
      /\ Meant(k, ls) = <<Word(k)>> \o ls[1] \o ls[2]
  BY DEF Text, Meant
<1>6. AsIs(ls[1]) = <<u>>
  BY <1>4 DEF AsIs
<1>7. Full(Word(k))
  BY <1>1, WordsAreFull
<1>8. CASE ls[2] = <<>>
  <2>1. AsIs(ls[2]) = <<Nothing>>
    BY <1>8 DEF AsIs
  <2>2. Text(k, ls) = <<Word(k), u, Nothing>> /\ Meant(k, ls) = <<Word(k), u>>
    <3>1. /\ <<Word(k)>> \o <<u>> = <<Word(k), u>> /\ <<Word(k), u>> \o <<>> = <<Word(k), u>>
          /\ <<Word(k), u>> \o <<Nothing>> = <<Word(k), u, Nothing>>
      BY Joined
    <3> QED BY <1>4, <1>5, <1>6, <1>8, <2>1, <3>1, Zenon
  <2>3. Arrives(<<Word(k), u, Nothing>>, 255, <<Word(k), u>>)
    BY <1>4, <1>7, ReadTuples
  <2> QED BY <1>1, <2>2, <2>3, FitsInOneRead
<1>9. CASE ls[2] # <<>>
  <2>1. PICK w : ls[2] = <<w>> /\ Full(w)
    BY <1>3, <1>9 DEF IsLine
  <2>2. AsIs(ls[2]) = <<w>>
    BY <1>9, <2>1 DEF AsIs
  <2>3. Text(k, ls) = <<Word(k), u, w>> /\ Meant(k, ls) = <<Word(k), u, w>>
    <3>1. <<Word(k)>> \o <<u>> = <<Word(k), u>> /\ <<Word(k), u>> \o <<w>> = <<Word(k), u, w>>
      BY Joined
    <3> QED BY <1>4, <1>5, <1>6, <2>1, <2>2, <3>1, Zenon
  <2>4. Arrives(<<Word(k), u, w>>, 255, <<Word(k), u, w>>)
    BY <1>4, <1>7, <2>1, ReadTuples
  <2> QED BY <1>1, <2>3, <2>4, FitsInOneRead
<1> QED BY <1>8, <1>9

\* LOGOUT arrives.
LEMMA ReadLogout ==
  ASSUME NEW ls, Compose("LOGOUT", ls).fits
  PROVE  Compose("LOGOUT", ls).reads = <<Meant("LOGOUT", ls)>>
<1>1. "LOGOUT" \in DOMAIN Prompts
  BY DEF Prompts
<1>2. Text("LOGOUT", ls) = <<Word("LOGOUT")>> /\ Meant("LOGOUT", ls) = <<Word("LOGOUT")>>
  BY DEF Text, Meant
<1>3. Arrives(<<Word("LOGOUT")>>, 255, <<Word("LOGOUT")>>)
  BY <1>1, WordsAreFull, ReadTuples
<1> QED BY <1>1, <1>2, <1>3, FitsInOneRead

\* DELETE_ACCOUNT arrives as typed.
LEMMA ReadDeleteAccount ==
  ASSUME NEW ls, IsTyped("DELETE_ACCOUNT", ls), Compose("DELETE_ACCOUNT", ls).fits
  PROVE  Compose("DELETE_ACCOUNT", ls).reads = <<Meant("DELETE_ACCOUNT", ls)>>
<1> DEFINE k == "DELETE_ACCOUNT"
<1>1. k \in DOMAIN Prompts /\ k # "ADD_CONNECTION" /\ ls[1] \in Lines["confirmation"]
  BY DEF Prompts, IsTyped
<1>2. IsLine(ls[1])
  BY <1>1, LinesAre, WordsAssumption
<1>3. Text(k, ls) = <<Word(k)>> \o AsIs(ls[1]) /\ Meant(k, ls) = <<Word(k)>> \o ls[1]
  BY DEF Text, Meant
<1>4. Full(Word(k))
  BY <1>1, WordsAreFull
<1> HIDE DEF k
<1>5. CASE ls[1] = <<>>
  <2>1. AsIs(ls[1]) = <<Nothing>>
    BY <1>5 DEF AsIs
  <2>2. <<Word(k)>> \o <<Nothing>> = <<Word(k), Nothing>> /\ <<Word(k)>> \o <<>> = <<Word(k)>>
    BY Joined
  <2>3. Text(k, ls) = <<Word(k), Nothing>> /\ Meant(k, ls) = <<Word(k)>>
    BY <1>3, <1>5, <2>1, <2>2, Zenon
  <2>4. Arrives(<<Word(k), Nothing>>, 255, <<Word(k)>>)
    BY <1>4, ReadTuples
  <2>5. Compose(k, ls).reads = <<Meant(k, ls)>>
    BY <1>1, <2>3, <2>4, FitsInOneRead DEF k
  <2> QED BY <2>5 DEF k
<1>6. CASE ls[1] # <<>>
  <2>1. PICK w : ls[1] = <<w>> /\ Full(w)
    BY <1>2, <1>6 DEF IsLine
  <2>2. AsIs(ls[1]) = <<w>>
    BY <1>6, <2>1 DEF AsIs
  <2>3. <<Word(k)>> \o <<w>> = <<Word(k), w>>
    BY Joined
  <2>4. Text(k, ls) = <<Word(k), w>> /\ Meant(k, ls) = <<Word(k), w>>
    BY <1>3, <2>1, <2>2, <2>3, Zenon
  <2>5. Arrives(<<Word(k), w>>, 255, <<Word(k), w>>)
    BY <1>4, <2>1, ReadTuples
  <2>6. Compose(k, ls).reads = <<Meant(k, ls)>>
    BY <1>1, <2>4, <2>5, FitsInOneRead DEF k
  <2> QED BY <2>6 DEF k
<1> QED BY <1>5, <1>6

\* What stands for a line in the messages that name another server.
Said(line) == OrNone(line)[1]

\* SET_TRUSTLINE is composed of five words.
LEMMA SetTrustlineText ==
  ASSUME NEW ls, IsTyped("SET_TRUSTLINE", ls)
  PROVE  /\ \A i \in 1..4 : IsLine(ls[i]) /\ Full(Said(ls[i])) /\ OrNone(ls[i]) = <<Said(ls[i])>>
         /\ Text("SET_TRUSTLINE", ls) =
              <<Word("SET_TRUSTLINE"), Said(ls[1]), Said(ls[2]), Said(ls[3]), Said(ls[4])>>
<1> DEFINE k == "SET_TRUSTLINE"
<1>1. /\ ls[1] \in Lines["peer"] /\ ls[2] \in Lines["address"] /\ ls[3] \in Lines["port"]
      /\ ls[4] \in Lines["size"]
  BY DEF Prompts, IsTyped
<1>2. IsLine(ls[1]) /\ IsLine(ls[2]) /\ IsLine(ls[3]) /\ IsLine(ls[4])
  BY <1>1, LinesAre, WordsAssumption
<1>3. ASSUME NEW i \in 1..4
      PROVE  IsLine(ls[i]) /\ Full(Said(ls[i])) /\ OrNone(ls[i]) = <<Said(ls[i])>>
  <2>1. IsLine(ls[i])
    BY <1>2
  <2> QED BY <2>1, OrNoneIs DEF Said
<1>4. Text(k, ls) = <<Word(k)>> \o OrNone(ls[1]) \o OrNone(ls[2]) \o OrNone(ls[3]) \o OrNone(ls[4])
  BY DEF Text
<1> DEFINE a == Said(ls[1])
           b == Said(ls[2])
           c == Said(ls[3])
           d == Said(ls[4])
<1>5. OrNone(ls[1]) = <<a>> /\ OrNone(ls[2]) = <<b>> /\ OrNone(ls[3]) = <<c>> /\ OrNone(ls[4]) = <<d>>
  BY <1>3
<1> HIDE DEF k, a, b, c, d
<1>6. /\ <<Word(k)>> \o <<a>> = <<Word(k), a>>
      /\ <<Word(k), a>> \o <<b>> = <<Word(k), a, b>>
      /\ <<Word(k), a, b>> \o <<c>> = <<Word(k), a, b, c>>
      /\ <<Word(k), a, b, c>> \o <<d>> = <<Word(k), a, b, c, d>>
  BY Joined
<1>7. Text(k, ls) = <<Word(k), a, b, c, d>>
  BY <1>4, <1>5, <1>6, Zenon
<1> QED BY <1>3, <1>7 DEF k, a, b, c, d

\* SET_TRUSTLINE arrives as typed.
LEMMA ReadSetTrustline ==
  ASSUME NEW ls, IsTyped("SET_TRUSTLINE", ls), Compose("SET_TRUSTLINE", ls).fits
  PROVE  Compose("SET_TRUSTLINE", ls).reads = <<Meant("SET_TRUSTLINE", ls)>>
<1> DEFINE k == "SET_TRUSTLINE"
           ws == <<Word(k), Said(ls[1]), Said(ls[2]), Said(ls[3]), Said(ls[4])>>
<1>1. k \in DOMAIN Prompts /\ k # "ADD_CONNECTION" /\ Full(Word(k))
  BY WordsAreFull DEF Prompts
<1>2. Text(k, ls) = ws /\ Meant(k, ls) = ws
  BY SetTrustlineText DEF Meant
<1>3. Full(Said(ls[1])) /\ Full(Said(ls[2])) /\ Full(Said(ls[3])) /\ Full(Said(ls[4]))
  BY SetTrustlineText
<1>4. Arrives(ws, 255, ws)
  <2> HIDE DEF k
  <2> QED BY <1>1, <1>3, ReadTuples
<1> QED BY <1>1, <1>2, <1>4, FitsInOneRead

\* ADD_CONNECTION is composed of four words.
LEMMA AddConnectionText ==
  ASSUME NEW ls, IsTyped("ADD_CONNECTION", ls)
  PROVE  /\ \A i \in 1..3 : Full(Said(ls[i]))
         /\ Text("ADD_CONNECTION", ls) = <<Word("ADD_CONNECTION"), Said(ls[1]), Said(ls[2]), Said(ls[3])>>
<1> DEFINE k == "ADD_CONNECTION"
           a == Said(ls[1])
           b == Said(ls[2])
           c == Said(ls[3])
<1>1. ls[1] \in Lines["peer"] /\ ls[2] \in Lines["address"] /\ ls[3] \in Lines["port"]
  BY DEF Prompts, IsTyped
<1>2. IsLine(ls[1]) /\ IsLine(ls[2]) /\ IsLine(ls[3])
  BY <1>1, LinesAre, WordsAssumption
<1>3. /\ Full(a) /\ Full(b) /\ Full(c)
      /\ OrNone(ls[1]) = <<a>> /\ OrNone(ls[2]) = <<b>> /\ OrNone(ls[3]) = <<c>>
  BY <1>2, OrNoneIs DEF Said
<1>4. Text(k, ls) = <<Word(k)>> \o OrNone(ls[1]) \o OrNone(ls[2]) \o OrNone(ls[3])
  BY DEF Text
<1> HIDE DEF k, a, b, c
<1>5. /\ <<Word(k)>> \o <<a>> = <<Word(k), a>>
      /\ <<Word(k), a>> \o <<b>> = <<Word(k), a, b>>
      /\ <<Word(k), a, b>> \o <<c>> = <<Word(k), a, b, c>>
  BY Joined
<1>6. Text(k, ls) = <<Word(k), a, b, c>>
  BY <1>3, <1>4, <1>5, Zenon
<1> QED BY <1>3, <1>6 DEF k, a, b, c

\* ADD_CONNECTION arrives as typed: 511 bytes are more than a read.
LEMMA ReadAddConnection ==
  ASSUME NEW ls, IsTyped("ADD_CONNECTION", ls), Compose("ADD_CONNECTION", ls).fits
  PROVE  Compose("ADD_CONNECTION", ls).reads = <<Meant("ADD_CONNECTION", ls)>>
<1> DEFINE k == "ADD_CONNECTION"
           ws == <<Word(k), Said(ls[1]), Said(ls[2]), Said(ls[3])>>
<1>1. Full(Word(k))
  BY WordsAreFull DEF Prompts
<1>2. Text(k, ls) = ws /\ Meant(k, ls) = ws
  BY AddConnectionText DEF Meant
<1>3. Full(Said(ls[1])) /\ Full(Said(ls[2])) /\ Full(Said(ls[3]))
  BY AddConnectionText
<1>4. PICK bytes \in {Min({Bytes(Text(k, ls)), 511})} :
        Message(k, ls) = [words |-> Slice(Text(k, ls), 0, 511), bytes |-> bytes]
  BY DEF Message
<1>5. Arrives(ws, 255, ws) /\ Arrives(ws, 511, ws)
  <2> HIDE DEF k
  <2> QED BY <1>1, <1>3, ReadTuples
<1>6. ~(Message(k, ls).bytes > ReadMax) /\ Compose(k, ls).reads = Reads(Message(k, ls))
  BY DEF Compose
<1> HIDE DEF k, ws
<1>7. ~(bytes > 255) /\ Reads(Message(k, ls)) = <<Slice(Message(k, ls).words, 0, 255)>>
  BY <1>4, <1>6 DEF Reads, ReadMax
<1>8. Bytes(ws) <= 255 /\ Bytes(ws) <= 511
  <2>1. bytes = Min({Bytes(ws), 511})
    BY <1>2, <1>4
  <2>2. bytes = IF Bytes(ws) <= 511 THEN Bytes(ws) ELSE 511
    <3>1. Bytes(ws) \in Int /\ 511 \in Int
      BY <1>5 DEF Arrives
    <3> QED BY <2>1, <3>1, MaxMin
  <2> QED BY <1>5, <1>7, <2>2 DEF Arrives
<1>9. Slice(ws, 0, 511) = ws /\ Slice(ws, 0, 255) = ws
  BY <1>5, <1>8 DEF Arrives
<1>10. Compose(k, ls).reads = <<Meant(k, ls)>>
  BY <1>2, <1>4, <1>6, <1>7, <1>9
<1> QED BY <1>10 DEF k

\* Every command that can be typed is one read, of the words that are meant.
LEMMA TypeableIsRead ==
  ASSUME NEW m \in Typeable
  PROVE  \E k \in DOMAIN Prompts : \E ls :
           /\ IsTyped(k, ls)
           /\ m.cmd = [kind |-> k, lines |-> ls] /\ m.fits
           /\ m.reads = <<Meant(k, ls)>>
<1>1. PICK k, ls : k \in DOMAIN Prompts /\ m = Compose(k, ls) /\ IsTyped(k, ls)
  BY TypeableIs
<1>2. m.cmd = [kind |-> k, lines |-> ls] /\ m.fits
  <2>1. m.cmd = [kind |-> k, lines |-> ls] /\ m.fits = ~(Message(k, ls).bytes > ReadMax)
    BY <1>1 DEF Compose
  <2>2. ~(Message(m.cmd.kind, m.cmd.lines).bytes > 255)
    BY FitsAssumption
  <2>3. m.cmd.kind = k /\ m.cmd.lines = ls
    BY <2>1
  <2> QED BY <2>1, <2>2, <2>3 DEF ReadMax
<1>3. Compose(k, ls).fits
  BY <1>1, <1>2
<1>4. m.reads = <<Meant(k, ls)>>
  BY <1>1, <1>3, PromptsAre, ReadLogout, ReadDeleteAccount, ReadLoginOrRegister,
     ReadSetTrustline, ReadAddConnection
<1> QED BY <1>1, <1>2, <1>4

-----------------------------------------------------------------------------
(* The invariant.                                                          *)

\* A command and its words: each word where its handler looks for it.
LEMMA MeantIs ==
  ASSUME NEW k \in DOMAIN Prompts, NEW ls, IsTyped(k, ls)
  PROVE  /\ k = "LOGOUT" => Meant(k, ls) = <<Word(k)>>
         /\ k = "DELETE_ACCOUNT" =>
              \/ Meant(k, ls) = <<Word(k)>>
              \/ \E w : Meant(k, ls) = <<Word(k), w>>
         /\ k \in {"LOGIN", "REGISTER"} =>
              \E u : /\ ls[1] = <<u>>
                     /\ \/ ls[2] = <<>> /\ Meant(k, ls) = <<Word(k), u>>
                        \/ \E w : ls[2] = <<w>> /\ Meant(k, ls) = <<Word(k), u, w>>
         /\ k = "ADD_CONNECTION" =>
              Meant(k, ls) = <<Word(k), Said(ls[1]), Said(ls[2]), Said(ls[3])>>
         /\ k = "SET_TRUSTLINE" =>
              Meant(k, ls) = <<Word(k), Said(ls[1]), Said(ls[2]), Said(ls[3]), Said(ls[4])>>
<1>1. CASE k = "LOGOUT"
  BY <1>1 DEF Meant
<1>2. CASE k = "DELETE_ACCOUNT"
  <2>1. IsLine(ls[1])
    <3>1. ls[1] \in Lines["confirmation"]
      BY <1>2 DEF IsTyped, Prompts
    <3> QED BY <3>1, LinesAre, WordsAssumption
  <2>2. ls[1] = <<>> \/ \E w : ls[1] = <<w>>
    BY <2>1 DEF IsLine
  <2>3. Meant(k, ls) = <<Word(k)>> \o ls[1]
    BY <1>2 DEF Meant
  <2>4. <<Word(k)>> \o <<>> = <<Word(k)>> /\ \A w : <<Word(k)>> \o <<w>> = <<Word(k), w>>
    BY Joined
  <2>5. Meant(k, ls) = <<Word(k)>> \/ \E w : Meant(k, ls) = <<Word(k), w>>
    BY <2>2, <2>3, <2>4, Zenon
  <2> QED BY <1>2, <2>5
<1>3. CASE k \in {"LOGIN", "REGISTER"}
  <2>1. ls[1] \in Lines["username"] /\ ls[2] \in Lines["password"]
    BY <1>3 DEF IsTyped, Prompts
  <2>2. IsLine(ls[1]) /\ IsLine(ls[2]) /\ ls[1] # <<>>
    BY <2>1, LinesAre, WordsAssumption, PromptsAssumption
  <2>3. (\E u : ls[1] = <<u>>) /\ (ls[2] = <<>> \/ \E w : ls[2] = <<w>>)
    BY <2>2 DEF IsLine
  <2>4. Meant(k, ls) = <<Word(k)>> \o ls[1] \o ls[2]
    BY <1>3 DEF Meant
  <2>5. /\ \A u : <<Word(k)>> \o <<u>> = <<Word(k), u>> /\ <<Word(k), u>> \o <<>> = <<Word(k), u>>
        /\ \A u, w : <<Word(k), u>> \o <<w>> = <<Word(k), u, w>>
    BY Joined
  <2>6. PICK u : ls[1] = <<u>>
    BY <2>3
  <2>7. ls[2] = <<>> => Meant(k, ls) = <<Word(k), u>>
    BY <2>4, <2>5, <2>6, Zenon
  <2>8. ASSUME NEW w, ls[2] = <<w>>
        PROVE  Meant(k, ls) = <<Word(k), u, w>>
    <3>1. <<Word(k)>> \o <<u>> = <<Word(k), u>> /\ <<Word(k), u>> \o <<w>> = <<Word(k), u, w>>
      BY <2>5
    <3> QED BY <2>4, <2>6, <2>8, <3>1, Zenon
  <2>9. \/ ls[2] = <<>> /\ Meant(k, ls) = <<Word(k), u>>
        \/ \E w : ls[2] = <<w>> /\ Meant(k, ls) = <<Word(k), u, w>>
    BY <2>3, <2>7, <2>8, Zenon
  <2> QED BY <1>3, <2>6, <2>9
<1>4. CASE k = "ADD_CONNECTION"
  <2>1. Meant(k, ls) = Text(k, ls)
    BY <1>4 DEF Meant
  <2>2. Meant(k, ls) = <<Word(k), Said(ls[1]), Said(ls[2]), Said(ls[3])>>
    BY <1>4, <2>1, AddConnectionText
  <2> QED BY <1>4, <2>2
<1>5. CASE k = "SET_TRUSTLINE"
  <2>1. Meant(k, ls) = Text(k, ls)
    BY <1>5 DEF Meant
  <2> QED BY <1>5, <2>1, SetTrustlineText
<1> QED BY <1>1, <1>2, <1>3, <1>4, <1>5, PromptsAre

\* The tails of written-out lines.
LEMMA Tails ==
  /\ \A a : <<a>>[1] = a /\ <<a>> # <<>> /\ Tail(<<a>>) = <<>>
  /\ \A a, b : <<a, b>>[1] = a /\ <<a, b>> # <<>> /\ Tail(<<a, b>>) = <<b>>
  /\ \A a, b, c : <<a, b, c>>[1] = a /\ <<a, b, c>> # <<>> /\ Tail(<<a, b, c>>) = <<b, c>>
  /\ \A a, b, c, d :
       <<a, b, c, d>>[1] = a /\ <<a, b, c, d>> # <<>> /\ Tail(<<a, b, c, d>>) = <<b, c, d>>
  /\ \A a, b, c, d, e :
       <<a, b, c, d, e>>[1] = a /\ <<a, b, c, d, e>> # <<>> /\ Tail(<<a, b, c, d, e>>) = <<b, c, d, e>>
OBVIOUS

\* The arguments that follow the first, and the first four or all three.
LEMMA Parts ==
  /\ \A u : SubSeq(<<u>>, 2, Min({2, Len(<<u>>)})) = <<>>
  /\ \A u, w : SubSeq(<<u, w>>, 2, Min({2, Len(<<u, w>>)})) = <<w>>
  /\ \A a, b, c : SubSeq(<<a, b, c>>, 1, Min({4, Len(<<a, b, c>>)})) = <<a, b, c>>
  /\ \A a, b, c, d : SubSeq(<<a, b, c, d>>, 1, Min({4, Len(<<a, b, c, d>>)})) = <<a, b, c, d>>
<1>0. 1 \in Int /\ 2 \in Int /\ 3 \in Int /\ 4 \in Int
  OBVIOUS
<1>1. Min({2, 1}) = 1 /\ Min({2, 2}) = 2 /\ Min({4, 3}) = 3 /\ Min({4, 4}) = 4
  <2>1. \A x, y \in Int : Min({x, y}) = IF x <= y THEN x ELSE y
    BY MaxMin
  <2> HIDE DEF Min
  <2> QED BY <1>0, <2>1
<1>2. ASSUME NEW u
      PROVE  SubSeq(<<u>>, 2, Min({2, Len(<<u>>)})) = <<>>
  <2>1. Len(<<u>>) = 1
    OBVIOUS
  <2>2. SubSeq(<<u>>, 2, 1) = <<>>
    OBVIOUS
  <2> QED BY <1>1, <2>1, <2>2
<1>3. ASSUME NEW u, NEW w
      PROVE  SubSeq(<<u, w>>, 2, Min({2, Len(<<u, w>>)})) = <<w>>
  <2> DEFINE S == {u, w}
             s == <<u, w>>
             t == <<w>>
  <2>1. /\ Len(s) = 2 /\ \A i \in 2..2 : s[i] \in S /\ s[2] = w
        /\ t \in Seq(S) /\ Len(t) = 1 /\ t[1] = w
    OBVIOUS
  <2>2. SubSeq(s, 2, 2) = t
    <3> HIDE DEF S, s, t
    <3>1. /\ SubSeq(s, 2, 2) \in Seq(S)
          /\ Len(SubSeq(s, 2, 2)) = (IF 2 <= 2 THEN 2 - 2 + 1 ELSE 0)
          /\ \A i \in 1..2 - 2 + 1 : SubSeq(s, 2, 2)[i] = s[2 + i - 1]
      BY <1>0, <2>1, SubSeqProperties
    <3>2. Len(SubSeq(s, 2, 2)) = Len(t) /\ \A i \in 1..Len(SubSeq(s, 2, 2)) : SubSeq(s, 2, 2)[i] = t[i]
      BY <2>1, <3>1
    <3> QED BY <2>1, <3>1, <3>2, SeqEqual
  <2> QED BY <1>1, <2>1, <2>2
<1>4. ASSUME NEW a, NEW b, NEW c, NEW d
      PROVE  SubSeq(<<a, b, c, d>>, 1, Min({4, Len(<<a, b, c, d>>)})) = <<a, b, c, d>>
  <2>1. Len(<<a, b, c, d>>) = 4 /\ <<a, b, c, d>> \in Seq({a, b, c, d})
    OBVIOUS
  <2>2. SubSeq(<<a, b, c, d>>, 1, 4) = <<a, b, c, d>>
    BY <2>1, SubSeqFull
  <2> QED BY <1>1, <2>1, <2>2
<1>5. ASSUME NEW a, NEW b, NEW c
      PROVE  SubSeq(<<a, b, c>>, 1, Min({4, Len(<<a, b, c>>)})) = <<a, b, c>>
  <2>1. Len(<<a, b, c>>) = 3 /\ <<a, b, c>> \in Seq({a, b, c})
    OBVIOUS
  <2>2. SubSeq(<<a, b, c>>, 1, 3) = <<a, b, c>>
    BY <2>1, SubSeqFull
  <2> QED BY <1>1, <2>1, <2>2
<1> QED BY <1>2, <1>3, <1>4, <1>5

\* A message starts with the name of its command.
LEMMA StartsWithName ==
  ASSUME NEW k \in DOMAIN Prompts, NEW ls, IsTyped(k, ls)
  PROVE  Meant(k, ls) # <<>> /\ Meant(k, ls)[1] = Word(k)
BY MeantIs, PromptsAre, Tails

\* The invariant: a connection whose commands all fit is in step, and the
\* message on it is the command typed last.
ViewInv == TypeOK /\ InStepInv /\ (\A c \in Clients : fits[c]) /\ ReadAsTyped

\* A command that its thread has not read.
LEMMA WhatIsAsked ==
  ASSUME ViewInv, NEW c \in Clients, inbox[c] # <<>>
  PROVE  \E k \in DOMAIN Prompts : \E ls :
           /\ IsTyped(k, ls) /\ typed[c] = [kind |-> k, lines |-> ls]
           /\ inbox[c] = <<Meant(k, ls)>> /\ replies[c] = <<>> /\ prompt[c] = "waiting"
           /\ Args(c) = Tail(Meant(k, ls))
           /\ \A j \in DOMAIN Prompts : Asks(c, j) <=> j = k
<1>1. prompt[c] = "waiting" /\ replies[c] = <<>>
  BY DEF ViewInv, InStepInv, Carried
<1>2. PICK m \in Typeable : typed[c] = m.cmd
  BY <1>1 DEF ViewInv, TypeOK
<1>3. PICK k, ls : k \in DOMAIN Prompts /\ IsTyped(k, ls) /\ m.cmd = [kind |-> k, lines |-> ls]
  BY TypeableIsRead
<1>4. inbox[c] = <<Meant(k, ls)>>
  BY <1>2, <1>3 DEF ViewInv, ReadAsTyped
<1>5. Head(inbox[c]) = Meant(k, ls)
  BY <1>4
<1>6. ASSUME NEW j \in DOMAIN Prompts
      PROVE  Asks(c, j) <=> j = k
  <2>1. Word(j) = Word(k) => j = k
    <3>1. Word(j).text = j /\ Word(k).text = k
      BY DEF Word
    <3> QED BY <3>1
  <2>2. Asks(c, j) <=> Meant(k, ls) # <<>> /\ Meant(k, ls)[1] = Word(j)
    BY <1>5 DEF Asks
  <2> QED BY <1>3, <2>1, <2>2, StartsWithName
<1> QED BY <1>1, <1>2, <1>3, <1>4, <1>5, <1>6 DEF Args

\* What a handler does to a connection it answers.
LEMMA AnswerKeeps ==
  ASSUME ViewInv, NEW c \in Clients, inbox[c] # <<>>, NEW r, Answer(c, r)
  PROVE  \A d \in Clients :
           IF d = c THEN inbox'[d] = <<>> ELSE inbox'[d] = inbox[d] /\ typed'[d] = typed[d]
<1>1. \E m : inbox[c] = <<m>>
  BY WhatIsAsked
<1>2. Tail(inbox[c]) = <<>>
  BY <1>1, OneElement
<1> QED BY <1>2 DEF Answer, ViewInv, InStepInv

\* A session that is authenticated gets its user from a prompt.
LEMMA ServeUsers ==
  ASSUME ViewInv, NEW c \in Clients, Serve(c)
  PROVE  \A d \in Clients : session'[d].authenticated => session'[d].user \in Lines["username"]
<1> DEFINE Good(s) == s.authenticated => s.user \in Lines["username"]
<1>1. DOMAIN session = Clients /\ \A d \in Clients : Good(session[d])
  BY DEF ViewInv, TypeOK, ReadAsTyped
<1>2. ASSUME NEW s, Good(s), session' = [session EXCEPT ![c] = s]
      PROVE  \A d \in Clients : Good(session'[d])
  <2> HIDE DEF Good
  <2> QED BY <1>1, <1>2
<1>3. CASE UNCHANGED session
  BY <1>1, <1>3
<1>4. CASE Login(c) /\ ~UNCHANGED session
  <2>1. inbox[c] # <<>> /\ Asks(c, "LOGIN")
    BY <1>4 DEF Login, Asks
  <2>2. PICK k, ls :
          /\ k \in DOMAIN Prompts
          /\ IsTyped(k, ls) /\ Args(c) = Tail(Meant(k, ls))
          /\ \A j \in DOMAIN Prompts : Asks(c, j) <=> j = k
    BY <2>1, WhatIsAsked
  <2>3. k = "LOGIN"
    BY <2>1, <2>2, PromptsAre
  <2>4. PICK u : /\ ls[1] = <<u>>
                 /\ Meant(k, ls) = <<Word(k), u>> \/ \E w : Meant(k, ls) = <<Word(k), u, w>>
    BY <2>2, <2>3, MeantIs
  <2>5. Args(c)[1] = u
    <3>1. Tail(<<Word(k), u>>) = <<u>> /\ \A w : Tail(<<Word(k), u, w>>) = <<u, w>>
      BY Tails
    <3>2. Args(c) = <<u>> \/ \E w : Args(c) = <<u, w>>
      BY <2>2, <2>4, <3>1, Zenon
    <3> QED BY <3>2
  <2>6. ls[1] \in Lines["username"]
    BY <2>2, <2>3 DEF IsTyped, Prompts
  <2>7. session' = [session EXCEPT ![c] = [user |-> <<Args(c)[1]>>, authenticated |-> TRUE]]
    BY <1>4 DEF Login
  <2>8. Good([user |-> <<Args(c)[1]>>, authenticated |-> TRUE])
    BY <2>4, <2>5, <2>6
  <2> QED BY <1>2, <2>7, <2>8
<1>5. CASE Logout(c)
  BY <1>2, <1>5 DEF Logout
<1>6. CASE DeleteAccount(c)
  BY <1>2, <1>3, <1>6 DEF DeleteAccount, NoSession
<1> QED BY <1>3, <1>4, <1>5, <1>6 DEF Serve, Register, AddConnection, SetTrustline, InvalidCommand

\* Every step keeps the invariant.
LEMMA ViewStep ==
  ASSUME ViewInv, [Next]_vars
  PROVE  ViewInv'
<1>1. TypeOK' /\ InStepInv'
  BY TypeStep, InStepStep DEF ViewInv
<1>2. CASE UNCHANGED vars
  BY <1>1, <1>2 DEF ViewInv, ReadAsTyped, vars, connection
<1>3. ASSUME NEW c \in Clients, NEW m \in Typeable, Type(c, m)
      PROVE  (\A d \in Clients : fits'[d]) /\ ReadAsTyped'
  <2>1. PICK k, ls :
          /\ k \in DOMAIN Prompts
          /\ m.cmd = [kind |-> k, lines |-> ls] /\ m.fits
          /\ m.reads = <<Meant(k, ls)>>
    BY TypeableIsRead
  <2>2. inbox[c] = <<>>
    BY <1>3 DEF Type, ViewInv, InStepInv, Carried
  <2>3. inbox'[c] = <<Meant(k, ls)>> /\ typed'[c] = [kind |-> k, lines |-> ls]
    BY <1>3, <2>1, <2>2, OneElement DEF Type, ViewInv, InStepInv, TypeOK
  <2>4. \A d \in Clients \ {c} : inbox'[d] = inbox[d] /\ typed'[d] = typed[d]
    BY <1>3 DEF Type, ViewInv, InStepInv, TypeOK
  <2>5. \A d \in Clients : fits'[d]
    BY <1>3, <2>1 DEF Type, ViewInv, TypeOK
  <2>6. \A d \in Clients : inbox'[d] # <<>> => inbox'[d] = <<Meant(typed'[d].kind, typed'[d].lines)>>
    BY <2>3, <2>4 DEF ViewInv, ReadAsTyped
  <2>7. \A d \in Clients : session'[d].authenticated => session'[d].user \in Lines["username"]
    BY <1>3 DEF Type, ViewInv, ReadAsTyped
  <2> QED BY <2>5, <2>6, <2>7 DEF ReadAsTyped
<1>4. ASSUME NEW c \in Clients, Receive(c)
      PROVE  (\A d \in Clients : fits'[d]) /\ ReadAsTyped'
  <2>1. inbox[c] = <<>>
    BY <1>4 DEF Receive, ViewInv, InStepInv, Carried
  <2> QED BY <1>4, <2>1 DEF Receive, ViewInv, ReadAsTyped, TypeOK
<1>5. ASSUME NEW c \in Clients, Exit(c)
      PROVE  (\A d \in Clients : fits'[d]) /\ ReadAsTyped'
  BY <1>5 DEF Exit, ViewInv, ReadAsTyped
<1>6. ASSUME NEW c \in Clients, Serve(c)
      PROVE  (\A d \in Clients : fits'[d]) /\ ReadAsTyped'
  <2>1. PICK r : Answer(c, r)
    BY <1>6, ServeAnswers
  <2>2. \A d \in Clients :
           IF d = c THEN inbox'[d] = <<>> ELSE inbox'[d] = inbox[d] /\ typed'[d] = typed[d]
    BY <1>6, <2>1, ServeAnswers, AnswerKeeps
  <2>3. \A d \in Clients : session'[d].authenticated => session'[d].user \in Lines["username"]
    BY <1>6, ServeUsers
  <2>4. \A d \in Clients : fits'[d]
    BY <2>1 DEF Answer, ViewInv
  <2>5. \A d \in Clients : inbox'[d] # <<>> => inbox'[d] = <<Meant(typed'[d].kind, typed'[d].lines)>>
    BY <2>2 DEF ViewInv, ReadAsTyped
  <2> QED BY <2>3, <2>4, <2>5 DEF ReadAsTyped
<1>7. ASSUME NEW c \in Clients, Close(c)
      PROVE  (\A d \in Clients : fits'[d]) /\ ReadAsTyped'
  <2>1. \A d \in Clients : fits'[d]
    BY <1>7 DEF Close, ViewInv, InStepInv
  <2>2. \A d \in Clients : inbox'[d] # <<>> => inbox'[d] = <<Meant(typed'[d].kind, typed'[d].lines)>>
    BY <1>7 DEF Close, ViewInv, ReadAsTyped, InStepInv
  <2>3. \A d \in Clients : session'[d].authenticated => session'[d].user \in Lines["username"]
    BY <1>7 DEF Close, ViewInv, ReadAsTyped, TypeOK, NoSession
  <2> QED BY <2>1, <2>2, <2>3 DEF ReadAsTyped
<1>8. (\A d \in Clients : fits'[d]) /\ ReadAsTyped'
  BY <1>2, <1>3, <1>4, <1>5, <1>6, <1>7 DEF Next, ViewInv, ReadAsTyped, vars, connection
<1> QED BY <1>1, <1>8 DEF ViewInv

\* The invariant holds in every behaviour.
THEOREM ViewInvariant == Spec => []ViewInv
<1>1. Init => ViewInv
  <2>1. Init => TypeOK
    BY Sessions DEF Init, TypeOK
  <2>2. Init => InStepInv
    BY DEF Init, InStepInv, Carried
  <2> QED BY <2>1, <2>2 DEF Init, ViewInv, ReadAsTyped, NoSession
<1> QED BY <1>1, ViewStep, PTL DEF Spec

\* What a client thread reads is the command its user typed last, whole and
\* nothing else, and every user of a session was typed.
THEOREM ReadsAreCommands == Spec => []ReadAsTyped
<1>1. ViewInv => ReadAsTyped
  BY DEF ViewInv
<1> QED BY <1>1, ViewInvariant, PTL
=============================================================================
