---------------------------- MODULE AlgorithmProofs ----------------------------
(***************************************************************************)
(* Theorems about the pure functions of the worker: what MCAlgorithms asks *)
(* about small tables, texts and environments holds for all of them.       *)
(***************************************************************************)
EXTENDS MCAlgorithms, WellFoundedInduction, FiniteSetTheorems, SequenceTheorems, TLAPS

-----------------------------------------------------------------------------
(* Least and greatest elements                                              *)

\* A non-empty set of natural numbers has a least element: what the induction
\* theorems of the library are needed for below.
LEMMA LeastElement ==
  ASSUME NEW S \in SUBSET Nat, S # {}
  PROVE  \E m \in S : \A k \in S : m <= k
<1> DEFINE R == OpToRel(<, Nat)
<1>1. \A x, y \in Nat : x < y => <<x, y>> \in R
  BY DEF OpToRel
<1>2. IsWellFoundedOn(R, Nat)
  BY NatLessThanWellFounded
<1> HIDE DEF R
<1>3. \E x \in S : \A y \in S : ~(<<y, x>> \in R)
  BY <1>2, WFMin
<1>4. PICK x \in S : \A y \in S : ~(<<y, x>> \in R)
  BY <1>3
<1>5. ASSUME NEW y \in S PROVE x <= y
  <2>1. x \in Nat /\ y \in Nat
    OBVIOUS
  <2>2. ~(<<y, x>> \in R)
    BY <1>4
  <2>3. ~(y < x)
    BY <1>1, <2>1, <2>2
  <2> QED
    BY <2>1, <2>3
<1> QED
  BY <1>5

\* First is what its name says.
LEMMA FirstIsLeast ==
  ASSUME NEW S \in SUBSET Nat, S # {}
  PROVE  First(S) \in S /\ \A j \in S : First(S) <= j
BY LeastElement DEF First

\* Last is what its name says, by the least number counted from the end.
LEMMA LastIsGreatest ==
  ASSUME NEW n \in Nat, NEW S \in SUBSET (0 .. n), S # {}
  PROVE  Last(S) \in S /\ \A j \in S : Last(S) >= j
<1> DEFINE T == {k \in Nat : n - k \in S}
<1>1. PICK s \in S : TRUE
  OBVIOUS
<1>2. n - s \in T
  <2>1. s \in 0 .. n /\ n - s \in Nat /\ n - (n - s) = s
    OBVIOUS
  <2> QED
    BY <2>1
<1>3. PICK m \in T : \A k \in T : m <= k
  <2>1. T \in SUBSET Nat /\ T # {}
    BY <1>2
  <2> HIDE DEF T
  <2> QED
    BY <2>1, LeastElement
<1>4. n - m \in S /\ m \in Nat
  BY <1>3
<1>5. ASSUME NEW j \in S PROVE n - m >= j
  <2>1. j \in 0 .. n /\ n - j \in Nat /\ n - (n - j) = j
    OBVIOUS
  <2>2. n - j \in T
    BY <2>1
  <2>3. m <= n - j
    BY <1>3, <2>2
  <2> QED
    BY <1>4, <2>1, <2>3
<1>6. \E i \in S : \A j \in S : i >= j
  BY <1>4, <1>5
<1> QED
  BY <1>6 DEF Last

-----------------------------------------------------------------------------
(* Texts                                                                    *)

\* strip() and rstrip() of a text that is not blank.
LEMMA Stripped ==
  ASSUME NEW Char, NEW text \in Seq(Char), Printed(text) # {}
  PROVE  /\ strip(text) \in Seq(Char) /\ Len(strip(text)) \in 1 .. Len(text)
         /\ strip(text)[1] # Blank /\ strip(text)[Len(strip(text))] # Blank
         /\ rstrip(text) \in Seq(Char) /\ Len(rstrip(text)) \in 1 .. Len(text)
         /\ rstrip(text)[Len(rstrip(text))] # Blank
         /\ rstrip(text) = SubSeq(text, 1, Len(rstrip(text)))
<1> DEFINE f == First(Printed(text))
           l == Last(Printed(text))
<1>1. /\ Len(text) \in Nat /\ DOMAIN text = 1 .. Len(text)
      /\ \A i \in 1 .. Len(text) : text[i] \in Char
  BY LenProperties, ElementOfSeq
<1>2. Printed(text) \in SUBSET (0 .. Len(text)) /\ Printed(text) \in SUBSET Nat
  BY <1>1 DEF Printed
<1>3. /\ f \in Printed(text) /\ l \in Printed(text) /\ f <= l
  BY <1>1, <1>2, FirstIsLeast, LastIsGreatest
<1>4. /\ f \in 1 .. Len(text) /\ text[f] # Blank /\ l \in 1 .. Len(text) /\ text[l] # Blank
  BY <1>1, <1>3 DEF Printed
<1>5. strip(text) = SubSeq(text, f, l) /\ rstrip(text) = SubSeq(text, 1, l)
  BY DEF strip, rstrip
<1> HIDE DEF f, l
<1>6. /\ \A i \in f .. l : text[i] \in Char
      /\ \A i \in 1 .. l : text[i] \in Char
      /\ f \in Int /\ l \in Int /\ 1 <= f /\ f <= l /\ 1 <= l
  BY <1>1, <1>3, <1>4
<1>7. /\ SubSeq(text, f, l) \in Seq(Char) /\ Len(SubSeq(text, f, l)) = l - f + 1
      /\ \A i \in 1 .. l - f + 1 : SubSeq(text, f, l)[i] = text[f + i - 1]
  BY <1>6, SubSeqProperties
<1>8. /\ SubSeq(text, 1, l) \in Seq(Char) /\ Len(SubSeq(text, 1, l)) = l - 1 + 1
      /\ \A i \in 1 .. l - 1 + 1 : SubSeq(text, 1, l)[i] = text[1 + i - 1]
  BY <1>6, SubSeqProperties
<1>9. l - 1 + 1 = l /\ 1 + l - 1 = l /\ f + 1 - 1 = f /\ f + (l - f + 1) - 1 = l
      /\ 1 \in 1 .. l - f + 1 /\ l - f + 1 \in 1 .. l - f + 1 /\ l \in 1 .. l
  BY <1>6
<1>10. SubSeq(text, f, l)[1] = text[f] /\ SubSeq(text, f, l)[l - f + 1] = text[l]
  BY <1>7, <1>9
<1>11. SubSeq(text, 1, l)[l] = text[l] /\ Len(SubSeq(text, 1, l)) = l
  BY <1>8, <1>9
<1>12. l - f + 1 \in 1 .. Len(text) /\ l \in 1 .. Len(text)
  BY <1>1, <1>4, <1>6
<1> QED
  BY <1>4, <1>5, <1>7, <1>8, <1>10, <1>11, <1>12

\* A cut text: what is left begins with a printed character.
LEMMA CutText ==
  ASSUME NEW Char, NEW value \in Seq(Char), Len(value) > 0, value[1] # Blank,
         NEW limit \in Nat \ {0}, limit < Len(value)
  PROVE  LET shown == rstrip(SubSeq(value, 1, limit - 1))
         IN  /\ shown \in Seq(Char) /\ Len(shown) \in 0 .. limit - 1
             /\ shown = SubSeq(value, 1, Len(shown))
             /\ limit > 1 => shown # <<>> /\ shown[Len(shown)] # Blank
<1> DEFINE cut == SubSeq(value, 1, limit - 1)
           shown == rstrip(cut)
<1>1. /\ Len(value) \in Nat /\ \A i \in 1 .. Len(value) : value[i] \in Char
  BY LenProperties, ElementOfSeq
<1>2. /\ limit - 1 \in Int /\ limit - 1 \in Nat /\ 1 \in Int
      /\ \A i \in 1 .. limit - 1 : value[i] \in Char
  BY <1>1
<1>3. /\ cut \in Seq(Char) /\ Len(cut) = limit - 1
      /\ \A i \in 1 .. limit - 1 : cut[i] = value[i]
  <2>1. /\ cut \in Seq(Char)
        /\ Len(cut) = IF 1 <= limit - 1 THEN limit - 1 - 1 + 1 ELSE 0
        /\ \A i \in 1 .. limit - 1 - 1 + 1 : cut[i] = value[1 + i - 1]
    BY <1>2, SubSeqProperties
  <2>2. limit - 1 - 1 + 1 = limit - 1 /\ \A i \in 1 .. limit - 1 : 1 + i - 1 = i
    BY <1>2
  <2>3. Len(cut) = limit - 1
    <3> HIDE DEF cut
    <3> QED
      BY <1>2, <2>1
  <2>4. ASSUME NEW i \in 1 .. limit - 1 PROVE cut[i] = value[i]
    <3>1. 1 + i - 1 = i /\ i \in 1 .. limit - 1 - 1 + 1
      BY <2>2
    <3> HIDE DEF cut
    <3> QED
      BY <2>1, <3>1
  <2> QED
    BY <2>1, <2>3, <2>4
<1>4. CASE limit = 1
  <2>1. cut = <<>>
    BY <1>4, SubSeqEmpty
  <2>2. shown = <<>>
    BY <2>1 DEF rstrip, Printed
  <2>3. SubSeq(value, 1, 0) = <<>>
    BY SubSeqEmpty
  <2>4. Len(shown) = 0 /\ shown \in Seq(Char)
    <3> HIDE DEF shown
    <3> QED
      BY <2>2, EmptySeq
  <2> QED
    BY <1>4, <2>2, <2>3, <2>4
<1>5. CASE limit > 1
  <2>1. 1 \in DOMAIN cut /\ cut[1] # Blank
    BY <1>3, <1>5, LenProperties
  <2>2. Printed(cut) # {}
    BY <2>1 DEF Printed
  <2>3. /\ shown \in Seq(Char) /\ Len(shown) \in 1 .. Len(cut) /\ shown[Len(shown)] # Blank
        /\ shown = SubSeq(cut, 1, Len(shown))
    BY <1>3, <2>2, Stripped
  <2>4. Len(shown) \in 1 .. limit - 1 /\ Len(shown) \in 0 .. limit - 1
    BY <1>2, <1>3, <2>3
  <2>5. shown # <<>>
    BY <2>4
  <2>6. shown = SubSeq(value, 1, Len(shown))
    <3> DEFINE n == Len(shown)
    <3>1. /\ n \in 1 .. limit - 1 /\ limit - 1 < Len(value) /\ n \in Int
      BY <1>1, <1>2, <2>4
    <3> HIDE DEF n
    <3>2. /\ \A i \in 1 .. n : value[i] \in Char
          /\ \A i \in 1 .. n : cut[i] \in Char
          /\ \A i \in 1 .. n : cut[i] = value[i]
      BY <1>1, <1>2, <1>3, <3>1
    <3>3. /\ SubSeq(value, 1, n) \in Seq(Char)
          /\ Len(SubSeq(value, 1, n)) = IF 1 <= n THEN n - 1 + 1 ELSE 0
          /\ \A i \in 1 .. n - 1 + 1 : SubSeq(value, 1, n)[i] = value[1 + i - 1]
      BY <3>1, <3>2, SubSeqProperties
    <3>4. /\ SubSeq(cut, 1, n) \in Seq(Char)
          /\ Len(SubSeq(cut, 1, n)) = IF 1 <= n THEN n - 1 + 1 ELSE 0
          /\ \A i \in 1 .. n - 1 + 1 : SubSeq(cut, 1, n)[i] = cut[1 + i - 1]
      BY <3>1, <3>2, SubSeqProperties
    <3>5. n - 1 + 1 = n /\ 1 <= n /\ \A i \in 1 .. n : 1 + i - 1 = i
      BY <3>1
    <3>6. /\ Len(SubSeq(value, 1, n)) = Len(SubSeq(cut, 1, n))
          /\ \A i \in 1 .. Len(SubSeq(cut, 1, n)) : SubSeq(cut, 1, n)[i] = SubSeq(value, 1, n)[i]
      <4> HIDE DEF cut
      <4> QED
        BY <3>2, <3>3, <3>4, <3>5
    <3>7. SubSeq(cut, 1, n) = SubSeq(value, 1, n)
      <4> HIDE DEF cut
      <4> QED
        BY <3>3, <3>4, <3>6, SeqEqual
    <3> QED
      BY <2>3, <3>7 DEF n
  <2> QED
    BY <2>3, <2>4, <2>5, <2>6
<1> QED
  BY <1>4, <1>5

\* Whatever the text and the limit, a body that is cut begins with a character of
\* the text, ends in a printed one and the ellipsis, and is two characters too
\* long at most.
THEOREM BodiesAreReadable ==
  ASSUME NEW Char, asked.text \in Seq(Char) \cup {Null}, asked.limit \in Nat \ {0}
  PROVE  BodyReadable
<1> DEFINE text  == IF asked.text = Null THEN <<>> ELSE asked.text
           limit == asked.limit
           body  == truncate(asked.text, limit)
           shown == SubSeq(body, 1, Len(body) - Len(Ellipsis))
           value == strip(text)
<1>1. text \in Seq(Char)
  BY EmptySeq
<1>2. truncate(asked.text, limit) =
        CASE value = <<>>                -> Null
          [] Len(value) \in 1 .. limit   -> value
          [] Len(value) > limit          -> rstrip(SubSeq(value, 1, limit - 1)) \o Ellipsis
  <2>1. CASE asked.text = Null
    <3>1. Printed(<<>>) = {}
      BY DEF Printed
    <3>2. value = <<>>
      BY <2>1, <3>1 DEF strip
    <3> QED
      BY <2>1, <3>2 DEF truncate
  <2>2. CASE asked.text # Null
    BY <2>2 DEF truncate
  <2> QED
    BY <2>1, <2>2
<1>3. limit \in Nat \ {0}
  OBVIOUS
<1>4. CASE Printed(text) = {}
  <2>1. value = <<>>
    BY <1>4 DEF strip
  <2>2. body = Null
    BY <1>2, <2>1
  <2> QED
    BY <1>4, <2>2 DEF BodyReadable
<1>5. CASE Printed(text) # {}
  <2>1. /\ value \in Seq(Char) /\ Len(value) \in Nat \ {0} /\ value # <<>>
        /\ value[1] # Blank
    <3>1. value \in Seq(Char) /\ Len(value) \in 1 .. Len(text) /\ value[1] # Blank
      BY <1>1, <1>5, Stripped
    <3>2. Len(text) \in Nat
      BY <1>1, LenProperties
    <3> HIDE DEF value
    <3>3. Len(value) \in Nat \ {0}
      BY <3>1, <3>2
    <3> QED
      BY <3>1, <3>3, EmptySeq
  <2>2. CASE Len(value) <= limit
    <3>1. body = value
      <4> HIDE DEF value, limit
      <4> QED
        BY <1>2, <1>3, <2>1, <2>2
    <3>2. Len(body) <= limit + 2
      <4> HIDE DEF value, limit, body
      <4> QED
        BY <1>3, <2>1, <2>2, <3>1
    <3> QED
      BY <1>5, <3>1, <3>2 DEF BodyReadable
  <2>3. CASE limit < Len(value)
    <3> DEFINE r == rstrip(SubSeq(value, 1, limit - 1))
    <3>1. body = r \o Ellipsis
      <4> HIDE DEF value, limit
      <4> QED
        BY <1>2, <1>3, <2>1, <2>3
    <3>2. /\ r \in Seq(Char) /\ Len(r) \in 0 .. limit - 1 /\ r = SubSeq(value, 1, Len(r))
          /\ limit > 1 => r # <<>> /\ r[Len(r)] # Blank
      <4> HIDE DEF value, limit
      <4> QED
        BY <1>3, <2>1, <2>3, CutText
    <3> DEFINE Wide == Char \cup {"."}
    <3>3. /\ Ellipsis \in Seq(Wide) /\ Len(Ellipsis) = 3
      BY DEF Ellipsis
    <3>4. r \in Seq(Wide)
      BY <3>2, SeqMonotonic
    <3> HIDE DEF r
    <3> HIDE DEF Wide
    <3>5. /\ r \o Ellipsis \in Seq(Wide) /\ Len(r \o Ellipsis) = Len(r) + 3
          /\ \A i \in 1 .. Len(r) + 3 :
               (r \o Ellipsis)[i] = IF i <= Len(r) THEN r[i] ELSE Ellipsis[i - Len(r)]
      <4>1. /\ r \o Ellipsis \in Seq(Wide) /\ Len(r \o Ellipsis) = Len(r) + Len(Ellipsis)
            /\ \A i \in 1 .. Len(r) + Len(Ellipsis) :
                 (r \o Ellipsis)[i] = IF i <= Len(r) THEN r[i] ELSE Ellipsis[i - Len(r)]
        BY <3>3, <3>4, ConcatProperties
      <4> QED
        BY <3>3, <4>1
    <3>6. Len(r) \in Nat /\ Len(r) + 3 - 3 = Len(r)
      BY <3>2, LenProperties
    <3>7. shown = SubSeq(r \o Ellipsis, 1, Len(r))
      BY <3>1, <3>3, <3>5, <3>6
    <3>8. SubSeq(r \o Ellipsis, 1, Len(r)) = r
      <4> DEFINE n == Len(r)
                 e == r \o Ellipsis
      <4>1. /\ n \in Int /\ \A i \in 1 .. n : e[i] = r[i] /\ e[i] \in Char
        BY <3>2, <3>5, <3>6, ElementOfSeq
      <4>2. /\ SubSeq(e, 1, n) \in Seq(Char)
            /\ Len(SubSeq(e, 1, n)) = IF 1 <= n THEN n - 1 + 1 ELSE 0
            /\ \A i \in 1 .. n - 1 + 1 : SubSeq(e, 1, n)[i] = e[1 + i - 1]
        <5> HIDE DEF n, e
        <5> QED
          BY <4>1, SubSeqProperties
      <4>3. n - 1 + 1 = n /\ (1 <= n \/ n = 0) /\ \A i \in 1 .. n : 1 + i - 1 = i
        BY <3>6
      <4>4. Len(SubSeq(e, 1, n)) = Len(r)
        <5> HIDE DEF e
        <5> QED
          BY <3>6, <4>2, <4>3
      <4>5. \A i \in 1 .. Len(r) : SubSeq(e, 1, n)[i] = r[i]
        <5> HIDE DEF e
        <5> QED
          BY <4>1, <4>2, <4>3
      <4>6. SubSeq(e, 1, n) = r
        <5> HIDE DEF n, e
        <5> QED
          BY <3>2, <4>2, <4>4, <4>5, SeqEqual
      <4> QED
        BY <4>6
    <3>9. shown = r
      BY <3>7, <3>8
    <3>10. Len(body) <= limit + 2
      <4>1. Len(body) = Len(r) + 3
        BY <3>1, <3>5
      <4> HIDE DEF body, limit
      <4> QED
        BY <1>3, <3>2, <4>1
    <3>11. /\ limit < Len(value) /\ body = shown \o Ellipsis
           /\ shown = SubSeq(value, 1, Len(shown))
           /\ limit > 1 => shown # <<>> /\ shown[Len(shown)] # Blank
      BY <2>3, <3>1, <3>2, <3>9
    <3> QED
      BY <1>5, <3>10, <3>11 DEF BodyReadable
  <2>4. Len(value) <= limit \/ limit < Len(value)
    <3> HIDE DEF value, limit
    <3> QED
      BY <1>3, <2>1
  <2> QED
    BY <2>2, <2>3, <2>4
<1> QED
  BY <1>4, <1>5

-----------------------------------------------------------------------------
(* Settings                                                                 *)

\* strip() of nothing is nothing.
LEMMA StripNothing == strip(<<>>) = <<>>
<1>1. Printed(<<>>) = {}
  BY DEF Printed
<1> QED
  BY <1>1 DEF strip

\* Whatever ENV the process has: the file load_env_files picks is the one for the
\* environment config.ENV names.  dev.env must not name another environment than
\* its own.
THEOREM OneEnvironmentForAll ==
  ASSUME "ENV" \in DOMAIN asked.process,
         LET name == asked.files["dev.env"]["ENV"]
         IN  name \in {Null, <<>>} \/ strip(name) = dev
  PROVE  OneEnvironment
<1> DEFINE process == asked.process
           name    == asked.files["dev.env"]["ENV"]
           env     == Loaded(process, asked.files)
<1>1. Set(process, "ENV") => env["ENV"] = process["ENV"]
  BY DEF Loaded
<1>2. ~Set(process, "ENV") => env["ENV"] = name /\ EnvName(process) = dev
  BY DEF Loaded, FileOf, EnvName
<1> HIDE DEF env
<1>3. CASE Set(process, "ENV")
  <2>1. Set(env, "ENV") /\ env["ENV"] = process["ENV"]
    BY <1>1, <1>3 DEF Set
  <2> QED
    BY <1>3, <2>1 DEF EnvName, get_env, OneEnvironment, env
<1>4. CASE ~Set(process, "ENV")
  <2>1. get_env(env, "ENV", dev) = dev
    BY <1>2, <1>4 DEF get_env, Set
  <2> QED
    BY <1>2, <1>4, <2>1 DEF OneEnvironment, env
<1> QED
  BY <1>3, <1>4

\* get_env of the environment the process ends up with is what the nearer of its
\* two places has.
LEMMA NearestWins ==
  ASSUME NEW process, NEW files, NEW key \in DOMAIN process
  PROVE  get_env(Loaded(process, files), key, <<>>)
           = Nearest(process, FileOf(process, files), key)
<1> DEFINE file == FileOf(process, files)
           env  == Loaded(process, files)
<1>1. env[key] = IF Set(process, key) THEN process[key] ELSE file[key]
  BY DEF Loaded
<1> SUFFICES get_env(env, key, <<>>) = Nearest(process, file, key)
  OBVIOUS
<1> HIDE DEF env, file
<1>2. CASE Set(process, key)
  BY <1>1, <1>2, StripNothing DEF get_env, Nearest, Set
<1>3. CASE ~Set(process, key) /\ Set(file, key)
  BY <1>1, <1>3, StripNothing DEF get_env, Nearest, Set
<1>4. CASE ~Set(process, key) /\ ~Set(file, key)
  BY <1>1, <1>4 DEF get_env, Nearest, Set
<1> QED
  BY <1>2, <1>3, <1>4

\* Whatever the process, its files and the vault hold, be it texts, ids, both or
\* neither: a text at hand wins, and an id is never passed over for the default.
THEOREM SecretFromNearestPlace ==
  ASSUME {"KEY", "KEY_NAME", "PROJECT_NUMBER"} \subseteq DOMAIN asked.process,
         \A id \in DOMAIN asked.vault : asked.vault[id] # Raises
  PROVE  SecretPrecedence
<1> DEFINE process   == asked.process
           vault     == asked.vault
           env       == Loaded(process, asked.files)
           Have(key) == Nearest(process, FileOf(process, asked.files), key)
           secret    == get_secret(env, vault, "KEY", "KEY_NAME", <<>>)
           found     == access_secret_version(env, vault, Have("KEY_NAME"))
<1>1. /\ get_env(env, "KEY", <<>>) = Have("KEY")
      /\ get_env(env, "KEY_NAME", <<>>) = Have("KEY_NAME")
      /\ get_env(env, "PROJECT_NUMBER", <<>>) = Have("PROJECT_NUMBER")
  BY NearestWins
<1> HIDE DEF env, Have
<1>2. CASE Have("KEY") # <<>>
  <2>1. secret = Have("KEY")
    BY <1>1, <1>2 DEF get_secret
  <2> QED
    BY <1>2, <2>1 DEF SecretPrecedence, env, Have
<1>3. CASE Have("KEY") = <<>> /\ Have("KEY_NAME") = <<>>
  <2>1. secret = <<>>
    BY <1>1, <1>3 DEF get_secret
  <2> QED
    BY <1>3, <2>1 DEF SecretPrecedence, env, Have
<1>4. CASE Have("KEY") = <<>> /\ Have("KEY_NAME") # <<>>
  <2>1. secret = IF found = Raises THEN Raises ELSE strip(found)
    BY <1>1, <1>4 DEF get_secret
  <2>2. found = IF Have("PROJECT_NUMBER") # <<>> /\ Have("KEY_NAME") \in DOMAIN vault
                THEN vault[Have("KEY_NAME")] ELSE Raises
    BY <1>1 DEF access_secret_version
  <2> HIDE DEF secret, found
  <2>3. secret = IF Have("PROJECT_NUMBER") # <<>> /\ Have("KEY_NAME") \in DOMAIN vault
                 THEN strip(vault[Have("KEY_NAME")]) ELSE Raises
    BY <2>1, <2>2
  <2> QED
    BY <1>4, <2>3 DEF SecretPrecedence, secret, env, Have
<1> QED
  BY <1>2, <1>3, <1>4

=============================================================================
