---------------------------- MODULE PartsProofs -----------------------------
(***************************************************************************)
(* Theorems about the installs (Install), and about the six modules that   *)
(* MCParts puts side by side.                                              *)
(***************************************************************************)
EXTENDS MCParts, PortsProofs, PageProofs, SequenceTheorems, TLAPS

-----------------------------------------------------------------------------
(* Programs *)

settle == [do |-> "settle"]

\* Every step is one.
LEMMA StepTypes ==
  /\ settle \in Step /\ [do |-> "ask"] \in Step /\ [do |-> "pip"] \in Step
  /\ \A how \in {"newest", "memo"} : [do |-> "resolve", how |-> how] \in Step
  /\ \A f \in Fetched, d \in {"sure", "maybe"} :
       /\ [do |-> "get", file |-> f, digest |-> d] \in Step
       /\ [do |-> "dedupe", file |-> f, digest |-> d] \in Step
  /\ \A outs \in SUBSET Files, f \in Fetched, b \in BOOLEAN :
       [do |-> "run", outs |-> outs, from |-> f, finally |-> b] \in Step
  /\ \A f \in Fetched : [do |-> "drop", file |-> f] \in Step
  /\ \A k \in {"mcVersion", "derived"} : [do |-> "note", key |-> k] \in Step
<1>1. settle \in Step /\ [do |-> "ask"] \in Step /\ [do |-> "pip"] \in Step
  BY DEF Step, settle
<1>2. \A how \in {"newest", "memo"} : [do |-> "resolve", how |-> how] \in Step
  BY DEF Step
<1>3. \A f \in Fetched, d \in {"sure", "maybe"} :
       /\ [do |-> "get", file |-> f, digest |-> d] \in Step
       /\ [do |-> "dedupe", file |-> f, digest |-> d] \in Step
  BY DEF Step
<1>4. \A outs \in SUBSET Files, f \in Fetched, b \in BOOLEAN :
       [do |-> "run", outs |-> outs, from |-> f, finally |-> b] \in Step
  BY DEF Step
<1>5. /\ \A f \in Fetched : [do |-> "drop", file |-> f] \in Step
      /\ \A k \in {"mcVersion", "derived"} : [do |-> "note", key |-> k] \in Step
  BY DEF Step
<1> QED
  BY <1>1, <1>2, <1>3, <1>4, <1>5

\* What the proofs need of the program p of blueprint s.
Installs(s, p) ==
  /\ p \in Seq(Step) /\ p # <<>> /\ Shaped("install", p)
  /\ \A i \in DOMAIN p : p[i].do \in {"get", "dedupe", "run", "note"} => \E k \in 1..(i - 1) : p[k].do = "resolve"
  /\ s # "endstone" => ~Resolved(p) /\ \A f \in Launched(s) : \E i \in DOMAIN p : Makes(p[i], f)
  /\ \A k \in NoteKeys(s) : \E i \in DOMAIN p : p[i].do = "note" /\ p[i].key = k
  /\ s = "endstone" => p = <<[do |-> "pip"], settle>>

LEMMA LongSeq ==
  ASSUME NEW S, NEW p \in Seq(S), Len(p) > 1
  PROVE  DOMAIN p = 1..Len(p) /\ 1 \in DOMAIN p /\ p # <<>>
  OBVIOUS

\* The elements of the programs, by the way they are put together.
One(x) == <<x>>

\* p is q and z.
Extends(S, p, q, z) ==
  /\ p \in Seq(S) /\ Len(p) = Len(q) + 1 /\ p[Len(q) + 1] = z
  /\ \A i \in 1..Len(q) : p[i] = q[i]

LEMMA Extended == ASSUME NEW S, NEW q \in Seq(S), NEW z \in S PROVE Extends(S, q \o One(z), q, z)
  BY DEF One, Extends

TwoAre(S, p, a, b) ==
  p \in Seq(S) /\ Len(p) = 2 /\ p[1] = a /\ p[2] = b
ThreeAre(S, p, a, b, c) ==
  p \in Seq(S) /\ Len(p) = 3 /\ p[1] = a /\ p[2] = b /\ p[3] = c
FourAre(S, p, a, b, c, d) ==
  p \in Seq(S) /\ Len(p) = 4 /\ p[1] = a /\ p[2] = b /\ p[3] = c /\ p[4] = d
FiveAre(S, p, a, b, c, d, e) ==
  p \in Seq(S) /\ Len(p) = 5 /\ p[1] = a /\ p[2] = b /\ p[3] = c /\ p[4] = d /\ p[5] = e
SixAre(S, p, a, b, c, d, e, f) ==
  p \in Seq(S) /\ Len(p) = 6 /\ p[1] = a /\ p[2] = b /\ p[3] = c /\ p[4] = d /\ p[5] = e /\ p[6] = f
SevenAre(S, p, a, b, c, d, e, f, g) ==
  p \in Seq(S) /\ Len(p) = 7 /\ p[1] = a /\ p[2] = b /\ p[3] = c /\ p[4] = d /\ p[5] = e /\ p[6] = f /\ p[7] = g
EightAre(S, p, a, b, c, d, e, f, g, h) ==
  p \in Seq(S) /\ Len(p) = 8 /\ p[1] = a /\ p[2] = b /\ p[3] = c /\ p[4] = d /\ p[5] = e /\ p[6] = f /\ p[7] = g /\ p[8] = h

LEMMA Two ==
  ASSUME NEW S, NEW a \in S, NEW b \in S
  PROVE  TwoAre(S, One(a) \o One(b), a, b)
  BY DEF One, TwoAre

LEMMA Three ==
  ASSUME NEW S, NEW a \in S, NEW b \in S, NEW c \in S
  PROVE  ThreeAre(S, (One(a) \o One(b)) \o One(c), a, b, c)
<1>1. PICK q : q = One(a) \o One(b)
  OBVIOUS
<1>2. TwoAre(S, q, a, b)
  BY <1>1, Two, Zenon
<1>3. q \in Seq(S)
  BY ONLY <1>2 DEF TwoAre
<1>4. PICK p : p = q \o One(c)
  OBVIOUS
<1>5. Extends(S, p, q, c)
  BY <1>3, <1>4, Extended, Zenon
<1>6. ThreeAre(S, p, a, b, c)
  BY ONLY <1>2, <1>5 DEF TwoAre, ThreeAre, Extends
<1> QED
  BY <1>1, <1>4, <1>6, Zenon

LEMMA Four ==
  ASSUME NEW S, NEW a \in S, NEW b \in S, NEW c \in S, NEW d \in S
  PROVE  FourAre(S, ((One(a) \o One(b)) \o One(c)) \o One(d), a, b, c, d)
<1>1. PICK q : q = (One(a) \o One(b)) \o One(c)
  OBVIOUS
<1>2. ThreeAre(S, q, a, b, c)
  BY <1>1, Three, Zenon
<1>3. q \in Seq(S)
  BY ONLY <1>2 DEF ThreeAre
<1>4. PICK p : p = q \o One(d)
  OBVIOUS
<1>5. Extends(S, p, q, d)
  BY <1>3, <1>4, Extended, Zenon
<1>6. FourAre(S, p, a, b, c, d)
  BY ONLY <1>2, <1>5 DEF ThreeAre, FourAre, Extends
<1> QED
  BY <1>1, <1>4, <1>6, Zenon

LEMMA Five ==
  ASSUME NEW S, NEW a \in S, NEW b \in S, NEW c \in S, NEW d \in S, NEW e \in S
  PROVE  FiveAre(S, (((One(a) \o One(b)) \o One(c)) \o One(d)) \o One(e), a, b, c, d, e)
<1>1. PICK q : q = ((One(a) \o One(b)) \o One(c)) \o One(d)
  OBVIOUS
<1>2. FourAre(S, q, a, b, c, d)
  BY <1>1, Four, Zenon
<1>3. q \in Seq(S)
  BY ONLY <1>2 DEF FourAre
<1>4. PICK p : p = q \o One(e)
  OBVIOUS
<1>5. Extends(S, p, q, e)
  BY <1>3, <1>4, Extended, Zenon
<1>6. FiveAre(S, p, a, b, c, d, e)
  BY ONLY <1>2, <1>5 DEF FourAre, FiveAre, Extends
<1> QED
  BY <1>1, <1>4, <1>6, Zenon

LEMMA Six ==
  ASSUME NEW S, NEW a \in S, NEW b \in S, NEW c \in S, NEW d \in S, NEW e \in S, NEW f \in S
  PROVE  SixAre(S, ((((One(a) \o One(b)) \o One(c)) \o One(d)) \o One(e)) \o One(f), a, b, c, d, e, f)
<1>1. PICK q : q = (((One(a) \o One(b)) \o One(c)) \o One(d)) \o One(e)
  OBVIOUS
<1>2. FiveAre(S, q, a, b, c, d, e)
  BY <1>1, Five, Zenon
<1>3. q \in Seq(S)
  BY ONLY <1>2 DEF FiveAre
<1>4. PICK p : p = q \o One(f)
  OBVIOUS
<1>5. Extends(S, p, q, f)
  BY <1>3, <1>4, Extended, Zenon
<1>6. SixAre(S, p, a, b, c, d, e, f)
  BY ONLY <1>2, <1>5 DEF FiveAre, SixAre, Extends
<1> QED
  BY <1>1, <1>4, <1>6, Zenon

LEMMA Seven ==
  ASSUME NEW S, NEW a \in S, NEW b \in S, NEW c \in S, NEW d \in S, NEW e \in S, NEW f \in S, NEW g \in S
  PROVE  SevenAre(S, (((((One(a) \o One(b)) \o One(c)) \o One(d)) \o One(e)) \o One(f)) \o One(g), a, b, c, d, e, f, g)
<1>1. PICK q : q = ((((One(a) \o One(b)) \o One(c)) \o One(d)) \o One(e)) \o One(f)
  OBVIOUS
<1>2. SixAre(S, q, a, b, c, d, e, f)
  BY <1>1, Six, Zenon
<1>3. q \in Seq(S)
  BY ONLY <1>2 DEF SixAre
<1>4. PICK p : p = q \o One(g)
  OBVIOUS
<1>5. Extends(S, p, q, g)
  BY <1>3, <1>4, Extended, Zenon
<1>6. SevenAre(S, p, a, b, c, d, e, f, g)
  BY ONLY <1>2, <1>5 DEF SixAre, SevenAre, Extends
<1> QED
  BY <1>1, <1>4, <1>6, Zenon

LEMMA Eight ==
  ASSUME NEW S, NEW a \in S, NEW b \in S, NEW c \in S, NEW d \in S, NEW e \in S, NEW f \in S, NEW g \in S, NEW h \in S
  PROVE  EightAre(S, ((((((One(a) \o One(b)) \o One(c)) \o One(d)) \o One(e)) \o One(f)) \o One(g)) \o One(h), a, b, c, d, e, f, g, h)
<1>1. PICK q : q = (((((One(a) \o One(b)) \o One(c)) \o One(d)) \o One(e)) \o One(f)) \o One(g)
  OBVIOUS
<1>2. SevenAre(S, q, a, b, c, d, e, f, g)
  BY <1>1, Seven, Zenon
<1>3. q \in Seq(S)
  BY ONLY <1>2 DEF SevenAre
<1>4. PICK p : p = q \o One(h)
  OBVIOUS
<1>5. Extends(S, p, q, h)
  BY <1>3, <1>4, Extended, Zenon
<1>6. EightAre(S, p, a, b, c, d, e, f, g, h)
  BY ONLY <1>2, <1>5 DEF SevenAre, EightAre, Extends
<1> QED
  BY <1>1, <1>4, <1>6, Zenon

LEMMA TwoThree ==
  ASSUME NEW S, NEW a \in S, NEW b \in S, NEW c \in S, NEW d \in S, NEW e \in S
  PROVE  FiveAre(S, (One(a) \o One(b)) \o ((One(c) \o One(d)) \o One(e)), a, b, c, d, e)
<1>1. PICK q : q = One(a) \o One(b)
  OBVIOUS
<1>2. PICK r : r = (One(c) \o One(d)) \o One(e)
  OBVIOUS
<1>3. TwoAre(S, q, a, b) /\ ThreeAre(S, r, c, d, e)
  BY <1>1, <1>2, Two, Three, Zenon
<1>4. PICK p : p = q \o r
  OBVIOUS
<1>5. /\ p \in Seq(S) /\ Len(p) = Len(q) + Len(r)
      /\ \A i \in 1..(Len(q) + Len(r)) : p[i] = IF i <= Len(q) THEN q[i] ELSE r[i - Len(q)]
  <2>1. q \in Seq(S) /\ r \in Seq(S)
    BY ONLY <1>3 DEF TwoAre, ThreeAre
  <2> QED
    BY ONLY <1>4, <2>1, ConcatProperties
<1>6. FiveAre(S, p, a, b, c, d, e)
  BY ONLY <1>3, <1>5 DEF TwoAre, ThreeAre, FiveAre
<1> QED
  BY <1>1, <1>2, <1>4, <1>6, Zenon

LEMMA TwoThreeOne ==
  ASSUME NEW S, NEW a \in S, NEW b \in S, NEW c \in S, NEW d \in S, NEW e \in S, NEW f \in S
  PROVE  SixAre(S, ((One(a) \o One(b)) \o ((One(c) \o One(d)) \o One(e))) \o One(f), a, b, c, d, e, f)
<1>1. PICK q : q = (One(a) \o One(b)) \o ((One(c) \o One(d)) \o One(e))
  OBVIOUS
<1>2. FiveAre(S, q, a, b, c, d, e)
  BY <1>1, TwoThree, Zenon
<1>3. q \in Seq(S)
  BY ONLY <1>2 DEF FiveAre
<1>4. PICK p : p = q \o One(f)
  OBVIOUS
<1>5. Extends(S, p, q, f)
  BY <1>3, <1>4, Extended, Zenon
<1>6. SixAre(S, p, a, b, c, d, e, f)
  BY ONLY <1>2, <1>5 DEF FiveAre, SixAre, Extends
<1> QED
  BY <1>1, <1>4, <1>6, Zenon

LEMMA TwoThreeTwo ==
  ASSUME NEW S, NEW a \in S, NEW b \in S, NEW c \in S, NEW d \in S, NEW e \in S, NEW f \in S, NEW g \in S
  PROVE  SevenAre(S, (((One(a) \o One(b)) \o ((One(c) \o One(d)) \o One(e))) \o One(f)) \o One(g), a, b, c, d, e, f, g)
<1>1. PICK q : q = ((One(a) \o One(b)) \o ((One(c) \o One(d)) \o One(e))) \o One(f)
  OBVIOUS
<1>2. SixAre(S, q, a, b, c, d, e, f)
  BY <1>1, TwoThreeOne, Zenon
<1>3. q \in Seq(S)
  BY ONLY <1>2 DEF SixAre
<1>4. PICK p : p = q \o One(g)
  OBVIOUS
<1>5. Extends(S, p, q, g)
  BY <1>3, <1>4, Extended, Zenon
<1>6. SevenAre(S, p, a, b, c, d, e, f, g)
  BY ONLY <1>2, <1>5 DEF SixAre, SevenAre, Extends
<1> QED
  BY <1>1, <1>4, <1>6, Zenon

\* A program that begins with the version is one if it has what it makes.
LEMMA FirstResolves ==
  ASSUME NEW s \in Slugs, s # "endstone", NEW p \in Seq(Step), Len(p) > 1, p[1].do = "resolve",
         Shaped("install", p),
         \A f \in Launched(s) : \E i \in DOMAIN p : Makes(p[i], f),
         \A k \in NoteKeys(s) : \E i \in DOMAIN p : p[i].do = "note" /\ p[i].key = k
  PROVE  Installs(s, p)
<1>1. DOMAIN p = 1..Len(p) /\ 1 \in DOMAIN p /\ p # <<>>
  BY LongSeq
<1>2. ~Resolved(p)
  BY <1>1 DEF Resolved
<1>3. ASSUME NEW i \in DOMAIN p, p[i].do \in {"get", "dedupe", "run", "note"}
      PROVE  \E k \in 1..(i - 1) : p[k].do = "resolve"
  <2>1. i # 1
    BY <1>3
  <2> QED
    BY <1>1, <2>1
<1> QED
  BY <1>1, <1>2, <1>3 DEF Installs

\* Each blueprint's program is of that kind, operation by operation.
LEMMA BlueprintInstalls ==
  ASSUME NEW s \in Slugs PROVE Installs(s, Blueprint(s) \o <<settle>>)
<1> DEFINE p == Blueprint(s) \o <<settle>>
           newest == [do |-> "resolve", how |-> "newest"]
           memoed == [do |-> "resolve", how |-> "memo"]
           ask == [do |-> "ask"]
           Get(f, d) == [do |-> "get", file |-> f, digest |-> d]
           Runs(outs, f, b) == [do |-> "run", outs |-> outs, from |-> f, finally |-> b]
           Drops(f) == [do |-> "drop", file |-> f]
           Notes(k) == [do |-> "note", key |-> k]
<1>t. /\ newest \in Step /\ memoed \in Step /\ ask \in Step /\ settle \in Step
      /\ \A f \in Jars, d \in {"sure", "maybe"} : Get(f, d) \in Step
      /\ \A outs \in SUBSET Tools, f \in Archives, b \in BOOLEAN : Runs(outs, f, b) \in Step
      /\ \A f \in Archives : Drops(f) \in Step
      /\ \A k \in {"mcVersion", "derived"} : Notes(k) \in Step
  BY StepTypes DEF Fetched, Files, Jars, Made, Tools, Archives
<1>s. newest \in Step /\ memoed \in Step /\ ask \in Step /\ settle \in Step
  BY <1>t
<1>v. newest.do = "resolve" /\ memoed.do = "resolve" /\ ask.do = "ask" /\ settle.do = "settle"
  BY DEF settle
<1>1. CASE s = "paper"
  <2> DEFINE get == Get("paper.jar", "sure")
             note == Notes("mcVersion")
  <2>1. p = (((One(newest) \o One(ask)) \o One(get)) \o One(note)) \o One(settle)
    BY <1>1 DEF One, Blueprint, fetchPaper, resolvePaperVersion, latestPaperBuild, fetchJson, Resolve,
       downloadFile, Note
  <2>2. get \in Step /\ note \in Step
    BY <1>t DEF Jars, Tools, Archives
  <2>3. /\ get.do = "get" /\ get.file = "paper.jar"
        /\ note.do = "note" /\ note.key = "mcVersion"
    OBVIOUS
  <2> HIDE DEF p, newest, memoed, ask, get, note
  <2>p. FiveAre(Step, p, newest, ask, get, note, settle)
    BY ONLY <1>s, <2>1, <2>2, Five, Zenon
  <2>4. /\ p \in Seq(Step) /\ Len(p) = 5
        /\ p[1] = newest /\ p[2] = ask /\ p[3] = get /\ p[4] = note /\ p[5] = settle
    BY <2>p DEF FiveAre
  <2>d. DOMAIN p = 1..5
    BY <2>4, LenProperties
  <2>5. Shaped("install", p)
    BY <1>v, <2>3, <2>4 DEF Shaped, Follows, Jars, Archives, Tools
  <2>6. Makes(p[3], "paper.jar")
    BY <2>3, <2>4 DEF Makes
  <2>7. \A f \in Launched(s) : \E i \in DOMAIN p : Makes(p[i], f)
    BY <1>1, <2>4, <2>6, <2>d DEF Launched
  <2>8. \A k \in NoteKeys(s) : \E i \in DOMAIN p : p[i].do = "note" /\ p[i].key = k
    BY <1>1, <2>3, <2>4, <2>d DEF NoteKeys
  <2>9. Installs(s, p)
    BY <1>v, <1>1, <2>4, <2>5, <2>7, <2>8, FirstResolves
  <2> QED
    BY <2>9 DEF p
<1>2. CASE s = "vanilla"
  <2> DEFINE get == Get("server.jar", "sure")
             note == Notes("mcVersion")
  <2>1. p = (((One(newest) \o One(ask)) \o One(get)) \o One(note)) \o One(settle)
    BY <1>2 DEF One, Blueprint, fetchVanilla, resolveVanilla, fetchJson, Resolve,
       downloadFile, Note
  <2>2. get \in Step /\ note \in Step
    BY <1>t DEF Jars, Tools, Archives
  <2>3. /\ get.do = "get" /\ get.file = "server.jar"
        /\ note.do = "note" /\ note.key = "mcVersion"
    OBVIOUS
  <2> HIDE DEF p, newest, memoed, ask, get, note
  <2>p. FiveAre(Step, p, newest, ask, get, note, settle)
    BY ONLY <1>s, <2>1, <2>2, Five, Zenon
  <2>4. /\ p \in Seq(Step) /\ Len(p) = 5
        /\ p[1] = newest /\ p[2] = ask /\ p[3] = get /\ p[4] = note /\ p[5] = settle
    BY <2>p DEF FiveAre
  <2>d. DOMAIN p = 1..5
    BY <2>4, LenProperties
  <2>5. Shaped("install", p)
    BY <1>v, <2>3, <2>4 DEF Shaped, Follows, Jars, Archives, Tools
  <2>6. Makes(p[3], "server.jar")
    BY <2>3, <2>4 DEF Makes
  <2>7. \A f \in Launched(s) : \E i \in DOMAIN p : Makes(p[i], f)
    BY <1>2, <2>4, <2>6, <2>d DEF Launched
  <2>8. \A k \in NoteKeys(s) : \E i \in DOMAIN p : p[i].do = "note" /\ p[i].key = k
    BY <1>2, <2>3, <2>4, <2>d DEF NoteKeys
  <2>9. Installs(s, p)
    BY <1>v, <1>2, <2>4, <2>5, <2>7, <2>8, FirstResolves
  <2> QED
    BY <2>9 DEF p
<1>3. CASE s = "purpur"
  <2> DEFINE get == Get("purpur.jar", "maybe")
             note == Notes("mcVersion")
  <2>1. p = (((One(newest) \o One(ask)) \o One(get)) \o One(note)) \o One(settle)
    BY <1>3 DEF One, Blueprint, fetchPurpur, resolvePurpur, fetchJson, Resolve,
       downloadFile, Note
  <2>2. get \in Step /\ note \in Step
    BY <1>t DEF Jars, Tools, Archives
  <2>3. /\ get.do = "get" /\ get.file = "purpur.jar"
        /\ note.do = "note" /\ note.key = "mcVersion"
    OBVIOUS
  <2> HIDE DEF p, newest, memoed, ask, get, note
  <2>p. FiveAre(Step, p, newest, ask, get, note, settle)
    BY ONLY <1>s, <2>1, <2>2, Five, Zenon
  <2>4. /\ p \in Seq(Step) /\ Len(p) = 5
        /\ p[1] = newest /\ p[2] = ask /\ p[3] = get /\ p[4] = note /\ p[5] = settle
    BY <2>p DEF FiveAre
  <2>d. DOMAIN p = 1..5
    BY <2>4, LenProperties
  <2>5. Shaped("install", p)
    BY <1>v, <2>3, <2>4 DEF Shaped, Follows, Jars, Archives, Tools
  <2>6. Makes(p[3], "purpur.jar")
    BY <2>3, <2>4 DEF Makes
  <2>7. \A f \in Launched(s) : \E i \in DOMAIN p : Makes(p[i], f)
    BY <1>3, <2>4, <2>6, <2>d DEF Launched
  <2>8. \A k \in NoteKeys(s) : \E i \in DOMAIN p : p[i].do = "note" /\ p[i].key = k
    BY <1>3, <2>3, <2>4, <2>d DEF NoteKeys
  <2>9. Installs(s, p)
    BY <1>v, <1>3, <2>4, <2>5, <2>7, <2>8, FirstResolves
  <2> QED
    BY <2>9 DEF p
<1>4. CASE s = "velocity"
  <2> DEFINE get == Get("velocity.jar", "sure")
  <2>1. p = ((One(newest) \o One(ask)) \o One(get)) \o One(settle)
    BY <1>4 DEF One, Blueprint, fetchVelocity, resolveVelocity, fetchJson, Resolve,
       downloadFile
  <2>2. get \in Step
    BY <1>t DEF Jars, Tools, Archives
  <2>3. /\ get.do = "get" /\ get.file = "velocity.jar"
    OBVIOUS
  <2> HIDE DEF p, newest, memoed, ask, get
  <2>p. FourAre(Step, p, newest, ask, get, settle)
    BY ONLY <1>s, <2>1, <2>2, Four, Zenon
  <2>4. /\ p \in Seq(Step) /\ Len(p) = 4
        /\ p[1] = newest /\ p[2] = ask /\ p[3] = get /\ p[4] = settle
    BY <2>p DEF FourAre
  <2>d. DOMAIN p = 1..4
    BY <2>4, LenProperties
  <2>5. Shaped("install", p)
    BY <1>v, <2>3, <2>4 DEF Shaped, Follows, Jars, Archives, Tools
  <2>6. Makes(p[3], "velocity.jar")
    BY <2>3, <2>4 DEF Makes
  <2>7. \A f \in Launched(s) : \E i \in DOMAIN p : Makes(p[i], f)
    BY <1>4, <2>4, <2>6, <2>d DEF Launched
  <2>8. \A k \in NoteKeys(s) : \E i \in DOMAIN p : p[i].do = "note" /\ p[i].key = k
    BY <1>4, <2>3, <2>4, <2>d DEF NoteKeys
  <2>9. Installs(s, p)
    BY <1>v, <1>4, <2>4, <2>5, <2>7, <2>8, FirstResolves
  <2> QED
    BY <2>9 DEF p
<1>5. CASE s = "fabric"
  <2> DEFINE note == Notes("mcVersion")
             get == Get("installer.jar", "sure")
             tool == Runs({"launcher", "server.jar"}, "installer.jar", TRUE)
  <2>1. p = ((One(memoed) \o One(note)) \o ((One(ask) \o One(get)) \o One(tool))) \o One(settle)
    BY <1>5 DEF One, Blueprint, installFabric, resolveMinecraftVersion, ByInstaller, fetchSidecarSha1, fetchJson, Resolve,
       downloadFile, Note, Run
  <2>2. note \in Step /\ get \in Step /\ tool \in Step
    BY <1>t DEF Jars, Tools, Archives
  <2>3. /\ note.do = "note" /\ note.key = "mcVersion"
        /\ get.do = "get" /\ get.file = "installer.jar"
        /\ tool.do = "run" /\ tool.outs = {"launcher", "server.jar"} /\ tool.from = "installer.jar" /\ tool.finally = TRUE
    OBVIOUS
  <2> HIDE DEF p, newest, memoed, ask, note, get, tool
  <2>p. SixAre(Step, p, memoed, note, ask, get, tool, settle)
    BY ONLY <1>s, <2>1, <2>2, TwoThreeOne, Zenon
  <2>4. /\ p \in Seq(Step) /\ Len(p) = 6
        /\ p[1] = memoed /\ p[2] = note /\ p[3] = ask /\ p[4] = get /\ p[5] = tool /\ p[6] = settle
    BY <2>p DEF SixAre
  <2>d. DOMAIN p = 1..6
    BY <2>4, LenProperties
  <2>5. Shaped("install", p)
    BY <1>v, <2>3, <2>4 DEF Shaped, Follows, Jars, Archives, Tools
  <2>6. Makes(p[5], "launcher") /\ Makes(p[5], "server.jar")
    BY <2>3, <2>4 DEF Makes
  <2>7. \A f \in Launched(s) : \E i \in DOMAIN p : Makes(p[i], f)
    BY <1>5, <2>4, <2>6, <2>d DEF Launched
  <2>8. \A k \in NoteKeys(s) : \E i \in DOMAIN p : p[i].do = "note" /\ p[i].key = k
    BY <1>5, <2>3, <2>4, <2>d DEF NoteKeys
  <2>9. Installs(s, p)
    BY <1>v, <1>5, <2>4, <2>5, <2>7, <2>8, FirstResolves
  <2> QED
    BY <2>9 DEF p
<1>6. CASE s = "forge"
  <2> DEFINE note == Notes("mcVersion")
             get == Get("installer.jar", "sure")
             tool == Runs({"args", "server.jar"}, "installer.jar", TRUE)
             derived == Notes("derived")
  <2>1. p = (((One(memoed) \o One(note)) \o ((One(ask) \o One(get)) \o One(tool))) \o One(derived)) \o One(settle)
    BY <1>6 DEF One, Blueprint, installForge, resolveMinecraftVersion, ByInstaller, fetchSidecarSha1, fetchJson, Resolve,
       downloadFile, Note, Run
  <2>2. note \in Step /\ get \in Step /\ tool \in Step /\ derived \in Step
    BY <1>t DEF Jars, Tools, Archives
  <2>3. /\ note.do = "note" /\ note.key = "mcVersion"
        /\ get.do = "get" /\ get.file = "installer.jar"
        /\ tool.do = "run" /\ tool.outs = {"args", "server.jar"} /\ tool.from = "installer.jar" /\ tool.finally = TRUE
        /\ derived.do = "note" /\ derived.key = "derived"
    OBVIOUS
  <2> HIDE DEF p, newest, memoed, ask, note, get, tool, derived
  <2>p. SevenAre(Step, p, memoed, note, ask, get, tool, derived, settle)
    BY ONLY <1>s, <2>1, <2>2, TwoThreeTwo, Zenon
  <2>4. /\ p \in Seq(Step) /\ Len(p) = 7
        /\ p[1] = memoed /\ p[2] = note /\ p[3] = ask /\ p[4] = get /\ p[5] = tool /\ p[6] = derived /\ p[7] = settle
    BY <2>p DEF SevenAre
  <2>d. DOMAIN p = 1..7
    BY <2>4, LenProperties
  <2>5. Shaped("install", p)
    BY <1>v, <2>3, <2>4 DEF Shaped, Follows, Jars, Archives, Tools
  <2>6. Makes(p[5], "args") /\ Makes(p[5], "server.jar")
    BY <2>3, <2>4 DEF Makes
  <2>7. \A f \in Launched(s) : \E i \in DOMAIN p : Makes(p[i], f)
    BY <1>6, <2>4, <2>6, <2>d DEF Launched
  <2>8. \A k \in NoteKeys(s) : \E i \in DOMAIN p : p[i].do = "note" /\ p[i].key = k
    BY <1>6, <2>3, <2>4, <2>d DEF NoteKeys
  <2>9. Installs(s, p)
    BY <1>v, <1>6, <2>4, <2>5, <2>7, <2>8, FirstResolves
  <2> QED
    BY <2>9 DEF p
<1>7. CASE s = "bedrock-bds"
  <2> DEFINE get == Get("bedrock-server.zip", "sure")
             tool == Runs({"bedrock_server"}, "bedrock-server.zip", FALSE)
             drop == Drops("bedrock-server.zip")
  <2>1. p = ((((One(newest) \o One(ask)) \o One(get)) \o One(tool)) \o One(drop)) \o One(settle)
    BY <1>7 DEF One, Blueprint, fetchBds, resolveBds, fetchJson, Resolve,
       downloadFile, Run, Drop
  <2>2. get \in Step /\ tool \in Step /\ drop \in Step
    BY <1>t DEF Jars, Tools, Archives
  <2>3. /\ get.do = "get" /\ get.file = "bedrock-server.zip"
        /\ tool.do = "run" /\ tool.outs = {"bedrock_server"} /\ tool.from = "bedrock-server.zip" /\ tool.finally = FALSE
        /\ drop.do = "drop" /\ drop.file = "bedrock-server.zip"
    OBVIOUS
  <2> HIDE DEF p, newest, memoed, ask, get, tool, drop
  <2>p. SixAre(Step, p, newest, ask, get, tool, drop, settle)
    BY ONLY <1>s, <2>1, <2>2, Six, Zenon
  <2>4. /\ p \in Seq(Step) /\ Len(p) = 6
        /\ p[1] = newest /\ p[2] = ask /\ p[3] = get /\ p[4] = tool /\ p[5] = drop /\ p[6] = settle
    BY <2>p DEF SixAre
  <2>d. DOMAIN p = 1..6
    BY <2>4, LenProperties
  <2>5. Shaped("install", p)
    BY <1>v, <2>3, <2>4 DEF Shaped, Follows, Jars, Archives, Tools
  <2>6. Makes(p[4], "bedrock_server")
    BY <2>3, <2>4 DEF Makes
  <2>7. \A f \in Launched(s) : \E i \in DOMAIN p : Makes(p[i], f)
    BY <1>7, <2>4, <2>6, <2>d DEF Launched
  <2>8. \A k \in NoteKeys(s) : \E i \in DOMAIN p : p[i].do = "note" /\ p[i].key = k
    BY <1>7, <2>3, <2>4, <2>d DEF NoteKeys
  <2>9. Installs(s, p)
    BY <1>v, <1>7, <2>4, <2>5, <2>7, <2>8, FirstResolves
  <2> QED
    BY <2>9 DEF p
<1>8. CASE s = "pocketmine-mp"
  <2> DEFINE get == Get("phar", "maybe")
             php == Get("php-runtime", "maybe")
             tool == Runs({"php"}, "php-runtime", FALSE)
             drop == Drops("php-runtime")
             note == Notes("derived")
  <2>1. p = ((((((One(newest) \o One(ask)) \o One(get)) \o One(php)) \o One(tool)) \o One(drop)) \o One(note)) \o One(settle)
    BY <1>8 DEF One, Blueprint, fetchPocketmine, resolvePocketMine, fetchJson, Resolve,
       downloadFile, Note, Run, Drop
  <2>2. get \in Step /\ php \in Step /\ tool \in Step /\ drop \in Step /\ note \in Step
    BY <1>t DEF Jars, Tools, Archives
  <2>3. /\ get.do = "get" /\ get.file = "phar"
        /\ php.do = "get" /\ php.file = "php-runtime"
        /\ tool.do = "run" /\ tool.outs = {"php"} /\ tool.from = "php-runtime" /\ tool.finally = FALSE
        /\ drop.do = "drop" /\ drop.file = "php-runtime"
        /\ note.do = "note" /\ note.key = "derived"
    OBVIOUS
  <2> HIDE DEF p, newest, memoed, ask, get, php, tool, drop, note
  <2>p. EightAre(Step, p, newest, ask, get, php, tool, drop, note, settle)
    BY ONLY <1>s, <2>1, <2>2, Eight, Zenon
  <2>4. /\ p \in Seq(Step) /\ Len(p) = 8
        /\ p[1] = newest /\ p[2] = ask /\ p[3] = get /\ p[4] = php /\ p[5] = tool /\ p[6] = drop /\ p[7] = note /\ p[8] = settle
    BY <2>p DEF EightAre
  <2>d. DOMAIN p = 1..8
    BY <2>4, LenProperties
  <2>5. Shaped("install", p)
    BY <1>v, <2>3, <2>4 DEF Shaped, Follows, Jars, Archives, Tools
  <2>6. Makes(p[3], "phar") /\ Makes(p[5], "php")
    BY <2>3, <2>4 DEF Makes
  <2>7. \A f \in Launched(s) : \E i \in DOMAIN p : Makes(p[i], f)
    BY <1>8, <2>4, <2>6, <2>d DEF Launched
  <2>8. \A k \in NoteKeys(s) : \E i \in DOMAIN p : p[i].do = "note" /\ p[i].key = k
    BY <1>8, <2>3, <2>4, <2>d DEF NoteKeys
  <2>9. Installs(s, p)
    BY <1>v, <1>8, <2>4, <2>5, <2>7, <2>8, FirstResolves
  <2> QED
    BY <2>9 DEF p
<1>9. CASE s = "endstone"
  <2> DEFINE pip == [do |-> "pip"]
  <2>1. p = One(pip) \o One(settle)
    BY <1>9 DEF One, Blueprint, fetchEndstone, pipInstall
  <2>2. pip \in Step /\ pip.do = "pip"
    BY StepTypes
  <2> HIDE DEF p, pip
  <2>p. TwoAre(Step, p, pip, settle)
    BY ONLY <1>s, <2>1, <2>2, Two, Zenon
  <2>d. p \in Seq(Step) /\ Len(p) = 2 /\ p[1] = pip /\ p[2] = settle
    BY <2>p DEF TwoAre
  <2>3. p = <<pip, settle>> /\ DOMAIN p = 1..2
    BY <1>s, <2>2, <2>d, SeqEqual, LenProperties
  <2>4. Shaped("install", p)
    BY <1>v, <2>2, <2>3, <2>d DEF Shaped, Follows
  <2>5. NoteKeys(s) = {}
    BY <1>9 DEF NoteKeys
  <2>6. \A i \in DOMAIN p : p[i].do \notin {"get", "dedupe", "run", "note"}
    BY <1>v, <2>2, <2>3, <2>d
  <2> QED
    BY <1>9, <2>3, <2>d, <2>4, <2>5, <2>6 DEF Installs, p, pip
<1> QED
  BY <1>1, <1>2, <1>3, <1>4, <1>5, <1>6, <1>7, <1>8, <1>9, InstallAssumption

\* So is that of an add-on request.
AddsOns(j, p) ==
  /\ p \in Seq(Step) /\ p # <<>> /\ Shaped(j, p)
  /\ \A i \in DOMAIN p : p[i].do \in {"get", "dedupe", "run", "note"} => \E k \in 1..(i - 1) : p[k].do = "resolve"

LEMMA AddonsInstall ==
  ASSUME NEW j \in Adders, NEW fs \in Projects, NEW p, p = installModrinthProjects(fs) \o One(settle)
  PROVE  AddsOns(j, p)
<1> DEFINE memoed == [do |-> "resolve", how |-> "memo"]
           ask == [do |-> "ask"]
           Deduped(f) == [do |-> "dedupe", file |-> f, digest |-> "maybe"]
<1>1. fs \in Seq(Addons)
  <2>1. ASSUME NEW gs \in Addons \X Addons PROVE gs \in Seq(Addons)
    <3>1. PICK f, g \in Addons : gs = <<f, g>>
      OBVIOUS
    <3>2. <<f, g>> \in Seq(Addons)
      OBVIOUS
    <3> QED
      BY <3>1, <3>2
  <2>2. \A f \in Addons : <<f>> \in Seq(Addons)
    OBVIOUS
  <2> QED
    BY <2>1, <2>2 DEF Projects
<1>2. PICK n \in Nat : n = Len(fs) /\ DOMAIN fs = 1..n
  BY <1>1, LenProperties
<1>3. PICK u : u = Unless(fs, "maybe")
  OBVIOUS
<1>4. u = [i \in 1..n |-> Deduped(fs[i])]
  BY <1>2, <1>3 DEF Unless
<1>5. \A i \in 1..n : fs[i] \in Addons /\ Deduped(fs[i]) \in Step
  <2>1. \A i \in 1..n : fs[i] \in Addons
    BY <1>1, <1>2
  <2> QED
    BY <2>1, StepTypes DEF Fetched
<1>6. u \in Seq(Step) /\ Len(u) = n /\ \A i \in 1..n : u[i].do = "dedupe" /\ u[i].file \in Addons
  <2>1. u \in [1..n -> Step]
    BY <1>4, <1>5
  <2>2. \A i \in 1..n : u[i].do = "dedupe" /\ u[i].file \in Addons
    BY <1>4, <1>5
  <2> QED
    BY <2>1, <2>2
<1>7. memoed \in Step /\ ask \in Step /\ settle \in Step
  BY StepTypes
<1>8. PICK q : q = One(memoed) \o One(ask)
  OBVIOUS
<1>9. q \in Seq(Step) /\ Len(q) = 2 /\ q[1] = memoed /\ q[2] = ask
  <2>1. TwoAre(Step, q, memoed, ask)
    BY <1>7, <1>8, Two, Zenon
  <2> QED
    BY <2>1 DEF TwoAre
<1>10. PICK r : r = q \o u
  OBVIOUS
<1>11. /\ r \in Seq(Step) /\ Len(r) = Len(q) + Len(u)
       /\ \A i \in 1..(Len(q) + Len(u)) : r[i] = IF i <= Len(q) THEN q[i] ELSE u[i - Len(q)]
  BY ONLY <1>6, <1>9, <1>10, ConcatProperties
<1>12. p = r \o One(settle)
  BY <1>3, <1>8, <1>10 DEF installModrinthProjects, resolveMinecraftVersion, Resolve, fetchJson, One
<1>13. Extends(Step, p, r, settle)
  BY <1>7, <1>11, <1>12, Extended, Zenon
<1> HIDE DEF memoed, ask
<1>14. /\ p \in Seq(Step) /\ Len(p) = n + 3 /\ p[1] = memoed /\ p[2] = ask /\ p[n + 3] = settle
       /\ \A i \in 3..(n + 2) : p[i].do = "dedupe" /\ p[i].file \in Addons
  <2>1. Len(r) = n + 2 /\ r[1] = memoed /\ r[2] = ask /\ \A i \in 3..(n + 2) : r[i] = u[i - 2]
    BY ONLY <1>2, <1>6, <1>9, <1>11
  <2>2. \A i \in 3..(n + 2) : i - 2 \in 1..n
    BY ONLY <1>2
  <2> QED
    BY ONLY <1>2, <1>6, <1>13, <2>1, <2>2 DEF Extends
<1>15. memoed.do = "resolve" /\ ask.do = "ask" /\ settle.do = "settle"
  BY DEF memoed, ask, settle
<1>16. j # "install"
  BY InstallAssumption
<1>17. DOMAIN p = 1..(n + 3) /\ p # <<>>
  BY ONLY <1>2, <1>14, LongSeq
<1>18. Shaped(j, p)
  <2>1. p[Len(p)].do = "settle"
    BY ONLY <1>2, <1>14, <1>15
  <2>2. ASSUME NEW i \in 1..(Len(p) - 1)
        PROVE  \/ i = 1 /\ p[i].do = "resolve"
               \/ i = 2 /\ p[i].do = "ask"
               \/ p[i].do = "dedupe" /\ p[i].file \in Addons
    <3>1. i = 1 \/ i = 2 \/ i \in 3..(n + 2)
      BY ONLY <1>2, <1>14, i \in 1..(Len(p) - 1)
    <3>2. i = 1 => p[i].do = "resolve"
      BY <1>14, <1>15
    <3>3. i = 2 => p[i].do = "ask"
      BY <1>14, <1>15
    <3> QED
      BY <1>14, <3>1, <3>2, <3>3
  <2>3. \A i \in 1..(Len(p) - 1) : Follows(j, p[i], p[i + 1])
    BY <1>16, <2>2 DEF Follows
  <2>4. ASSUME NEW i \in DOMAIN p, NEW k \in DOMAIN p, i < k, p[i].do \in {"dedupe", "get", "run"}
        PROVE  p[k].do # "resolve"
    <3>1. i # 1
      BY <1>14, <1>15, <2>4
    <3>2. k # 1 /\ (k \in 1..(Len(p) - 1) \/ k = Len(p))
      BY ONLY <1>2, <1>14, <1>17, <3>1, i \in DOMAIN p, k \in DOMAIN p, i < k
    <3> QED
      BY <2>1, <2>2, <3>2
  <2> QED
    BY <2>1, <2>3, <2>4 DEF Shaped
<1>19. ASSUME NEW i \in DOMAIN p, p[i].do \in {"get", "dedupe", "run", "note"}
       PROVE  \E k \in 1..(i - 1) : p[k].do = "resolve"
  <2>1. i # 1 /\ i \in 1..(n + 3)
    BY <1>14, <1>15, <1>17, <1>19
  <2>2. 1 \in 1..(i - 1)
    BY ONLY <1>2, <2>1
  <2> QED
    BY <1>14, <1>15, <2>2
<1> QED
  BY <1>14, <1>17, <1>18, <1>19 DEF AddsOns

\* The rest of a program is one.
LEMMA RestShaped ==
  ASSUME NEW j, NEW p \in Seq(Step), p # <<>>, Shaped(j, p), Head(p).do # "settle"
  PROVE  /\ Len(p) \in Nat /\ Len(p) > 1 /\ DOMAIN p = 1..Len(p) /\ p[1] = Head(p)
         /\ Tail(p) \in Seq(Step) /\ Tail(p) # <<>> /\ Shaped(j, Tail(p))
         /\ Len(Tail(p)) = Len(p) - 1 /\ DOMAIN Tail(p) = 1..(Len(p) - 1)
         /\ \A i \in 1..(Len(p) - 1) : Tail(p)[i] = p[i + 1]
<1>1. Len(p) \in Nat /\ Len(p) # 0 /\ DOMAIN p = 1..Len(p) /\ p[1] = Head(p)
  BY LenProperties, EmptySeq
<1>2. Len(p) > 1
  <2>1. Len(p) # 1
    BY <1>1 DEF Shaped
  <2> QED
    BY <1>1, <2>1
<1>3. PICK t : t = Tail(p)
  OBVIOUS
<1>4. t \in Seq(Step) /\ Len(t) = Len(p) - 1 /\ \A i \in 1..(Len(p) - 1) : t[i] = p[i + 1]
  BY <1>1, <1>3, HeadTailProperties
<1>5. t # <<>> /\ DOMAIN t = 1..(Len(p) - 1)
  BY <1>1, <1>2, <1>4, LenProperties
<1>6. Shaped(j, t)
  <2>1. t[Len(t)].do = "settle"
    BY <1>1, <1>2, <1>4 DEF Shaped
  <2>2. ASSUME NEW i \in 1..(Len(t) - 1) PROVE Follows(j, t[i], t[i + 1])
    <3>1. i + 1 \in 1..(Len(p) - 1) /\ t[i] = p[i + 1] /\ t[i + 1] = p[(i + 1) + 1]
      BY <1>1, <1>2, <1>4
    <3> QED
      BY <3>1 DEF Shaped
  <2>3. ASSUME NEW i \in DOMAIN t, NEW k \in DOMAIN t, i < k, t[i].do \in {"dedupe", "get", "run"}
        PROVE  t[k].do # "resolve"
    <3>1. i + 1 \in DOMAIN p /\ k + 1 \in DOMAIN p /\ i + 1 < k + 1 /\ t[i] = p[i + 1] /\ t[k] = p[k + 1]
      BY <1>1, <1>4, <1>5, <2>3
    <3> QED
      BY <2>3, <3>1 DEF Shaped
  <2> QED
    BY <2>1, <2>2, <2>3 DEF Shaped
<1> QED
  BY <1>1, <1>2, <1>3, <1>4, <1>5, <1>6

\* Its versions are still known, or known by now.
LEMMA RestVersioned ==
  ASSUME NEW j, NEW p \in Seq(Step), p # <<>>, Shaped(j, p), Head(p).do # "settle",
         NEW g, Versioned(g, p), NEW h, h \in Builds \/ (h = g /\ Head(p).do # "resolve")
  PROVE  Versioned(h, Tail(p))
<1>1. PICK t : t = Tail(p)
  OBVIOUS
<1>2. /\ Len(p) \in Nat /\ DOMAIN p = 1..Len(p) /\ p[1] = Head(p)
      /\ DOMAIN t = 1..(Len(p) - 1) /\ \A i \in 1..(Len(p) - 1) : t[i] = p[i + 1]
  BY <1>1, RestShaped
<1>3. ASSUME h \notin Builds, NEW i \in DOMAIN t, t[i].do \in {"get", "dedupe", "run", "note"}
      PROVE  \E k \in 1..(i - 1) : t[k].do = "resolve"
  <2>1. i + 1 \in DOMAIN p /\ p[i + 1].do \in {"get", "dedupe", "run", "note"}
    BY <1>2, <1>3
  <2>2. PICK k \in 1..((i + 1) - 1) : p[k].do = "resolve"
    BY <1>3, <2>1 DEF Versioned
  <2>3. k # 1
    BY <1>2, <1>3, <2>2
  <2>4. k - 1 \in 1..(i - 1) /\ t[k - 1] = p[(k - 1) + 1] /\ (k - 1) + 1 = k
    BY <1>2, <1>3, <2>3
  <2> QED
    BY <2>2, <2>4
<1> QED
  BY <1>1, <1>3 DEF Versioned

LEMMA FileKinds ==
  /\ Addons \cap Jars = {} /\ Addons \cap Made = {} /\ Jars \cap Made = {}
  /\ Archives \subseteq Jars /\ Tools \subseteq Jars \cup Made /\ Tools \cap Archives = {}
  /\ Tools \cap Jars = {"server.jar"} /\ {"py3", "py"} \cap Tools = {} /\ {"py3", "py"} \subseteq Made
  /\ Files = Jars \cup Addons \cup Made /\ Fetched = Jars \cup Addons
<1>1. Addons \cap Jars = {} /\ Addons \cap Made = {}
  BY InstallAssumption
<1>2. Jars \cap Made = {} /\ Archives \subseteq Jars /\ Tools \subseteq Jars \cup Made
  BY DEF Jars, Made, Archives, Tools
<1>3. Tools \cap Archives = {} /\ Tools \cap Jars = {"server.jar"} /\ {"py3", "py"} \cap Tools = {}
  BY DEF Jars, Archives, Tools
<1>4. {"py3", "py"} \subseteq Made
  BY DEF Made
<1> QED
  BY <1>1, <1>2, <1>3, <1>4 DEF Files, Fetched

\* The download of an add-on takes the place of its check.
LEMMA DedupedShaped ==
  ASSUME NEW j \in Jobs, j # "install", NEW p \in Seq(Step), p # <<>>, Shaped(j, p),
         Head(p).do = "dedupe", NEW f \in Addons, NEW d \in {"sure", "maybe"}, NEW g \in Builds
  PROVE  LET q == downloadFile(f, d) \o Tail(p) IN
         q \in Seq(Step) /\ q # <<>> /\ Shaped(j, q) /\ Versioned(g, q)
<1>1. PICK t : t = Tail(p)
  OBVIOUS
<1>2. /\ Len(p) \in Nat /\ Len(p) > 1 /\ DOMAIN p = 1..Len(p) /\ p[1] = Head(p)
      /\ t \in Seq(Step) /\ t # <<>> /\ Shaped(j, t) /\ Len(t) = Len(p) - 1
      /\ DOMAIN t = 1..(Len(p) - 1) /\ \A i \in 1..(Len(p) - 1) : t[i] = p[i + 1]
  BY <1>1, RestShaped
<1>3. PICK get : get = [do |-> "get", file |-> f, digest |-> d]
  OBVIOUS
<1>4. get.do = "get" /\ get.file = f /\ get.file \in Addons /\ get.file \notin Archives
  BY <1>3, FileKinds
<1>5. get \in Step
  BY <1>3, StepTypes, FileKinds
<1>6. PICK q : q = One(get) \o t
  OBVIOUS
<1>7. One(get) \in Seq(Step) /\ Len(One(get)) = 1 /\ One(get)[1] = get
  BY <1>5 DEF One
<1>8. /\ q \in Seq(Step) /\ Len(q) = Len(p)
      /\ q[1] = get /\ \A i \in 2..Len(p) : q[i] = t[i - 1]
  <2>1. /\ q \in Seq(Step) /\ Len(q) = Len(One(get)) + Len(t)
        /\ \A i \in 1..(Len(One(get)) + Len(t)) :
             q[i] = IF i <= Len(One(get)) THEN One(get)[i] ELSE t[i - Len(One(get))]
    <3>1. One(get) \in Seq(Step) /\ t \in Seq(Step)
      BY ONLY <1>2, <1>7
    <3> QED
      BY ONLY <1>6, <3>1, ConcatProperties
  <2>2. PICK o : o = One(get)
    OBVIOUS
  <2>3. /\ q \in Seq(Step) /\ Len(q) = 1 + Len(t)
        /\ \A i \in 1..(1 + Len(t)) : q[i] = IF i <= 1 THEN o[i] ELSE t[i - 1]
    BY ONLY <1>7, <2>1, <2>2
  <2>4. 1 + Len(t) = Len(p) /\ o[1] = get /\ Len(p) \in Nat /\ Len(p) > 1
    BY ONLY <1>2, <1>7, <2>2
  <2> QED
    BY ONLY <2>3, <2>4
<1>9. /\ q # <<>> /\ DOMAIN q = 1..Len(p) /\ \A i \in 2..Len(p) : q[i] = p[i]
  BY ONLY <1>2, <1>8, LenProperties
<1>10. Shaped(j, q)
  <2>1. q[Len(q)].do = "settle"
    BY ONLY <1>2, <1>8, <1>9, Shaped(j, p) DEF Shaped
  <2>2. ASSUME NEW i \in 1..(Len(q) - 1) PROVE Follows(j, q[i], q[i + 1])
    <3>1. CASE i = 1
      BY <1>4, <1>8, <3>1 DEF Follows
    <3>2. CASE i # 1
      <4>1. q[i] = p[i] /\ q[i + 1] = p[i + 1]
        BY <1>2, <1>8, <1>9, <3>2
      <4> QED
        BY <1>8, <4>1 DEF Shaped
    <3> QED
      BY <3>1, <3>2
  <2>3. ASSUME NEW i \in DOMAIN q, NEW k \in DOMAIN q, i < k, q[i].do \in {"dedupe", "get", "run"}
        PROVE  q[k].do # "resolve"
    <3>1. k # 1 /\ q[k] = p[k]
      BY <1>2, <1>9, <2>3
    <3>2. p[i].do \in {"dedupe", "get", "run"}
      BY <1>2, <1>9, <2>3
    <3> QED
      BY <1>2, <1>9, <2>3, <3>1, <3>2 DEF Shaped
  <2> QED
    BY <2>1, <2>2, <2>3 DEF Shaped
<1>11. Versioned(g, q)
  BY DEF Versioned
<1>12. downloadFile(f, d) \o Tail(p) = q
  BY <1>1, <1>3, <1>6 DEF downloadFile, One
<1> QED
  BY <1>8, <1>9, <1>10, <1>11, <1>12

-----------------------------------------------------------------------------
(* Files and the steps that touch them *)

\* What is launched is neither an add-on nor an archive.
LEMMA LaunchedFiles ==
  ASSUME NEW s \in Slugs, s # "endstone"
  PROVE  /\ Launched(s) \subseteq (Jars \cup Tools) \ Archives
         /\ Launched(s) \cap {"py3", "py"} = {} /\ Launched(s)' = Launched(s)
<1>1. s \in {"paper", "vanilla", "purpur", "velocity", "fabric", "forge", "bedrock-bds", "pocketmine-mp"}
  BY InstallAssumption
<1> QED
  BY <1>1 DEF Launched, Jars, Tools, Archives

LEMMA TheInstall == "install" \in Jobs /\ \A j \in Jobs : j = "install" \/ (j # "install" /\ j \in Adders)
  BY InstallAssumption DEF Jobs

LEMMA BuildKinds == "none" \notin Builds /\ "latest" \notin Builds
  BY InstallAssumption

\* A file of the install is written by the install only, an add-on by the others.
FilesOf(j) == IF j = "install" THEN Jars ELSE Addons

\* The fields of a step.
LEMMA StepFields ==
  ASSUME NEW st \in Step
  PROVE  /\ st.do \in {"ask", "pip", "settle", "resolve", "get", "dedupe", "run", "drop", "note"}
         /\ st.do = "resolve" => st.how \in {"newest", "memo"}
         /\ st.do \in {"get", "dedupe"} => st.file \in Fetched /\ st.digest \in {"sure", "maybe"}
         /\ st.do = "run" => st.outs \in SUBSET Files /\ st.from \in Fetched /\ st.finally \in BOOLEAN
         /\ st.do = "drop" => st.file \in Fetched
         /\ st.do = "note" => st.key \in {"mcVersion", "derived"}
  BY DEF Step

\* What job j is at, when its program is p.
At(j) ==
  LET st == Now(j) IN
  /\ prog[j] \in Seq(Step) /\ prog[j] # <<>> /\ st \in Step /\ st = prog[j][1]
  /\ st.do = "get" => st.file \in FilesOf(j) /\ st.digest \in {"sure", "maybe"}
  /\ st.do = "dedupe" => j # "install" /\ st.file \in Addons /\ st.digest \in {"sure", "maybe"}
  /\ st.do = "run" => j = "install" /\ st.from \in Archives /\ st.outs \subseteq Tools /\ st.finally \in BOOLEAN
  /\ st.do = "drop" => j = "install" /\ st.file \in Archives
  /\ st.do = "note" => j = "install" /\ st.key \in {"mcVersion", "derived"}
  /\ st.do = "pip" => j = "install"
  /\ st.do \in {"get", "dedupe", "run", "note"} => ctx[j].got \in Builds
  /\ ctx[j].want \in Builds \cup {"latest"}

LEMMA Heads ==
  ASSUME InstallTypeOK, ProgramInv, NEW j \in Jobs, prog[j] # <<>>
  PROVE  At(j)
<1>1. PICK p : p = prog[j]
  OBVIOUS
<1>2. p \in Seq(Step) /\ p # <<>> /\ ctx[j].want \in Builds \cup {"none", "latest"}
  BY <1>1 DEF InstallTypeOK, Context
<1>3. Head(p) = p[1] /\ Head(p) \in Step /\ 1 \in DOMAIN p /\ Len(p) \in Nat /\ Len(p) >= 1
  BY <1>2
<1>4. Shaped(j, p) /\ Versioned(ctx[j].got, p) /\ ctx[j].want # "none"
  BY <1>1 DEF ProgramInv
<1>5. p[1].do \in {"get", "dedupe", "run", "note"} => ctx[j].got \in Builds
  BY <1>3, <1>4 DEF Versioned
<1>6. p[1].do = "settle" \/ Follows(j, p[1], p[2])
  <2>1. CASE Len(p) = 1
    BY <1>4, <2>1 DEF Shaped
  <2>2. CASE Len(p) # 1
    <3>1. 1 \in 1..(Len(p) - 1)
      BY ONLY <1>3, <2>2
    <3>2. Follows(j, p[1], p[1 + 1])
      BY <1>4, <3>1 DEF Shaped
    <3> QED
      BY <3>2
  <2> QED
    BY <2>1, <2>2
<1>7. PICK st : st = p[1]
  OBVIOUS
<1>8. /\ st.do = "get" => st.file \in FilesOf(j)
      /\ st.do = "dedupe" => j # "install" /\ st.file \in Addons
      /\ st.do = "run" => j = "install" /\ st.from \in Archives /\ st.outs \subseteq Tools
      /\ st.do = "drop" => j = "install" /\ st.file \in Archives
      /\ st.do \in {"note", "pip"} => j = "install"
  BY <1>6, <1>7 DEF Follows, FilesOf
<1>9. st \in Step
  BY <1>3, <1>7
<1> QED
  BY <1>1, <1>2, <1>3, <1>4, <1>5, <1>7, <1>8, <1>9, StepFields DEF At, Now

-----------------------------------------------------------------------------
(* What a step does to the programs *)

\* A program and its context that belong together.
Fit(j, p, c) ==
  /\ p \in Seq(Step) /\ c \in Context
  /\ p # <<>> => Shaped(j, p) /\ Versioned(c.got, p) /\ c.want # "none"
AllFit ==
  /\ prog \in [Jobs -> Seq(Step)] /\ ctx \in [Jobs -> Context]
  /\ \A k \in Jobs : Fit(k, prog[k], ctx[k])

LEMMA Fitting == ASSUME InstallTypeOK PROVE AllFit <=> ProgramInv
  BY DEF InstallTypeOK, AllFit, ProgramInv, Fit

LEMMA FitUpdate ==
  ASSUME AllFit, NEW j \in Jobs, NEW p, NEW c, Fit(j, p, c),
         prog' = [prog EXCEPT ![j] = p], ctx' = [ctx EXCEPT ![j] = c]
  PROVE  AllFit'
<1>1. prog' \in [Jobs -> Seq(Step)] /\ ctx' \in [Jobs -> Context]
  BY DEF AllFit, Fit
<1>2. ASSUME NEW k \in Jobs PROVE Fit(k, prog'[k], ctx'[k])
  <2>1. CASE k = j
    BY <2>1 DEF AllFit
  <2>2. CASE k # j
    <3>1. prog'[k] = prog[k] /\ ctx'[k] = ctx[k] /\ Fit(k, prog[k], ctx[k])
      BY <2>2 DEF AllFit
    <3> QED
      BY <3>1
  <2> QED
    BY <2>1, <2>2
<1> QED
  BY <1>1, <1>2 DEF AllFit, Fit, Shaped, Versioned, Follows

LEMMA SameContext ==
  ASSUME AllFit, NEW j \in Jobs
  PROVE  ctx = [ctx EXCEPT ![j] = ctx[j]] /\ prog = [prog EXCEPT ![j] = prog[j]]
  BY DEF AllFit

LEMMA Contexts ==
  ASSUME NEW c \in Context
  PROVE  /\ NoJob \in Context
         /\ \A v \in Builds : LET d == [c EXCEPT !.got = v] IN d \in Context /\ d.got = v /\ d.want = c.want
         /\ \A k \in {"mcVersion", "derived"} :
              LET d == [c EXCEPT !.noted = @ \cup {k}] IN d \in Context /\ d.got = c.got /\ d.want = c.want
         /\ c.left # <<>> =>
              LET d == [c EXCEPT !.left = Tail(@)] IN d \in Context /\ d.got = c.got /\ d.want = c.want
<1>1. NoJob \in Context
  BY DEF NoJob, Context
<1>2. ASSUME NEW v \in Builds, NEW d, d = [c EXCEPT !.got = v]
      PROVE  d \in Context /\ d.got = v /\ d.want = c.want
  BY <1>2 DEF Context
<1>3. ASSUME NEW k \in {"mcVersion", "derived"}, NEW d, d = [c EXCEPT !.noted = @ \cup {k}]
      PROVE  d \in Context /\ d.got = c.got /\ d.want = c.want
  BY <1>3 DEF Context
<1>4. ASSUME NEW d, d = [c EXCEPT !.left = Tail(@)], c.left # <<>>
      PROVE  d \in Context /\ d.got = c.got /\ d.want = c.want
  <2>1. c.left \in {<<>>, <<"py">>, Pythons}
    BY DEF Context
  <2>2. Tail(c.left) \in {<<>>, <<"py">>, Pythons}
    <3>1. Tail(<<"py">>) = <<>> /\ Tail(Pythons) = <<"py">>
      BY DEF Pythons
    <3> QED
      BY <1>4, <2>1, <3>1
  <2> QED
    BY <1>4, <2>2 DEF Context
<1> QED
  BY <1>1, <1>2, <1>3, <1>4

\* Ends, with or without success.
LEMMA EndFits ==
  ASSUME AllFit, NEW j \in Jobs, prog' = [prog EXCEPT ![j] = <<>>], ctx' = [ctx EXCEPT ![j] = NoJob]
  PROVE  AllFit'
<1>1. Fit(j, <<>>, NoJob)
  <2>1. ctx[j] \in Context
    BY DEF AllFit
  <2>2. NoJob \in Context
    BY <2>1, Contexts
  <2>3. <<>> \in Seq(Step)
    OBVIOUS
  <2> QED
    BY <2>2, <2>3 DEF Fit
<1> QED
  BY <1>1, FitUpdate

\* Goes on to the next step, with a context that is at least as good.
LEMMA GoFits ==
  ASSUME AllFit, NEW j \in Jobs, prog[j] # <<>>, Now(j).do # "settle", Go(j),
         NEW c \in Context, c.want = ctx[j].want,
         c.got \in Builds \/ (c.got = ctx[j].got /\ Now(j).do # "resolve"),
         ctx' = [ctx EXCEPT ![j] = c]
  PROVE  AllFit'
<1>1. PICK p : p = prog[j]
  OBVIOUS
<1>2. Fit(j, p, ctx[j]) /\ p # <<>> /\ Now(j) = Head(p)
  BY <1>1 DEF AllFit, Now
<1>3. p \in Seq(Step) /\ Shaped(j, p) /\ Versioned(ctx[j].got, p) /\ ctx[j].want # "none"
  BY <1>2 DEF Fit
<1>4. Tail(p) \in Seq(Step) /\ Shaped(j, Tail(p)) /\ Versioned(c.got, Tail(p))
  BY <1>2, <1>3, RestShaped, RestVersioned
<1>5. Fit(j, Tail(p), c)
  BY <1>3, <1>4 DEF Fit
<1>6. prog' = [prog EXCEPT ![j] = Tail(p)]
  BY <1>1 DEF Go
<1> QED
  BY <1>5, <1>6, FitUpdate

LEMMA BeginFits ==
  ASSUME AllFit, NEW j \in Jobs, NEW steps, NEW want \in Builds \cup {"latest"},
         NEW asked \in Builds \cup {"none", "latest"}, Begin(j, steps, want, asked),
         steps \o <<settle>> \in Seq(Step), Shaped(j, steps \o <<settle>>),
         Versioned("none", steps \o <<settle>>)
  PROVE  AllFit'
<1>1. PICK p : p = steps \o <<settle>>
  OBVIOUS
<1>2. PICK c : c = [want |-> want, got |-> "none", noted |-> {}, asked |-> asked, left |-> Pythons]
  OBVIOUS
<1>3. c \in Context /\ c.got = "none" /\ c.want # "none"
  BY <1>2, BuildKinds DEF Context
<1>4. Fit(j, p, c)
  BY <1>1, <1>3 DEF Fit
<1>5. prog' = [prog EXCEPT ![j] = p] /\ ctx' = [ctx EXCEPT ![j] = c]
  BY <1>1, <1>2 DEF Begin, settle
<1> QED
  BY <1>4, <1>5, FitUpdate

JobStep(j) ==
  \/ AskFails(j) \/ Answered(j) \/ ResolveVersion(j) \/ NoteVariable(j) \/ Dedupe(j)
  \/ OpenPart(j) \/ Verified(j) \/ VerifiedTooLate(j) \/ Unverifiable(j) \/ Broken(j)
  \/ RunDone(j) \/ RunFails(j) \/ DropArchive(j)
  \/ ProbeFails(j) \/ MakesVenv(j) \/ VenvFails(j) \/ PipDone(j) \/ PipGivesUp(j)

\* The steps of the server's row, and of everything else.
RowStep ==
  \/ Reinstall \/ InstallDone \/ Suspend \/ Unsuspend
  \/ \E s \in Slugs, v \in Builds \cup {"none"} : SwapSoftware(s, v)
  \/ \E v \in Builds \cup {"latest"} : EditVersion(v)
AsideStep ==
  \/ \E j \in Adders : AddonsDone(j) \/ \E fs \in Projects : AskAddons(j, fs)
  \/ SearchAddons \/ (\E f \in Addons : RemoveAddon(f))
  \/ Publish \/ MemoExpires

LEMMA StepKinds ==
  ASSUME [InstallNext]_installVars
  PROVE  (\E j \in Jobs : JobStep(j)) \/ RowStep \/ AsideStep \/ PanelRestarts \/ UNCHANGED installVars
  BY DEF InstallNext, JobStep, Download, Tool, RowStep, AsideStep

\* A job that takes a step has a program, and is not past its end.
LEMMA JobAt ==
  ASSUME InstallTypeOK, ProgramInv, NEW j \in Jobs, JobStep(j)
  PROVE  At(j) /\ Now(j).do # "settle" /\ (writer[j] # "no" => Now(j).do = "get")
<1>1. prog[j] # <<>> /\ Now(j).do # "settle" /\ (writer[j] # "no" => Now(j).do = "get")
  BY DEF JobStep, InstallTypeOK, AskFails, Answered, ResolveVersion, NoteVariable, Dedupe, OpenPart, Verified,
     VerifiedTooLate, Unverifiable, BrokenPromoted, Broken, RunDone, RunFails, DropArchive, ProbeFails, MakesVenv,
     VenvFails, PipDone, PipGivesUp, Piping, Doing, Writing
<1> QED
  BY <1>1, Heads

\* Every job's step leaves programs that fit.
LEMMA JobFits ==
  ASSUME InstallTypeOK, ProgramInv, NEW j \in Jobs, JobStep(j)
  PROVE  AllFit'
<1>1. AllFit /\ At(j) /\ Now(j).do # "settle" /\ prog[j] # <<>>
  BY Fitting, JobAt DEF At
<1>2. PICK c \in Context : c = ctx[j]
  BY <1>1 DEF AllFit
<1>c. ctx = [ctx EXCEPT ![j] = c] /\ prog = [prog EXCEPT ![j] = prog[j]]
  BY <1>1, <1>2, SameContext
<1>3. CASE prog' = [prog EXCEPT ![j] = <<>>] /\ ctx' = [ctx EXCEPT ![j] = NoJob]
  BY <1>1, <1>3, EndFits
<1>4. CASE Go(j) /\ ctx' = ctx /\ Now(j).do # "resolve"
  BY <1>1, <1>2, <1>4, <1>c, GoFits
<1>5. CASE prog' = prog /\ ctx' = ctx
  BY <1>1, <1>5 DEF AllFit, Fit, Shaped, Versioned, Follows
<1>6. CASE ResolveVersion(j)
  <2>1. PICK v : /\ v = IF ctx[j].want # "latest" THEN ctx[j].want
                        ELSE IF memo = "none" \/ Now(j).how = "newest" THEN Newest ELSE memo
                 /\ ctx' = [ctx EXCEPT ![j].got = v]
    BY <1>6 DEF ResolveVersion
  <2>2. v \in Builds
    BY <1>1, <2>1 DEF At, InstallTypeOK, Newest, Builds
  <2>3. PICK d : d = [c EXCEPT !.got = v]
    OBVIOUS
  <2>4. d \in Context /\ d.got = v /\ d.want = c.want
    BY <1>2, <2>2, <2>3, Contexts
  <2>5. ctx' = [ctx EXCEPT ![j] = d]
    BY <1>2, <2>1, <2>3
  <2>6. Go(j)
    BY <1>6 DEF ResolveVersion
  <2> QED
    BY <1>1, <1>2, <2>2, <2>4, <2>5, <2>6, GoFits
<1>7. CASE NoteVariable(j)
  <2>1. Go(j) /\ Now(j).do = "note" /\ ctx' = [ctx EXCEPT ![j].noted = @ \cup {Now(j).key}]
    BY <1>7 DEF NoteVariable, Doing
  <2>2. Now(j).key \in {"mcVersion", "derived"}
    BY <1>1, <2>1 DEF At
  <2>3. PICK d : d = [c EXCEPT !.noted = @ \cup {Now(j).key}]
    OBVIOUS
  <2>4. d \in Context /\ d.got = c.got /\ d.want = c.want
    BY <1>2, <2>2, <2>3, Contexts
  <2>5. ctx' = [ctx EXCEPT ![j] = d]
    BY <1>2, <2>1, <2>3
  <2> QED
    BY <1>1, <1>2, <2>1, <2>4, <2>5, GoFits
<1>8. CASE Dedupe(j)
  <2>1. PICK p : p = prog[j]
    OBVIOUS
  <2>2. PICK f, d : f = Now(j).file /\ d = Now(j).digest
    OBVIOUS
  <2>3. /\ Now(j).do = "dedupe" /\ ctx' = ctx
        /\ \/ Go(j)
           \/ prog' = [prog EXCEPT ![j] = downloadFile(f, d) \o Tail(p)]
    BY <1>8, <2>1, <2>2 DEF Dedupe, Doing, Go
  <2>4. CASE Go(j)
    BY <1>4, <2>3, <2>4
  <2>5. CASE prog' = [prog EXCEPT ![j] = downloadFile(f, d) \o Tail(p)]
    <3>1. /\ j # "install" /\ f \in Addons /\ d \in {"sure", "maybe"} /\ c.got \in Builds
          /\ p \in Seq(Step) /\ p # <<>> /\ Head(p).do = "dedupe"
      BY <1>1, <1>2, <2>1, <2>2, <2>3 DEF At, Now
    <3>2. Shaped(j, p) /\ c.want # "none"
      BY <1>1, <1>2, <2>1 DEF AllFit, Fit
    <3>3. PICK q : q = downloadFile(f, d) \o Tail(p)
      OBVIOUS
    <3>4. q \in Seq(Step) /\ q # <<>> /\ Shaped(j, q) /\ Versioned(c.got, q)
      BY <3>1, <3>2, <3>3, DedupedShaped
    <3>5. Fit(j, q, c)
      BY <1>2, <3>2, <3>4 DEF Fit
    <3>6. ctx' = [ctx EXCEPT ![j] = c]
      BY <1>c, <2>3
    <3> QED
      BY <1>1, <2>5, <3>3, <3>5, <3>6, FitUpdate
  <2> QED
    BY <2>3, <2>4, <2>5
<1>9. CASE prog' = prog /\ Piping(j) /\ ctx' = [ctx EXCEPT ![j].left = Tail(@)]
  <2>1. PICK d : d = [c EXCEPT !.left = Tail(@)]
    OBVIOUS
  <2>2. c.left # <<>>
    BY <1>2, <1>9 DEF Piping
  <2>3. d \in Context /\ d.got = c.got /\ d.want = c.want
    BY <1>2, <2>1, <2>2, Contexts
  <2>4. ctx' = [ctx EXCEPT ![j] = d]
    BY <1>2, <1>9, <2>1
  <2>5. Fit(j, prog[j], d)
    BY <1>1, <1>2, <2>3 DEF AllFit, Fit
  <2>6. prog' = [prog EXCEPT ![j] = prog[j]]
    BY <1>c, <1>9
  <2> QED
    BY <1>1, <2>4, <2>5, <2>6, FitUpdate
<1>10. \/ AskFails(j) \/ VerifiedTooLate(j) \/ Unverifiable(j) \/ Broken(j) \/ RunFails(j) \/ PipGivesUp(j)
       => prog' = [prog EXCEPT ![j] = <<>>] /\ ctx' = [ctx EXCEPT ![j] = NoJob]
  BY DEF AskFails, VerifiedTooLate, Unverifiable, Broken, RunFails, PipGivesUp, Fails
<1>11. Answered(j) \/ RunDone(j) \/ DropArchive(j) \/ PipDone(j) => Go(j) /\ ctx' = ctx /\ Now(j).do # "resolve"
  BY DEF Answered, RunDone, DropArchive, PipDone, Piping, Doing
<1>12. Verified(j) => Go(j) /\ ctx' = ctx /\ Now(j).do # "resolve"
  BY JobAt DEF Verified, Writing
<1>13. OpenPart(j) \/ MakesVenv(j) => prog' = prog /\ ctx' = ctx
  BY DEF OpenPart, MakesVenv, jobVars
<1>14. ProbeFails(j) \/ VenvFails(j) => prog' = prog /\ Piping(j) /\ ctx' = [ctx EXCEPT ![j].left = Tail(@)]
  BY DEF ProbeFails, VenvFails, NextPython
<1>15. ~ResolveVersion(j) /\ ~NoteVariable(j) /\ ~Dedupe(j) => AllFit'
  <2>1. CASE \/ AskFails(j) \/ VerifiedTooLate(j) \/ Unverifiable(j) \/ Broken(j) \/ RunFails(j) \/ PipGivesUp(j)
    BY <1>3, <1>10, <2>1
  <2>2. CASE Answered(j) \/ RunDone(j) \/ DropArchive(j) \/ PipDone(j) \/ Verified(j)
    BY <1>4, <1>11, <1>12, <2>2
  <2>3. CASE OpenPart(j) \/ MakesVenv(j)
    BY <1>5, <1>13, <2>3
  <2>4. CASE ProbeFails(j) \/ VenvFails(j)
    BY <1>9, <1>14, <2>4
  <2> QED
    BY <2>1, <2>2, <2>3, <2>4, Zenon DEF JobStep
<1> QED
  BY <1>6, <1>7, <1>8, <1>15

LEMMA SameFits == ASSUME AllFit, prog' = prog, ctx' = ctx PROVE AllFit'
  BY DEF AllFit

LEMMA BlueprintFits ==
  ASSUME AllFit, NEW s \in Slugs, NEW want \in Builds \cup {"latest"},
         NEW asked \in Builds \cup {"none", "latest"}, Begin("install", Blueprint(s), want, asked)
  PROVE  AllFit'
<1>1. PICK p : p = Blueprint(s) \o <<settle>>
  OBVIOUS
<1>2. Installs(s, p)
  BY <1>1, BlueprintInstalls
<1>3. p \in Seq(Step) /\ Shaped("install", p) /\ Versioned("none", p)
  BY <1>2 DEF Installs, Versioned
<1> QED
  BY <1>1, <1>3, TheInstall, BeginFits

\* What the requests ask for.
LEMMA Versions ==
  ASSUME NEW s, NEW ver \in Builds \cup {"none", "latest"}
  PROVE  Version(s, ver) \in Builds \cup {"latest"}
  BY DEF Version

LEMMA RowFits ==
  ASSUME InstallTypeOK, AllFit, RowStep PROVE AllFit'
<1>1. slug \in Slugs /\ saved.mcVersion \in Builds \cup {"none", "latest"}
  BY DEF InstallTypeOK
<1>2. CASE Reinstall
  <2>1. PICK v : v = Version(slug, saved.mcVersion)
    OBVIOUS
  <2>2. PICK asked : asked = IF HasVersion(slug) THEN v ELSE "none"
    OBVIOUS
  <2>3. v \in Builds \cup {"latest"} /\ asked \in Builds \cup {"none", "latest"}
    BY <1>1, <2>1, <2>2, Versions
  <2>4. Begin("install", Blueprint(slug), v, asked)
    BY <1>2, <2>1, <2>2 DEF Reinstall
  <2> QED
    BY <1>1, <2>3, <2>4, BlueprintFits
<1>3. CASE InstallDone
  BY <1>3, EndFits, TheInstall DEF InstallDone
<1>4. ASSUME NEW s \in Slugs, NEW v \in Builds \cup {"none"}, SwapSoftware(s, v) PROVE AllFit'
  <2>1. PICK ver : /\ ver = IF v # "none" /\ HasVersion(s) THEN v
                            ELSE IF ~HasVersion(s) \/ (v = "none" /\ Category(s) # Category(slug))
                                 THEN "none" ELSE saved.mcVersion
                   /\ Begin("install", Blueprint(s), Version(s, ver), v)
    BY <1>4 DEF SwapSoftware
  <2>2. ver \in Builds \cup {"none", "latest"}
    BY <1>1, <2>1
  <2>3. PICK want : want = Version(s, ver)
    OBVIOUS
  <2>4. want \in Builds \cup {"latest"}
    BY <2>2, <2>3, Versions
  <2> QED
    BY <2>1, <2>3, <2>4, BlueprintFits
<1>5. ASSUME NEW v, EditVersion(v) PROVE AllFit'
  BY <1>5, SameFits DEF EditVersion, jobVars
<1>6. CASE Suspend \/ Unsuspend
  BY <1>6, SameFits DEF Suspend, Unsuspend, jobVars
<1> QED
  BY <1>2, <1>3, <1>4, <1>5, <1>6 DEF RowStep

LEMMA AsideFits ==
  ASSUME InstallTypeOK, AllFit, AsideStep PROVE AllFit'
<1>1. ASSUME NEW j \in Adders, AddonsDone(j) PROVE AllFit'
  BY <1>1, EndFits DEF AddonsDone, Jobs
<1>2. ASSUME NEW j \in Adders, NEW fs \in Projects, AskAddons(j, fs) PROVE AllFit'
  <2>1. PICK want : want = IF saved.mcVersion = "none" THEN "latest" ELSE saved.mcVersion
    OBVIOUS
  <2>2. want \in Builds \cup {"latest"}
    BY <2>1 DEF InstallTypeOK
  <2>3. Begin(j, installModrinthProjects(fs), want, "none")
    BY <1>2, <2>1 DEF AskAddons
  <2>4. PICK p : p = installModrinthProjects(fs) \o One(settle)
    OBVIOUS
  <2>5. AddsOns(j, p)
    BY <2>4, AddonsInstall, Zenon
  <2>6. Versioned("none", p) /\ j \in Jobs
    BY <2>5 DEF AddsOns, Versioned, Jobs
  <2>7. installModrinthProjects(fs) \o <<settle>> = p
    BY <2>4 DEF One
  <2> QED
    BY <2>2, <2>3, <2>5, <2>6, <2>7, BeginFits DEF AddsOns
<1>3. (\A j \in Adders : ~AddonsDone(j) /\ \A fs \in Projects : ~AskAddons(j, fs)) => prog' = prog /\ ctx' = ctx
  BY DEF AsideStep, SearchAddons, RemoveAddon, Publish, MemoExpires, jobVars
<1> QED
  BY <1>1, <1>2, <1>3, SameFits

\* Programs keep their shape, and know their version in time.
LEMMA ProgramsFit ==
  ASSUME InstallTypeOK, ProgramInv, [InstallNext]_installVars PROVE AllFit'
<1>1. AllFit
  BY Fitting
<1>2. CASE PanelRestarts
  <2>1. prog' = [j \in Jobs |-> <<>>] /\ ctx' = [j \in Jobs |-> NoJob]
    BY <1>2 DEF PanelRestarts
  <2>2. NoJob \in Context
    BY DEF NoJob, Context
  <2>3. <<>> \in Seq(Step)
    OBVIOUS
  <2>4. \A j \in Jobs : prog'[j] = <<>> /\ ctx'[j] = NoJob /\ Fit(j, <<>>, NoJob)
    BY <2>1, <2>2, <2>3 DEF Fit
  <2>5. prog' \in [Jobs -> Seq(Step)] /\ ctx' \in [Jobs -> Context]
    BY <2>1, <2>2, <2>3
  <2> QED
    BY <2>4, <2>5 DEF AllFit, Fit, Shaped, Versioned, Follows
<1>3. CASE UNCHANGED installVars
  BY <1>1, <1>3, SameFits DEF installVars, jobVars
<1> QED
  BY <1>1, <1>2, <1>3, StepKinds, JobFits, RowFits, AsideFits

-----------------------------------------------------------------------------
(* Types *)

WriterKinds == {"no", "part", "place", "gone"}

\* A stream stays open at its step; it opens at the step that is one.
LEMMA StreamsOpen ==
  ASSUME InstallTypeOK, ProgramInv, [InstallNext]_installVars
  PROVE  /\ writer' \in [Jobs -> WriterKinds]
         /\ \A k \in Jobs : \/ writer'[k] = "no"
                            \/ prog'[k] = prog[k] /\ (writer[k] # "no" \/ Doing(k, "get"))
<1>1. writer \in [Jobs -> WriterKinds] /\ prog \in [Jobs -> Seq(Step)] /\ \A k \in Jobs : k \in DOMAIN prog
  BY DEF InstallTypeOK, WriterKinds
<1> DEFINE Open == /\ writer' \in [Jobs -> WriterKinds]
                   /\ \A k \in Jobs : \/ writer'[k] = "no"
                                      \/ prog'[k] = prog[k] /\ (writer[k] # "no" \/ Doing(k, "get"))
<1>2. ASSUME NEW j \in Jobs, NEW p, prog' = [prog EXCEPT ![j] = p],
             writer' \in [Jobs -> WriterKinds], writer'[j] = "no",
             \A k \in Jobs : k # j => writer'[k] = "no" \/ writer[k] # "no"
      PROVE  Open
  <2>1. \A k \in Jobs : k # j => prog'[k] = prog[k]
    BY <1>1, <1>2
  <2> QED
    BY <1>2, <2>1
<1>3. CASE prog' = prog /\ writer' = writer
  BY <1>1, <1>3
<1>4. ASSUME NEW j \in Jobs, Fails(j) PROVE Open
  <2>1. prog' = [prog EXCEPT ![j] = <<>>] /\ writer' = [writer EXCEPT ![j] = "no"]
    BY <1>4 DEF Fails
  <2>2. writer' \in [Jobs -> WriterKinds] /\ writer'[j] = "no" /\ \A k \in Jobs : k # j => writer'[k] = writer[k]
    BY <1>1, <2>1 DEF WriterKinds
  <2>3. \A k \in Jobs : k # j => writer'[k] = "no" \/ writer[k] # "no"
    BY <2>2
  <2> QED
    BY <1>2, <2>1, <2>2, <2>3
<1>5. ASSUME NEW j \in Jobs, writer[j] = "no", writer' = writer, NEW p, prog' = [prog EXCEPT ![j] = p] PROVE Open
  BY <1>1, <1>2, <1>5
<1>6. ASSUME NEW j \in Jobs, JobStep(j) PROVE Open
  <2>1. AskFails(j) \/ VerifiedTooLate(j) \/ Unverifiable(j) \/ RunFails(j) \/ PipGivesUp(j) => Fails(j)
    BY DEF AskFails, VerifiedTooLate, Unverifiable, RunFails, PipGivesUp
  <2>2. Answered(j) \/ ResolveVersion(j) \/ NoteVariable(j) \/ RunDone(j) \/ DropArchive(j) \/ PipDone(j)
        => writer[j] = "no" /\ writer' = writer /\ prog' = [prog EXCEPT ![j] = Tail(prog[j])]
    BY DEF Answered, ResolveVersion, NoteVariable, RunDone, DropArchive, PipDone, Piping, Doing, Go
  <2>3. Dedupe(j) => writer[j] = "no" /\ writer' = writer /\ \E p : prog' = [prog EXCEPT ![j] = p]
    BY DEF Dedupe, Doing
  <2>4. ProbeFails(j) \/ MakesVenv(j) \/ VenvFails(j) => prog' = prog /\ writer' = writer
    BY DEF ProbeFails, MakesVenv, VenvFails, NextPython, jobVars
  <2>5. CASE OpenPart(j)
    <3>1. prog' = prog /\ writer' = [writer EXCEPT ![j] = "part"] /\ Doing(j, "get")
      BY <2>5 DEF OpenPart
    <3>2. writer' \in [Jobs -> WriterKinds] /\ \A k \in Jobs : k # j => writer'[k] = writer[k]
      BY <1>1, <3>1 DEF WriterKinds
    <3> QED
      BY <3>1, <3>2
  <2>6. CASE Verified(j)
    <3>1. PICK f : f = Now(j).file
      OBVIOUS
    <3>2. /\ prog' = [prog EXCEPT ![j] = Tail(prog[j])]
          /\ writer' = [k \in Jobs |->
               IF k = j THEN "no"
               ELSE IF k \in Writers(f, "part") THEN "place"
               ELSE IF k \in Writers(f, "place") THEN "gone" ELSE writer[k]]
      BY <2>6, <3>1 DEF Verified, Go
    <3>3. \A k \in Jobs : k \in Writers(f, "part") \/ k \in Writers(f, "place") => writer[k] # "no"
      BY DEF Writers
    <3>4. /\ writer' \in [Jobs -> WriterKinds] /\ writer'[j] = "no"
          /\ \A k \in Jobs : k # j => writer'[k] = "no" \/ writer[k] # "no"
      BY <1>1, <3>2, <3>3 DEF WriterKinds
    <3> QED
      BY <1>2, <3>2, <3>4
  <2>7. CASE Broken(j)
    <3>1. PICK f : f = Now(j).file
      OBVIOUS
    <3>2. /\ prog' = [prog EXCEPT ![j] = <<>>]
          /\ writer' = [k \in Jobs |->
               IF k = j THEN "no" ELSE IF k \in Writers(f, "part") THEN "gone" ELSE writer[k]]
      BY <2>7, <3>1 DEF Broken
    <3>3. \A k \in Jobs : k \in Writers(f, "part") => writer[k] # "no"
      BY DEF Writers
    <3>4. /\ writer' \in [Jobs -> WriterKinds] /\ writer'[j] = "no"
          /\ \A k \in Jobs : k # j => writer'[k] = "no" \/ writer[k] # "no"
      BY <1>1, <3>2, <3>3 DEF WriterKinds
    <3> QED
      BY <1>2, <3>2, <3>4
  <2> QED
    BY <1>3, <1>4, <1>5, <1>6, <2>1, <2>2, <2>3, <2>4, <2>5, <2>6, <2>7, Zenon DEF JobStep
<1>7. ASSUME NEW j \in Jobs, NEW steps, NEW want, NEW asked, Begin(j, steps, want, asked), prog[j] = <<>>
      PROVE  Open
  <2>1. writer' = writer /\ prog' = [prog EXCEPT ![j] = steps \o <<[do |-> "settle"]>>] /\ writer[j] = "no"
    BY <1>7 DEF Begin, InstallTypeOK
  <2> QED
    BY <1>5, <2>1
<1>8. CASE RowStep
  <2>2. CASE Reinstall
    BY <1>7, <2>2, TheInstall DEF Reinstall, NewInstall
  <2>3. ASSUME NEW s, NEW v, SwapSoftware(s, v) PROVE Open
    BY <1>7, <2>3, TheInstall DEF SwapSoftware, NewInstall
  <2>4. CASE InstallDone
    <3>1. writer["install"] = "no" /\ writer' = writer /\ prog' = [prog EXCEPT !["install"] = <<>>]
      BY <2>4 DEF InstallDone, Doing
    <3> QED
      BY <1>5, <3>1, TheInstall
  <2>5. ASSUME NEW v, EditVersion(v) PROVE Open
    BY <1>3, <2>5 DEF EditVersion, jobVars
  <2>6. CASE Suspend \/ Unsuspend
    BY <1>3, <2>6 DEF Suspend, Unsuspend, jobVars
  <2> QED
    BY <1>8, <2>2, <2>3, <2>4, <2>5, <2>6 DEF RowStep
<1>9. CASE AsideStep
  <2>1. ASSUME NEW j \in Adders, AddonsDone(j) PROVE Open
    <3>1. writer[j] = "no" /\ writer' = writer /\ prog' = [prog EXCEPT ![j] = <<>>] /\ j \in Jobs
      BY <2>1 DEF AddonsDone, Doing, Jobs
    <3> QED
      BY <1>5, <3>1
  <2>2. ASSUME NEW j \in Adders, NEW fs, AskAddons(j, fs) PROVE Open
    BY <1>7, <2>2 DEF AskAddons, Jobs
  <2>3. ASSUME NEW f, RemoveAddon(f) PROVE Open
    <3>1. prog' = prog /\ writer' = [j \in Jobs |-> IF j \in Writers(f, "place") THEN "gone" ELSE writer[j]]
      BY <2>3 DEF RemoveAddon
    <3>2. \A k \in Jobs : k \in Writers(f, "place") => writer[k] # "no"
      BY DEF Writers
    <3> QED
      BY <1>1, <3>1, <3>2 DEF WriterKinds
  <2>4. SearchAddons \/ Publish \/ MemoExpires => prog' = prog /\ writer' = writer
    BY DEF SearchAddons, Publish, MemoExpires, jobVars
  <2> QED
    BY <1>3, <1>9, <2>1, <2>2, <2>3, <2>4 DEF AsideStep
<1>10. CASE PanelRestarts
  BY <1>10 DEF PanelRestarts, WriterKinds
<1>11. CASE UNCHANGED installVars
  BY <1>3, <1>11 DEF installVars, jobVars
<1> QED
  BY <1>6, <1>8, <1>9, <1>10, <1>11, StepKinds

LEMMA Contents ==
  /\ Absent \in Content /\ Cut({}) \in Content
  /\ \A b \in Builds : Whole(b) \in Content /\ Cut({b}) \in Content
  /\ \A c \in Content, v \in BOOLEAN :
       [c EXCEPT !.cut = v] \in Content /\ [c EXCEPT !.shared = v] \in Content
  /\ \A bs \in SUBSET Builds, v, w \in BOOLEAN : [of |-> bs, cut |-> v, shared |-> w] \in Content
  BY DEF Absent, Cut, Whole, Content

\* What a download has, with the fields of a file.
LEMMA ContentFields ==
  ASSUME NEW c \in Content
  PROVE  c.of \in SUBSET Builds /\ c.cut \in BOOLEAN /\ c.shared \in BOOLEAN
  BY DEF Content

DiskOK == place \in [Files -> Content] /\ part \in [Files -> Content] /\ untidy \subseteq {"part", "place"} \X Files

LEMMA DiskUpdate ==
  ASSUME DiskOK, NEW f \in Files, NEW c \in Content
  PROVE  [place EXCEPT ![f] = c] \in [Files -> Content] /\ [part EXCEPT ![f] = c] \in [Files -> Content]
  BY DEF DiskOK

LEMMA NewestBuild == ASSUME InstallTypeOK PROVE Newest \in Builds
  BY DEF InstallTypeOK, Newest, Builds

LEMMA DiskTypes ==
  ASSUME InstallTypeOK, ProgramInv, [InstallNext]_installVars PROVE DiskOK'
<1>1. DiskOK
  BY DEF InstallTypeOK, DiskOK
<1>2. CASE UNCHANGED diskVars
  BY <1>1, <1>2 DEF DiskOK, diskVars
<1>3. ASSUME NEW j \in Jobs, JobStep(j) PROVE DiskOK'
  <2>1. At(j) /\ (writer[j] # "no" => Now(j).do = "get")
    BY <1>3, JobAt
  <2>2. PICK f, g : f = Now(j).file /\ g = ctx[j].got
    OBVIOUS
  <2>3. Now(j).do \in {"get", "drop"} => f \in Files
    BY <2>1, <2>2, FileKinds DEF At, FilesOf
  <2>4. CASE OpenPart(j)
    <3>1. f \in Files
      BY <2>3, <2>4 DEF OpenPart, Doing
    <3>2. PICK c : c = [of |-> {ctx[k].got : k \in {j} \cup Writers(f, "part")}, cut |-> FALSE,
                        shared |-> Writers(f, "part") # {}]
      OBVIOUS
    <3>3. \A k \in {j} \cup Writers(f, "part") : ctx[k].got \in Builds
      <4>1. ASSUME NEW k \in Jobs, writer[k] # "no" PROVE ctx[k].got \in Builds
        BY <4>1, Heads DEF InstallTypeOK, At
      <4>2. ctx[j].got \in Builds
        BY <2>1, <2>4 DEF At, OpenPart, Doing
      <4> QED
        BY <4>1, <4>2 DEF Writers
    <3>4. {ctx[k].got : k \in {j} \cup Writers(f, "part")} \in SUBSET Builds
      BY <3>3
    <3>5. c \in Content
      BY <3>2, <3>4, Contents
    <3>6. part' = [part EXCEPT ![f] = c] /\ place' = place /\ untidy' = untidy
      BY <2>2, <2>4, <3>2 DEF OpenPart
    <3> QED
      BY <1>1, <3>1, <3>5, <3>6 DEF DiskOK
  <2>5. CASE Verified(j)
    <3>1. f \in Files
      BY <2>1, <2>3, <2>5 DEF Verified, Writing
    <3>2. PICK c : c = [part[f] EXCEPT !.shared = part[f].shared \/ writer[j] # "part"]
      OBVIOUS
    <3>3. part[f] \in Content
      BY <1>1, <3>1 DEF DiskOK
    <3>4. PICK w \in BOOLEAN : w = (part[f].shared \/ writer[j] # "part")
      OBVIOUS
    <3>5. c \in Content /\ Absent \in Content
      BY <3>2, <3>3, <3>4, Contents
    <3>6. place' = [place EXCEPT ![f] = c] /\ part' = [part EXCEPT ![f] = Absent]
          /\ untidy' \subseteq untidy
      BY <2>2, <2>5, <3>2 DEF Verified
    <3> QED
      BY <1>1, <3>1, <3>5, <3>6 DEF DiskOK
  <2>6. CASE Unverifiable(j)
    <3>1. f \in Files
      BY <2>1, <2>3, <2>6 DEF Unverifiable, Writing
    <3>2. place' = place /\ part' = part /\ untidy' \subseteq untidy \cup {<<"part", f>>}
      BY <2>2, <2>6 DEF Unverifiable
    <3> QED
      BY <1>1, <3>1, <3>2 DEF DiskOK
  <2>7. CASE Broken(j)
    <3>1. f \in Files
      BY <2>1, <2>3, <2>7 DEF Broken, Writing
    <3>2. PICK cut \in {place[f].cut, place[f].cut \/ writer[j] = "place"} : place' = [place EXCEPT ![f].cut = cut]
      BY <2>2, <2>7 DEF Broken
    <3>3. place[f] \in Content
      BY <1>1, <3>1 DEF DiskOK
    <3>4. cut \in BOOLEAN
      BY <3>3, ContentFields
    <3>5. PICK c : c = [place[f] EXCEPT !.cut = cut]
      OBVIOUS
    <3>6. c \in Content /\ Absent \in Content
      BY <3>3, <3>4, <3>5, Contents
    <3>7. place' = [place EXCEPT ![f] = c] /\ part' = [part EXCEPT ![f] = Absent] /\ untidy' \subseteq untidy
      BY <2>2, <2>7, <3>2, <3>5 DEF Broken
    <3> QED
      BY <1>1, <3>1, <3>6, <3>7 DEF DiskOK
  <2>8. CASE RunDone(j)
    <3>1. g \in Builds
      BY <2>1, <2>2, <2>8 DEF At, RunDone, Doing
    <3>2. Whole(g) \in Content /\ Absent \in Content
      BY <3>1, Contents
    <3>3. \A h \in Files : place[h] \in Content
      BY <1>1 DEF DiskOK
    <3>4. place' = [h \in Files |-> IF h \in Now(j).outs THEN Whole(g)
                                    ELSE IF h = Now(j).from /\ Now(j).finally THEN Absent ELSE place[h]]
      BY <2>2, <2>8 DEF RunDone
    <3>5. place' \in [Files -> Content]
      BY <3>2, <3>3, <3>4
    <3>6. part' = part /\ untidy' = untidy
      BY <2>8 DEF RunDone
    <3> QED
      BY <1>1, <3>5, <3>6 DEF DiskOK
  <2>9. CASE RunFails(j)
    <3>1. g \in Builds /\ Now(j).from \in Files
      BY <2>1, <2>2, <2>9, FileKinds DEF At, RunFails, Doing
    <3>2. Cut({g}) \in Content /\ Absent \in Content
      BY <3>1, Contents
    <3>3. \A h \in Files : place[h] \in Content
      BY <1>1 DEF DiskOK
    <3>4. PICK half : place' = [h \in Files |-> IF h \in half THEN Cut({g})
                                    ELSE IF h = Now(j).from /\ Now(j).finally THEN Absent ELSE place[h]]
      BY <2>2, <2>9 DEF RunFails
    <3>5. place' \in [Files -> Content]
      BY <3>2, <3>3, <3>4
    <3>6. part' = part /\ untidy' \subseteq untidy \cup {<<"place", Now(j).from>>}
      BY <2>9 DEF RunFails
    <3> QED
      BY <1>1, <3>1, <3>5, <3>6 DEF DiskOK
  <2>10. CASE DropArchive(j)
    <3>1. f \in Files
      BY <2>3, <2>10 DEF DropArchive, Doing
    <3>2. place' = [place EXCEPT ![f] = Absent] /\ part' = part /\ untidy' \subseteq untidy
      BY <2>2, <2>10 DEF DropArchive
    <3> QED
      BY <1>1, <3>1, <3>2, Contents DEF DiskOK
  <2>11. CASE MakesVenv(j) \/ VenvFails(j) \/ PipDone(j)
    <3>1. PICK h : h = Python(j)
      OBVIOUS
    <3>2. ctx[j] \in Context /\ ctx[j].left # <<>>
      BY <2>11 DEF MakesVenv, VenvFails, PipDone, Piping, InstallTypeOK
    <3>3. ctx[j].left \in {<<"py">>, Pythons}
      BY <3>2 DEF Context
    <3>4. h \in {"py3", "py"}
      BY <3>1, <3>3 DEF Python, Pythons
    <3>5. h \in Files
      BY <3>4, FileKinds
    <3>6. place[h] \in Content
      BY <1>1, <3>5 DEF DiskOK
    <3>7. CASE PipDone(j)
      <4>1. PICK bs : bs = IF place[h].of = {} THEN {Newest} ELSE place[h].of
        OBVIOUS
      <4>2. bs \in SUBSET Builds
        BY <3>6, <4>1, NewestBuild, ContentFields
      <4>3. place' = [place EXCEPT ![h].of = bs, ![h].cut = FALSE]
        BY <3>1, <3>7, <4>1 DEF PipDone
      <4>4. PICK c : c = [place[h] EXCEPT !.of = bs, !.cut = FALSE]
        OBVIOUS
      <4>5. c \in Content
        BY <3>6, <4>2, <4>4 DEF Content
      <4>6. place' = [place EXCEPT ![h] = c]
        BY <1>1, <3>5, <4>3, <4>4 DEF DiskOK
      <4>7. part' = part /\ untidy' = untidy
        BY <3>7 DEF PipDone
      <4> QED
        BY <1>1, <3>5, <4>5, <4>6, <4>7 DEF DiskOK
    <3>8. CASE ~PipDone(j)
      <4>1. \E c \in {Absent, Cut({})} : place' = [place EXCEPT ![h] = c]
        BY <2>11, <3>1, <3>8 DEF MakesVenv, VenvFails
      <4>2. part' = part /\ untidy' = untidy
        BY <2>11, <3>8 DEF MakesVenv, VenvFails, NextPython
      <4> QED
        BY <1>1, <3>5, <4>1, <4>2, Contents DEF DiskOK
    <3> QED
      BY <3>7, <3>8
  <2>12. CASE \/ AskFails(j) \/ Answered(j) \/ ResolveVersion(j) \/ NoteVariable(j) \/ Dedupe(j)
              \/ VerifiedTooLate(j) \/ ProbeFails(j) \/ PipGivesUp(j)
    BY <1>2, <2>12 DEF AskFails, Answered, ResolveVersion, NoteVariable, Dedupe, VerifiedTooLate, ProbeFails,
       NextPython, PipGivesUp, diskVars
  <2> QED
    BY <1>3, <2>4, <2>5, <2>6, <2>7, <2>8, <2>9, <2>10, <2>11, <2>12 DEF JobStep
<1>4. RowStep => UNCHANGED diskVars
  BY DEF RowStep, Reinstall, InstallDone, SwapSoftware, EditVersion, Suspend, Unsuspend, Begin
<1>5. CASE AsideStep
  <2>1. ASSUME NEW f \in Addons, RemoveAddon(f) PROVE DiskOK'
    <3>1. f \in Files /\ place' = [place EXCEPT ![f] = Absent] /\ part' = part /\ untidy' = untidy
      BY <2>1, FileKinds DEF RemoveAddon
    <3> QED
      BY <1>1, <3>1, Contents DEF DiskOK
  <2>2. (\A f \in Addons : ~RemoveAddon(f)) => UNCHANGED diskVars
    BY <1>5 DEF AsideStep, AddonsDone, AskAddons, Begin, SearchAddons, Publish, MemoExpires
  <2> QED
    BY <1>2, <2>1, <2>2
<1>6. CASE PanelRestarts
  <2>1. /\ part' = [f \in Files |-> IF Writers(f, "part") = {} THEN part[f] ELSE [part[f] EXCEPT !.cut = TRUE]]
        /\ place' = [f \in Files |-> IF Writers(f, "place") = {} THEN place[f] ELSE [place[f] EXCEPT !.cut = TRUE]]
        /\ untidy' = untidy \cup {<<"part", f>> : f \in {g \in Files : part[g] # Absent}}
                            \cup {<<"place", f>> : f \in {g \in Archives : place[g] # Absent}}
    BY <1>6 DEF PanelRestarts
  <2>2. \A f \in Files : /\ place[f] \in Content /\ part[f] \in Content
                         /\ [place[f] EXCEPT !.cut = TRUE] \in Content /\ [part[f] EXCEPT !.cut = TRUE] \in Content
    BY <1>1, Contents DEF DiskOK
  <2>3. place' \in [Files -> Content] /\ part' \in [Files -> Content]
    BY <2>1, <2>2
  <2>4. Archives \subseteq Files
    BY FileKinds
  <2>5. untidy' \subseteq {"part", "place"} \X Files
    BY <1>1, <2>1, <2>4 DEF DiskOK
  <2> QED
    BY <2>3, <2>5 DEF DiskOK
<1>7. UNCHANGED installVars => UNCHANGED diskVars
  BY DEF installVars
<1> QED
  BY <1>2, <1>3, <1>4, <1>5, <1>6, <1>7, StepKinds

\* A job that is another's leaves the row and the install alone; the install's step ends it
\* with a failure, or leaves it a step at least.
JobRow(j) ==
  /\ UNCHANGED <<slug, saved, installs, released>> /\ memo' \in Builds \cup {"none"}
  /\ loose' = loose \/ (j = "install" /\ loose' = loose \cup {"probe"})
  /\ j # "install" => status' = status /\ prog'["install"] = prog["install"] /\ ctx'["install"] = ctx["install"]
  /\ j = "install" => \/ status' = "install_failed" /\ prog'["install"] = <<>>
                      \/ status' = status /\ prog'["install"] # <<>>

LEMMA JobRows ==
  ASSUME InstallTypeOK, ProgramInv, NEW j \in Jobs, JobStep(j)
  PROVE  JobRow(j)
<1>1. At(j) /\ Now(j).do # "settle"
  BY JobAt
<1>2. prog \in [Jobs -> Seq(Step)] /\ ctx \in [Jobs -> Context] /\ memo \in Builds \cup {"none"} /\ "install" \in Jobs
  BY TheInstall DEF InstallTypeOK
<1>3. ASSUME NEW p, NEW c, prog' = [prog EXCEPT ![j] = p], ctx' = [ctx EXCEPT ![j] = c]
      PROVE  /\ j # "install" => prog'["install"] = prog["install"] /\ ctx'["install"] = ctx["install"]
             /\ prog'[j] = p
  BY <1>2, <1>3
<1>4. ctx = [ctx EXCEPT ![j] = ctx[j]] /\ prog = [prog EXCEPT ![j] = prog[j]]
  BY <1>2
<1>5. ASSUME UNCHANGED <<slug, saved, installs, released, memo, loose>>,
             prog' = [prog EXCEPT ![j] = <<>>], ctx' = [ctx EXCEPT ![j] = NoJob],
             status' = IF j = "install" THEN "install_failed" ELSE status
      PROVE  JobRow(j)
  BY <1>2, <1>3, <1>5 DEF JobRow
<1>6. CASE \/ AskFails(j) \/ VerifiedTooLate(j) \/ Unverifiable(j)
           \/ Broken(j) \/ RunFails(j) \/ PipGivesUp(j)
  BY <1>5, <1>6 DEF AskFails, VerifiedTooLate, Unverifiable, Broken, RunFails, PipGivesUp, Fails, diskVars, worldVars
<1>7. Tail(prog[j]) # <<>>
  <2>1. PICK p : p = prog[j]
    OBVIOUS
  <2>2. p \in Seq(Step) /\ p # <<>> /\ Head(p).do # "settle" /\ Shaped(j, p)
    BY <1>1, <2>1 DEF At, Now, ProgramInv
  <2> QED
    BY <2>1, <2>2, RestShaped
<1>8. ASSUME UNCHANGED <<slug, saved, installs, released, loose, status>>, memo' \in Builds \cup {"none"},
             NEW p, p # <<>> \/ j # "install", prog' = [prog EXCEPT ![j] = p], NEW c, ctx' = [ctx EXCEPT ![j] = c]
      PROVE  JobRow(j)
  BY <1>2, <1>3, <1>8 DEF JobRow
<1>9. CASE Answered(j) \/ RunDone(j) \/ DropArchive(j) \/ PipDone(j) \/ Verified(j)
  BY <1>2, <1>4, <1>7, <1>8, <1>9 DEF Answered, RunDone, DropArchive, PipDone, Verified, Go, serverVars, worldVars
<1>10. CASE ResolveVersion(j)
  <2>1. PICK v : /\ memo' = memo \/ memo' = v
                 /\ v = IF ctx[j].want # "latest" THEN ctx[j].want
                        ELSE IF memo = "none" \/ Now(j).how = "newest" THEN Newest ELSE memo
                 /\ ctx' = [ctx EXCEPT ![j].got = v]
    BY <1>10 DEF ResolveVersion
  <2>2. v \in Builds
    BY <1>1, <1>2, <2>1, NewestBuild DEF At
  <2>3. ctx' = [ctx EXCEPT ![j] = [ctx[j] EXCEPT !.got = v]]
    BY <2>1
  <2>4. UNCHANGED <<slug, saved, installs, released, loose, status>> /\ prog' = [prog EXCEPT ![j] = Tail(prog[j])]
    BY <1>10 DEF ResolveVersion, Go, serverVars
  <2> QED
    BY <1>2, <1>7, <1>8, <2>1, <2>2, <2>3, <2>4
<1>11. CASE NoteVariable(j)
  <2>1. ctx' = [ctx EXCEPT ![j] = [ctx[j] EXCEPT !.noted = @ \cup {Now(j).key}]]
    BY <1>11 DEF NoteVariable
  <2>2. /\ UNCHANGED <<slug, saved, installs, released, loose, status, memo>>
        /\ prog' = [prog EXCEPT ![j] = Tail(prog[j])]
    BY <1>11 DEF NoteVariable, Go, serverVars, worldVars
  <2> QED
    BY <1>2, <1>7, <1>8, <2>1, <2>2
<1>12. CASE Dedupe(j)
  <2>1. j # "install"
    BY <1>1, <1>12 DEF At, Dedupe, Doing
  <2>2. PICK p : prog' = [prog EXCEPT ![j] = p]
    BY <1>12 DEF Dedupe
  <2>3. UNCHANGED <<slug, saved, installs, released, loose, status, memo, ctx>>
    BY <1>12 DEF Dedupe, serverVars, worldVars
  <2> QED
    BY <1>2, <1>4, <1>8, <2>1, <2>2, <2>3
<1>13. prog[j] # <<>>
  BY <1>1 DEF At
<1>14. CASE OpenPart(j) \/ MakesVenv(j) \/ VenvFails(j)
  <2>1. /\ UNCHANGED <<slug, saved, installs, released, loose, status, memo, prog>>
        /\ \E c : ctx' = [ctx EXCEPT ![j] = c]
    <3>1. CASE VenvFails(j)
      BY <3>1 DEF VenvFails, NextPython, serverVars, worldVars
    <3>2. CASE ~VenvFails(j)
      BY <1>4, <1>14, <3>2 DEF OpenPart, MakesVenv, jobVars, serverVars, worldVars
    <3> QED
      BY <3>1, <3>2
  <2> QED
    BY <1>2, <1>4, <1>8, <1>13, <2>1
<1>15. CASE ProbeFails(j)
  <2>1. j = "install"
    BY <1>1, <1>15 DEF At, ProbeFails, Piping, Doing
  <2>2. /\ UNCHANGED <<slug, saved, installs, released, status, memo, prog>>
        /\ loose' = loose \/ loose' = loose \cup {"probe"}
    BY <1>15 DEF ProbeFails, NextPython, worldVars
  <2> QED
    BY <1>2, <1>13, <2>1, <2>2 DEF JobRow
<1> QED
  BY <1>1, <1>6, <1>9, <1>10, <1>11, <1>12, <1>14, <1>15 DEF JobStep

RowOK ==
  /\ slug \in Slugs /\ status \in {"installing", "ready", "install_failed", "suspended"}
  /\ saved \in [mcVersion : Builds \cup {"none", "latest"}, derived : Builds \cup {"none"}]
  /\ released \in DOMAIN Releases /\ memo \in Builds \cup {"none"}
  /\ loose \subseteq {"edited", "unnoted", "probe", "suspended"}
  /\ installs \in 1..MaxInstalls
  /\ status = "installing" => prog["install"] # <<>>
  /\ prog["install"] # <<>> => status = "installing" \/ "suspended" \in loose

\* What a finished install stores.
LEMMA PersistedTypes ==
  ASSUME RowOK, NEW c \in Context, "derived" \in c.noted => c.got \in Builds \cup {"none"}
  PROVE  Persisted(c) \in [mcVersion : Builds \cup {"none", "latest"}, derived : Builds \cup {"none"}]
  BY DEF RowOK, Persisted, Context

LEMMA BlueprintLong ==
  ASSUME NEW s \in Slugs, NEW want, NEW asked, Begin("install", Blueprint(s), want, asked),
         prog \in [Jobs -> Seq(Step)]
  PROVE  prog'["install"] # <<>>
<1>1. PICK p : p = Blueprint(s) \o <<settle>>
  OBVIOUS
<1>2. p # <<>>
  BY <1>1, BlueprintInstalls DEF Installs
<1>3. prog'["install"] = p
  BY <1>1, TheInstall DEF Begin, settle
<1> QED
  BY <1>2, <1>3

LEMMA RowTypes ==
  ASSUME InstallTypeOK, ProgramInv, [InstallNext]_installVars PROVE RowOK'
<1>1. RowOK /\ prog \in [Jobs -> Seq(Step)] /\ "install" \in Jobs
  BY TheInstall DEF InstallTypeOK, RowOK
<1>2. ASSUME NEW j \in Jobs, JobStep(j) PROVE RowOK'
  <2>1. JobRow(j) /\ prog[j] # <<>>
    BY <1>2, JobRows, JobAt DEF At
  <2> QED
    BY <1>1, <2>1 DEF RowOK, JobRow
<1>3. CASE Reinstall
  <2>1. prog'["install"] # <<>>
    BY <1>1, <1>3, BlueprintLong DEF Reinstall, RowOK
  <2>2. /\ status' = "installing" /\ installs' = installs + 1 /\ installs < MaxInstalls /\ loose' = {}
        /\ UNCHANGED <<slug, saved, released, memo>>
    BY <1>3 DEF Reinstall, NewInstall, Begin, worldVars
  <2>3. installs' \in 1..MaxInstalls
    BY <1>1, <2>2, InstallAssumption DEF RowOK
  <2> QED
    BY <1>1, <2>1, <2>2, <2>3 DEF RowOK
<1>4. ASSUME NEW s \in Slugs, NEW v \in Builds \cup {"none"}, SwapSoftware(s, v) PROVE RowOK'
  <2>1. prog'["install"] # <<>>
    BY <1>1, <1>4, BlueprintLong DEF SwapSoftware
  <2>2. /\ status' = "installing" /\ installs' = installs + 1 /\ installs < MaxInstalls
        /\ loose' \subseteq {"unnoted"} /\ slug' = s /\ UNCHANGED <<released, memo>>
    BY <1>4 DEF SwapSoftware, NewInstall, Begin, worldVars
  <2>3. installs' \in 1..MaxInstalls
    BY <1>1, <2>2, InstallAssumption DEF RowOK
  <2>4. saved' \in [mcVersion : Builds \cup {"none", "latest"}, derived : Builds \cup {"none"}]
    <3>1. saved.mcVersion \in Builds \cup {"none", "latest"} /\ saved.derived \in Builds \cup {"none"}
      BY <1>1 DEF RowOK
    <3>2. PICK m, d : /\ saved' = [mcVersion |-> m, derived |-> d]
                      /\ m \in {v, "none", saved.mcVersion} /\ d \in {saved.derived, "none"}
      BY <1>4 DEF SwapSoftware
    <3> QED
      BY <3>1, <3>2
  <2> QED
    BY <1>1, <2>1, <2>2, <2>3, <2>4 DEF RowOK
<1>5. CASE InstallDone
  <2>1. /\ saved' = Persisted(ctx["install"]) /\ status' = "ready"
        /\ prog' = [prog EXCEPT !["install"] = <<>>]
        /\ loose' \subseteq loose /\ UNCHANGED <<slug, installs, released, memo>>
    BY <1>5 DEF InstallDone, worldVars
  <2>2. PICK c \in Context : c = ctx["install"]
    BY <1>1 DEF InstallTypeOK
  <2>3. c.got \in Builds \cup {"none"}
    BY DEF Context
  <2>4. saved' \in [mcVersion : Builds \cup {"none", "latest"}, derived : Builds \cup {"none"}]
    BY <1>1, <2>1, <2>2, <2>3, PersistedTypes
  <2>5. prog'["install"] = <<>>
    BY <1>1, <2>1
  <2> QED
    BY <1>1, <2>1, <2>4, <2>5 DEF RowOK
<1>6. ASSUME NEW v \in Builds \cup {"latest"}, EditVersion(v) PROVE RowOK'
  <2>1. /\ saved' = [saved EXCEPT !.mcVersion = v] /\ loose' = loose \cup {"edited"}
        /\ UNCHANGED <<prog, slug, status, installs, released, memo>>
    BY <1>6 DEF EditVersion, jobVars, worldVars
  <2>2. saved' \in [mcVersion : Builds \cup {"none", "latest"}, derived : Builds \cup {"none"}]
    BY <1>1, <2>1 DEF RowOK
  <2> QED
    BY <1>1, <2>1, <2>2 DEF RowOK
<1>7. CASE AsideStep
  <2>1. UNCHANGED <<slug, status, saved, loose, installs>>
    BY <1>7 DEF AsideStep, AddonsDone, AskAddons, SearchAddons, RemoveAddon, Publish, MemoExpires, serverVars
  <2>2. prog'["install"] = prog["install"]
    <3>1. ASSUME NEW j \in Adders, NEW p, prog' = [prog EXCEPT ![j] = p] PROVE prog'["install"] = prog["install"]
      BY <1>1, <3>1, InstallAssumption
    <3>2. (\E j \in Adders : \E p : prog' = [prog EXCEPT ![j] = p]) \/ prog' = prog
      BY <1>7 DEF AsideStep, AddonsDone, AskAddons, Begin, SearchAddons, RemoveAddon, Publish, MemoExpires, jobVars
    <3> QED
      BY <3>1, <3>2
  <2>3. released' \in DOMAIN Releases
    <3>1. CASE Publish
      BY <1>1, <3>1, InstallAssumption DEF RowOK, Publish
    <3>2. CASE ~Publish
      BY <1>1, <1>7, <3>2 DEF RowOK, AsideStep, AddonsDone, AskAddons, Begin, SearchAddons, RemoveAddon, MemoExpires, worldVars
    <3> QED
      BY <3>1, <3>2
  <2>4. memo' \in Builds \cup {"none"}
    <3>1. CASE SearchAddons
      BY <1>1, <3>1, NewestBuild DEF RowOK, SearchAddons, mcVersionOf
    <3>2. CASE ~SearchAddons
      BY <1>1, <1>7, <3>2 DEF RowOK, AsideStep, AddonsDone, AskAddons, Begin, Publish, RemoveAddon, MemoExpires, worldVars
    <3> QED
      BY <3>1, <3>2
  <2> QED
    BY <1>1, <2>1, <2>2, <2>3, <2>4 DEF RowOK
<1>8. CASE PanelRestarts
  BY <1>1, <1>8 DEF PanelRestarts, RowOK
<1>9. CASE UNCHANGED installVars
  BY <1>1, <1>9 DEF RowOK, installVars, jobVars, serverVars, worldVars
<1>10. CASE Suspend
  BY <1>1, <1>10 DEF RowOK, Suspend, jobVars, worldVars
<1>11. CASE Unsuspend
  BY <1>1, <1>11 DEF RowOK, Unsuspend, jobVars, worldVars
<1> QED
  BY <1>2, <1>3, <1>4, <1>5, <1>6, <1>7, <1>8, <1>9, <1>10, <1>11, StepKinds DEF RowStep

\* Types are kept.
LEMMA InstallTypeStep ==
  ASSUME InstallTypeOK, ProgramInv, [InstallNext]_installVars
  PROVE  InstallTypeOK' /\ ProgramInv'
<1>1. AllFit' /\ DiskOK' /\ RowOK' /\ writer' \in [Jobs -> WriterKinds]
  BY ProgramsFit, DiskTypes, RowTypes, StreamsOpen
<1>2. ASSUME NEW j \in Jobs, writer'[j] # "no" PROVE prog'[j] # <<>> /\ Now(j)'.do = "get"
  <2>1. prog'[j] = prog[j] /\ (writer[j] # "no" \/ Doing(j, "get"))
    BY <1>2, StreamsOpen
  <2> QED
    BY <2>1 DEF InstallTypeOK, Doing, Now
<1>3. InstallTypeOK'
  BY <1>1, <1>2 DEF InstallTypeOK, AllFit, DiskOK, RowOK, WriterKinds
<1>4. ProgramInv'
  BY <1>1 DEF AllFit, Fit, ProgramInv
<1> QED
  BY <1>3, <1>4

-----------------------------------------------------------------------------
(* Downloads *)

\* A stream is at its download, of a file that is the install's or an add-on's.
LEMMA Streams ==
  ASSUME InstallTypeOK, ProgramInv, NEW k \in Jobs, writer[k] # "no"
  PROVE  /\ prog[k] # <<>> /\ Now(k).do = "get" /\ Now(k).file \in FilesOf(k) /\ Now(k).file \in Files
         /\ ctx[k].got \in Builds
         /\ DownloadInv /\ writer[k] = "place" => Now(k).file \in Addons
<1>1. prog[k] # <<>> /\ Now(k).do = "get"
  BY DEF InstallTypeOK
<1>2. At(k)
  BY <1>1, Heads
<1> QED
  BY <1>1, <1>2, FileKinds DEF At, FilesOf, DownloadInv

\* What most steps do to the streams: none begins, and none is renamed along.
Quiet ==
  /\ \A k \in Jobs :
       \/ writer'[k] \in {"no", "gone"}
       \/ /\ writer'[k] = writer[k] /\ prog'[k] = prog[k] /\ ctx'[k] = ctx[k]
          /\ writer[k] = "part" => part'[Now(k).file] = part[Now(k).file]
          /\ writer[k] = "place" => place'[Now(k).file].shared = place[Now(k).file].shared
  /\ writer'["install"] \in {"no", writer["install"]}
  /\ \A f \in Jars : part'[f].shared => part[f].shared

\* Who writes after the step.
NextWriters(f, at) == {k \in Jobs : writer'[k] = at /\ prog'[k] # <<>> /\ Head(prog'[k]).file = f}

\* The invariant after a step, stream by stream.
LEMMA NextDownloads ==
  ASSUME writer'["install"] \in {"no", "part"}, \A f \in Jars : ~part'[f].shared,
         \A k \in Jobs : writer'[k] = "part" =>
           LET f == Head(prog'[k]).file IN
           part'[f] # Absent /\ (~part'[f].shared => part'[f] = Whole(ctx'[k].got) /\ NextWriters(f, "part") = {k}),
         \A k \in Jobs : writer'[k] = "place" => place'[Head(prog'[k]).file].shared
  PROVE  DownloadInv'
  BY DEF DownloadInv, NextWriters, Writers, Now

LEMMA QuietDownloads ==
  ASSUME InstallTypeOK, ProgramInv, DownloadInv, Quiet PROVE DownloadInv'
<1>1. writer'["install"] \in {"no", "part"} /\ \A f \in Jars : ~part'[f].shared
  BY DEF Quiet, DownloadInv
<1>2. ASSUME NEW k \in Jobs, writer'[k] \notin {"no", "gone"}
      PROVE  /\ writer[k] = writer'[k] /\ Head(prog'[k]) = Now(k) /\ ctx'[k] = ctx[k] /\ prog'[k] = prog[k]
             /\ writer[k] = "part" => part'[Now(k).file] = part[Now(k).file]
             /\ writer[k] = "place" => place'[Now(k).file].shared = place[Now(k).file].shared
  BY <1>2 DEF Quiet, Now
<1>3. ASSUME NEW k \in Jobs, writer'[k] = "part", NEW f, f = Head(prog'[k]).file
      PROVE  part'[f] # Absent /\ (~part'[f].shared => part'[f] = Whole(ctx'[k].got) /\ NextWriters(f, "part") = {k})
  <2>1. f = Now(k).file /\ part'[f] = part[f] /\ ctx'[k] = ctx[k] /\ writer[k] = "part" /\ prog'[k] = prog[k]
    BY <1>2, <1>3
  <2>2. part[f] # Absent /\ (~part[f].shared => part[f] = Whole(ctx[k].got) /\ Writers(f, "part") = {k})
    BY <2>1 DEF DownloadInv
  <2>3. ASSUME NEW m \in Jobs, writer'[m] = "part", prog'[m] # <<>>, Head(prog'[m]).file = f
        PROVE  m \in Writers(f, "part")
    <3>1. writer[m] = "part" /\ Head(prog'[m]) = Now(m) /\ prog'[m] = prog[m]
      BY <1>2, <2>3
    <3> QED
      BY <2>3, <3>1 DEF Writers
  <2>4. NextWriters(f, "part") \subseteq Writers(f, "part")
    BY <2>3 DEF NextWriters
  <2>5. k \in NextWriters(f, "part")
    <3>1. prog[k] # <<>>
      BY <2>1, Streams
    <3> QED
      BY <1>3, <2>1, <3>1 DEF NextWriters
  <2> QED
    BY <2>1, <2>2, <2>4, <2>5
<1>4. ASSUME NEW k \in Jobs, writer'[k] = "place" PROVE place'[Head(prog'[k]).file].shared
  <2>1. Head(prog'[k]) = Now(k) /\ writer[k] = "place" /\ place'[Now(k).file].shared = place[Now(k).file].shared
    BY <1>2, <1>4
  <2> QED
    BY <2>1 DEF DownloadInv
<1> QED
  BY <1>1, <1>3, <1>4, NextDownloads

\* A job without a stream that leaves the .part files and the add-ons alone.
LEMMA QuietJob ==
  ASSUME InstallTypeOK, ProgramInv, DownloadInv, NEW j \in Jobs,
         writer'[j] = "no", \A k \in Jobs : k # j => writer'[k] = writer[k] /\ prog'[k] = prog[k] /\ ctx'[k] = ctx[k],
         part' = part, \A f \in Addons : place'[f] = place[f]
  PROVE  Quiet
<1>1. ASSUME NEW k \in Jobs, writer[k] = "place" PROVE place'[Now(k).file].shared = place[Now(k).file].shared
  BY <1>1, Streams
<1> QED
  BY <1>1, TheInstall DEF Quiet

\* How a job's step changes the files in place, but for a stream's.
Unpacks(j) ==
  /\ j = "install" /\ Now(j).do = "run"
  /\ \E outs \in SUBSET Now(j).outs, new \in Content :
       place' = [f \in Files |-> IF f \in outs THEN new
                                 ELSE IF f = Now(j).from /\ Now(j).finally THEN Absent ELSE place[f]]
Drops(j) ==
  /\ j = "install" /\ Now(j).do = "drop" /\ Now(j).file \in Archives
  /\ place' = [place EXCEPT ![Now(j).file] = Absent]
Pips(j) ==
  /\ j = "install" /\ Now(j).do = "pip"
  /\ \E h \in {"py3", "py"} : \E c : place' = [place EXCEPT ![h] = c]

LEMMA PythonKinds ==
  ASSUME InstallTypeOK, NEW j \in Jobs, ctx[j].left # <<>>
  PROVE  /\ Python(j) \in {"py3", "py"} /\ Python(j) \in Files
         /\ \/ ctx[j].left = Pythons /\ Python(j) = "py3"
            \/ ctx[j].left = <<"py">> /\ Python(j) = "py"
<1>1. ctx[j].left \in {<<"py">>, Pythons}
  BY DEF InstallTypeOK, Context
<1>2. \/ ctx[j].left = Pythons /\ Python(j) = "py3"
      \/ ctx[j].left = <<"py">> /\ Python(j) = "py"
  BY <1>1 DEF Python, Pythons
<1>3. {"py3", "py"} \subseteq Files
  BY FileKinds
<1>4. Python(j) \in {"py3", "py"}
  BY <1>2
<1> QED
  BY <1>2, <1>3, <1>4

LEMMA PlaceSteps ==
  ASSUME InstallTypeOK, ProgramInv, NEW j \in Jobs, JobStep(j), ~Verified(j), ~Broken(j)
  PROVE  place' = place \/ Unpacks(j) \/ Drops(j) \/ Pips(j)
<1>1. At(j)
  BY JobAt
<1>2. CASE RunDone(j) \/ RunFails(j)
  <2>1. Now(j).do = "run" /\ j = "install"
    BY <1>1, <1>2 DEF At, RunDone, RunFails, Doing
  <2>2. \E outs \in SUBSET Now(j).outs, new \in Content :
          place' = [f \in Files |-> IF f \in outs THEN new
                                    ELSE IF f = Now(j).from /\ Now(j).finally THEN Absent ELSE place[f]]
    <3>1. PICK g \in Builds : g = ctx[j].got
      BY <1>1, <2>1 DEF At
    <3>2. Whole(g) \in Content /\ Cut({g}) \in Content
      BY Contents
    <3> QED
      BY <1>2, <3>1, <3>2 DEF RunDone, RunFails
  <2> QED
    BY <2>1, <2>2 DEF Unpacks
<1>3. CASE DropArchive(j)
  BY <1>1, <1>3 DEF At, DropArchive, Doing, Drops
<1>4. CASE MakesVenv(j) \/ VenvFails(j) \/ PipDone(j)
  <2>1. Now(j).do = "pip" /\ j = "install" /\ ctx[j].left # <<>>
    BY <1>1, <1>4 DEF At, MakesVenv, VenvFails, PipDone, Piping, Doing
  <2>2. PICK h : h = Python(j)
    OBVIOUS
  <2>3. h \in {"py3", "py"} /\ h \in Files
    BY <2>1, <2>2, PythonKinds
  <2>4. CASE MakesVenv(j) \/ VenvFails(j)
    BY <2>1, <2>2, <2>3, <2>4 DEF MakesVenv, VenvFails, Pips
  <2>5. CASE PipDone(j)
    <3>1. PICK bs : place' = [place EXCEPT ![h].of = bs, ![h].cut = FALSE]
      BY <2>2, <2>5 DEF PipDone
    <3>2. place \in [Files -> Content]
      BY DEF InstallTypeOK
    <3>3. place' = [place EXCEPT ![h] = [place[h] EXCEPT !.of = bs, !.cut = FALSE]]
      BY <2>3, <3>1, <3>2
    <3> QED
      BY <2>1, <2>3, <3>3 DEF Pips
  <2> QED
    BY <1>4, <2>4, <2>5
<1>5. CASE \/ AskFails(j) \/ VerifiedTooLate(j) \/ Unverifiable(j) \/ PipGivesUp(j) \/ Answered(j)
           \/ ResolveVersion(j) \/ NoteVariable(j) \/ Dedupe(j) \/ ProbeFails(j) \/ OpenPart(j)
  BY <1>5 DEF AskFails, VerifiedTooLate, Unverifiable, PipGivesUp, Answered, ResolveVersion, NoteVariable,
     Dedupe, ProbeFails, OpenPart, diskVars
<1> QED
  BY <1>2, <1>3, <1>4, <1>5 DEF JobStep

\* Every step is quiet but the two that open and rename.
LEMMA QuietSteps ==
  ASSUME InstallTypeOK, ProgramInv, DownloadInv, NEW j \in Jobs, JobStep(j), ~OpenPart(j), ~Verified(j)
  PROVE  Quiet
<1>1. At(j) /\ prog \in [Jobs -> Seq(Step)] /\ ctx \in [Jobs -> Context] /\ writer \in [Jobs -> WriterKinds]
  BY JobAt DEF InstallTypeOK, WriterKinds
<1>2. place \in [Files -> Content] /\ part \in [Files -> Content]
  BY DEF InstallTypeOK
<1>3. CASE Broken(j)
  <2>1. PICK f : f = Now(j).file
    OBVIOUS
  <2>2. /\ part' = [part EXCEPT ![f] = Absent] /\ \E cut : place' = [place EXCEPT ![f].cut = cut]
        /\ prog' = [prog EXCEPT ![j] = <<>>] /\ ctx' = [ctx EXCEPT ![j] = NoJob]
        /\ writer' = [k \in Jobs |-> IF k = j THEN "no" ELSE IF k \in Writers(f, "part") THEN "gone" ELSE writer[k]]
        /\ writer[j] # "no"
    BY <1>3, <2>1 DEF Broken, Writing
  <2>3. f \in Files /\ f \in FilesOf(j)
    BY <2>1, <2>2, Streams
  <2>4. ASSUME NEW k \in Jobs, writer'[k] \notin {"no", "gone"}
        PROVE  /\ writer'[k] = writer[k] /\ prog'[k] = prog[k] /\ ctx'[k] = ctx[k]
               /\ writer[k] = "part" => part'[Now(k).file] = part[Now(k).file]
    <3>1. writer'[k] = writer[k] /\ k # j /\ k \notin Writers(f, "part")
      BY <2>2, <2>4
    <3>2. prog[k] # <<>> /\ Now(k).file \in Files
      BY <2>4, <3>1, Streams
    <3>3. writer[k] = "part" => Now(k).file # f
      BY <3>1, <3>2 DEF Writers
    <3> QED
      BY <1>1, <1>2, <2>2, <2>3, <3>1, <3>2, <3>3
  <2>5. \A h \in Files : place'[h].shared = place[h].shared
    <3>1. PICK cut : place' = [place EXCEPT ![f].cut = cut]
      BY <2>2
    <3>2. ASSUME NEW h \in Files PROVE place'[h].shared = place[h].shared
      <4>1. place[h] \in Content
        BY <1>2
      <4>2. place'[h] = place[h] \/ place'[h] = [place[h] EXCEPT !.cut = cut]
        BY <1>2, <2>3, <3>1
      <4> QED
        BY <4>1, <4>2 DEF Content
    <3> QED
      BY <3>2
  <2>6. \A h \in Jars : part'[h].shared => part[h].shared
    BY <1>2, <2>2, <2>3, FileKinds DEF Absent
  <2>7. writer'["install"] \in {"no", writer["install"]}
    <3>1. CASE j = "install"
      BY <2>2, <3>1
    <3>2. CASE j # "install" /\ "install" \in Writers(f, "part")
      <4>1. writer["install"] # "no" /\ f = Now("install").file
        BY <3>2 DEF Writers
      <4>2. f \in Jars /\ f \in Addons
        BY <2>3, <3>2, <4>1, TheInstall, Streams DEF FilesOf
      <4> QED
        BY <4>2, FileKinds
    <3> QED
      BY <2>2, <3>1, <3>2, TheInstall
  <2>8. \A k \in Jobs : writer'[k] \notin {"no", "gone"} /\ writer[k] = "place" =>
           place'[Now(k).file].shared = place[Now(k).file].shared
    BY <2>5, Streams
  <2> QED
    BY <2>4, <2>6, <2>7, <2>8 DEF Quiet
<1>4. ASSUME NEW p, NEW c, prog' = [prog EXCEPT ![j] = p], ctx' = [ctx EXCEPT ![j] = c],
             writer' = [writer EXCEPT ![j] = "no"]
      PROVE  writer'[j] = "no" /\ \A k \in Jobs : k # j => writer'[k] = writer[k] /\ prog'[k] = prog[k] /\ ctx'[k] = ctx[k]
  BY <1>1, <1>4
<1>5. /\ ctx = [ctx EXCEPT ![j] = ctx[j]] /\ prog = [prog EXCEPT ![j] = prog[j]]
      /\ writer[j] = "no" => writer = [writer EXCEPT ![j] = "no"]
  BY <1>1
<1>6. CASE ~Broken(j)
  <2>1. /\ \E p : prog' = [prog EXCEPT ![j] = p]
        /\ \E c : ctx' = [ctx EXCEPT ![j] = c]
        /\ writer' = [writer EXCEPT ![j] = "no"]
        /\ part' = part
    <3>1. CASE AskFails(j) \/ VerifiedTooLate(j) \/ Unverifiable(j) \/ RunFails(j) \/ PipGivesUp(j)
      BY <3>1 DEF AskFails, VerifiedTooLate, Unverifiable, RunFails, PipGivesUp, Fails, diskVars
    <3>2. CASE Answered(j) \/ ResolveVersion(j) \/ NoteVariable(j) \/ Dedupe(j)
      <4>1. writer[j] = "no" /\ writer' = writer /\ part' = part /\ \E p : prog' = [prog EXCEPT ![j] = p]
        BY <3>2 DEF Answered, ResolveVersion, NoteVariable, Dedupe, Doing, Go, diskVars
      <4>2. \E c : ctx' = [ctx EXCEPT ![j] = c]
        BY <1>5, <3>2 DEF Answered, ResolveVersion, NoteVariable, Dedupe
      <4> QED
        BY <1>5, <4>1, <4>2
    <3>3. CASE RunDone(j) \/ DropArchive(j) \/ PipDone(j) \/ ProbeFails(j) \/ MakesVenv(j) \/ VenvFails(j)
      <4>1. writer[j] = "no" /\ writer' = writer /\ part' = part
        BY <3>3 DEF RunDone, DropArchive, PipDone, ProbeFails, MakesVenv, VenvFails, NextPython, Piping, Doing, jobVars
      <4>2. \E p : prog' = [prog EXCEPT ![j] = p]
        BY <1>5, <3>3 DEF RunDone, DropArchive, PipDone, ProbeFails, MakesVenv, VenvFails, NextPython, Go, jobVars
      <4>3. \E c : ctx' = [ctx EXCEPT ![j] = c]
        BY <1>5, <3>3 DEF RunDone, DropArchive, PipDone, ProbeFails, MakesVenv, VenvFails, NextPython, Go, jobVars
      <4> QED
        BY <1>5, <4>1, <4>2, <4>3
    <3> QED
      BY <1>6, <3>1, <3>2, <3>3 DEF JobStep
  <2>2. \A f \in Addons : place'[f] = place[f]
    <3>2. CASE Unpacks(j)
      <4>1. PICK outs \in SUBSET Now(j).outs, new \in Content :
              place' = [f \in Files |-> IF f \in outs THEN new
                                        ELSE IF f = Now(j).from /\ Now(j).finally THEN Absent ELSE place[f]]
        BY <3>2 DEF Unpacks
      <4> QED
        BY <1>1, <3>2, <4>1, FileKinds DEF At, Unpacks
    <3>3. CASE Drops(j)
      BY <1>2, <3>3, FileKinds DEF Drops
    <3>4. CASE Pips(j)
      BY <1>2, <3>4, FileKinds DEF Pips
    <3> QED
      BY <1>6, <3>2, <3>3, <3>4, PlaceSteps
  <2> QED
    BY <1>4, <2>1, <2>2, QuietJob
<1> QED
  BY <1>3, <1>6

\* A stream that opens shares the .part file with those who write it.
LEMMA OpenDownloads ==
  ASSUME InstallTypeOK, ProgramInv, DownloadInv, NEW j \in Jobs, OpenPart(j) PROVE DownloadInv'
<1>1. PICK f : f = Now(j).file
  OBVIOUS
<1>2. /\ prog[j] # <<>> /\ Now(j).do = "get" /\ writer[j] = "no"
      /\ writer' = [writer EXCEPT ![j] = "part"] /\ UNCHANGED <<prog, ctx, place>>
      /\ part' = [part EXCEPT ![f] = [of |-> {ctx[k].got : k \in {j} \cup Writers(f, "part")}, cut |-> FALSE,
                                      shared |-> Writers(f, "part") # {}]]
  BY <1>1 DEF OpenPart, Doing
<1>3. At(j) /\ f \in FilesOf(j) /\ f \in Files
  BY <1>1, <1>2, Heads, FileKinds DEF At, FilesOf
<1>4. writer \in [Jobs -> WriterKinds] /\ part \in [Files -> Content]
  BY DEF InstallTypeOK, WriterKinds
<1>5. /\ part'[f].of = {ctx[k].got : k \in {j} \cup Writers(f, "part")} /\ part'[f].cut = FALSE
      /\ part'[f].shared = (Writers(f, "part") # {})
      /\ \A h \in Files : h # f => part'[h] = part[h]
  BY <1>2, <1>3, <1>4
<1>6. part'[f] # Absent
  <2>1. ctx[j].got \in part'[f].of
    BY <1>5
  <2> QED
    BY <2>1 DEF Absent
<1>7. Writers(f, "part") = {} => part'[f] = Whole(ctx[j].got)
  <2>1. \A w : w = {} => {ctx[k].got : k \in {j} \cup w} = {ctx[j].got}
    OBVIOUS
  <2>2. \A w : w = {} => (w # {}) = FALSE
    OBVIOUS
  <2>3. ASSUME Writers(f, "part") = {}
        PROVE  part' = [part EXCEPT ![f] = [of |-> {ctx[j].got}, cut |-> FALSE, shared |-> FALSE]]
    BY <1>2, <2>1, <2>2, <2>3
  <2> QED
    BY <1>3, <1>4, <2>3 DEF Whole
<1>8. \A k \in Jobs : k # j => writer'[k] = writer[k]
  BY <1>2, <1>4
<1>9. writer'[j] = "part"
  BY <1>2, <1>4
<1>10. writer'["install"] \in {"no", "part"}
  BY <1>8, <1>9, TheInstall DEF DownloadInv
<1>11. \A h \in Jars : ~part'[h].shared
  <2>1. ASSUME NEW h \in Jars, h = f PROVE Writers(f, "part") = {}
    <3>1. j = "install"
      BY <1>3, <2>1, FileKinds DEF FilesOf
    <3>2. ASSUME NEW k \in Writers(f, "part") PROVE FALSE
      <4>1. k \in Jobs /\ writer[k] # "no" /\ Now(k).file = f /\ k # j
        BY <1>2, <3>2 DEF Writers
      <4>2. f \in Addons
        BY <3>1, <4>1, Streams DEF FilesOf
      <4> QED
        BY <2>1, <4>2, FileKinds
    <3> QED
      BY <3>2
  <2> QED
    BY <1>5, <2>1, FileKinds DEF DownloadInv
<1>12. ASSUME NEW k \in Jobs, writer'[k] = "part", NEW h, h = Head(prog'[k]).file
       PROVE  part'[h] # Absent /\ (~part'[h].shared => part'[h] = Whole(ctx'[k].got) /\ NextWriters(h, "part") = {k})
  <2>1. h = Now(k).file /\ ctx'[k] = ctx[k]
    BY <1>2, <1>12 DEF Now
  <2>2. \A m \in Jobs : m \in NextWriters(h, "part") <=>
          (m = j /\ h = f) \/ m \in Writers(h, "part")
    BY <1>1, <1>2, <1>8, <1>9 DEF NextWriters, Writers, Now
  <2>3. CASE h = f
    <3>1. Writers(f, "part") = {} => k = j
      BY <1>2, <1>8, <1>12, <2>1, <2>3, Streams DEF Writers
    <3>2. Writers(f, "part") = {} => NextWriters(h, "part") = {j}
      BY <2>2, <2>3 DEF NextWriters
    <3> QED
      BY <1>5, <1>6, <1>7, <2>1, <2>3, <3>1, <3>2
  <2>4. CASE h # f
    <3>1. k # j /\ writer[k] = "part" /\ h \in Files
      BY <1>1, <1>8, <1>12, <2>1, <2>4, Streams
    <3>2. part'[h] = part[h]
      BY <1>5, <2>4, <3>1
    <3>3. part[h] # Absent /\ (~part[h].shared => part[h] = Whole(ctx[k].got) /\ Writers(h, "part") = {k})
      BY <2>1, <3>1 DEF DownloadInv
    <3>4. NextWriters(h, "part") = Writers(h, "part")
      BY <2>2, <2>4 DEF NextWriters, Writers
    <3> QED
      BY <2>1, <3>2, <3>3, <3>4
  <2> QED
    BY <2>3, <2>4
<1>13. ASSUME NEW k \in Jobs, writer'[k] = "place" PROVE place'[Head(prog'[k]).file].shared
  <2>1. writer[k] = "place"
    BY <1>8, <1>9, <1>13
  <2> QED
    BY <1>2, <2>1 DEF DownloadInv, Now
<1> QED
  BY <1>10, <1>11, <1>12, <1>13, NextDownloads

\* A rename takes along whoever else writes, and says so.
LEMMA VerifiedDownloads ==
  ASSUME InstallTypeOK, ProgramInv, DownloadInv, NEW j \in Jobs, Verified(j) PROVE DownloadInv'
<1>1. PICK f : f = Now(j).file
  OBVIOUS
<1>2. PICK new : /\ writer[j] # "no" /\ part[f] # Absent /\ UNCHANGED ctx
                 /\ place' = [place EXCEPT ![f] = new] /\ new = [part[f] EXCEPT !.shared = @ \/ writer[j] # "part"]
                 /\ part' = [part EXCEPT ![f] = Absent]
                 /\ writer' = [k \in Jobs |-> IF k = j THEN "no"
                                              ELSE IF k \in Writers(f, "part") THEN "place"
                                              ELSE IF k \in Writers(f, "place") THEN "gone" ELSE writer[k]]
                 /\ prog' = [prog EXCEPT ![j] = Tail(prog[j])]
  BY <1>1 DEF Verified, Writing, Go
<1>3. f \in FilesOf(j) /\ f \in Files
  BY <1>1, <1>2, Streams
<1>4. /\ writer \in [Jobs -> WriterKinds] /\ part \in [Files -> Content] /\ place \in [Files -> Content]
      /\ prog \in [Jobs -> Seq(Step)]
  BY DEF InstallTypeOK, WriterKinds
<1>5. new.shared = (part[f].shared \/ writer[j] # "part")
  BY <1>2, <1>3, <1>4 DEF Content
<1>6. \A k \in Jobs : k # j => prog'[k] = prog[k]
  BY <1>2, <1>4
<1>7. \A k \in Jobs : writer'[k] = "part" => k # j /\ writer[k] = "part" /\ k \notin Writers(f, "part")
  BY <1>2
<1>8. ASSUME "install" \in Writers(f, "part") PROVE j = "install"
  <2>1. f \in Jars
    BY <1>8, Streams DEF Writers, FilesOf
  <2> QED
    BY <1>3, <2>1, FileKinds DEF FilesOf
<1>9. writer'["install"] \in {"no", "part"}
  BY <1>2, <1>8, TheInstall DEF DownloadInv, Writers
<1>10. \A h \in Jars : ~part'[h].shared
  BY <1>2, <1>3, <1>4, FileKinds DEF DownloadInv, Absent
<1>11. ASSUME NEW k \in Jobs, writer'[k] = "part", NEW h, h = Head(prog'[k]).file
       PROVE  part'[h] # Absent /\ (~part'[h].shared => part'[h] = Whole(ctx'[k].got) /\ NextWriters(h, "part") = {k})
  <2>1. k # j /\ writer[k] = "part" /\ h = Now(k).file /\ ctx'[k] = ctx[k] /\ prog'[k] = prog[k]
    BY <1>2, <1>6, <1>7, <1>11 DEF Now
  <2>2. h # f /\ h \in Files /\ prog[k] # <<>>
    BY <1>7, <1>11, <2>1, Streams DEF Writers
  <2>3. part'[h] = part[h]
    BY <1>2, <1>4, <2>2
  <2>4. part[h] # Absent /\ (~part[h].shared => part[h] = Whole(ctx[k].got) /\ Writers(h, "part") = {k})
    BY <2>1 DEF DownloadInv
  <2>5. NextWriters(h, "part") \subseteq Writers(h, "part") /\ k \in NextWriters(h, "part")
    BY <1>6, <1>7, <1>11, <2>1, <2>2 DEF NextWriters, Writers, Now
  <2> QED
    BY <2>1, <2>3, <2>4, <2>5
<1>12. ASSUME NEW k \in Jobs, writer'[k] = "place" PROVE place'[Head(prog'[k]).file].shared
  <2>1. k # j /\ prog'[k] = prog[k] /\ Head(prog'[k]) = Now(k)
    BY <1>2, <1>6, <1>12 DEF Now
  <2>2. CASE k \in Writers(f, "part")
    <3>1. Now(k).file = f /\ writer[k] = "part"
      BY <2>2 DEF Writers
    <3>2. ~part[f].shared => Writers(f, "part") = {k}
      BY <3>1 DEF DownloadInv
    <3>3. ~part[f].shared => writer[j] # "part"
      BY <1>1, <1>2, <2>1, <3>2, Streams DEF Writers
    <3> QED
      BY <1>2, <1>3, <1>4, <1>5, <2>1, <3>1, <3>3
  <2>3. CASE k \notin Writers(f, "part")
    <3>1. writer[k] = "place" /\ k \notin Writers(f, "place")
      BY <1>2, <1>12, <2>1, <2>3
    <3>2. Now(k).file # f /\ Now(k).file \in Files
      BY <3>1, Streams DEF Writers
    <3> QED
      BY <1>2, <1>4, <2>1, <3>1, <3>2 DEF DownloadInv
  <2> QED
    BY <2>2, <2>3
<1> QED
  BY <1>9, <1>10, <1>11, <1>12, NextDownloads

LEMMA DownloadStep ==
  ASSUME InstallTypeOK, ProgramInv, DownloadInv, [InstallNext]_installVars PROVE DownloadInv'
<1>1. ASSUME NEW j \in Jobs, JobStep(j) PROVE DownloadInv'
  BY <1>1, OpenDownloads, VerifiedDownloads, QuietSteps, QuietDownloads
<1>2. \A j \in Jobs : prog[j] = <<>> \/ Doing(j, "settle") => writer[j] = "no"
  BY DEF InstallTypeOK, Doing
<1>3. prog \in [Jobs -> Seq(Step)] /\ ctx \in [Jobs -> Context] /\ writer \in [Jobs -> WriterKinds]
  BY DEF InstallTypeOK, WriterKinds
<1>4. ASSUME NEW j \in Jobs, writer[j] = "no", writer' = writer, part' = part, place' = place,
             NEW p, NEW c, prog' = [prog EXCEPT ![j] = p], ctx' = [ctx EXCEPT ![j] = c]
      PROVE  Quiet
  BY <1>3, <1>4, QuietJob
<1>5. CASE writer' = writer /\ part' = part /\ place' = place /\ prog' = prog /\ ctx' = ctx
  BY <1>5, QuietDownloads DEF Quiet
<1>6. ASSUME NEW j \in Jobs, NEW steps, NEW want, NEW asked, Begin(j, steps, want, asked), prog[j] = <<>>
      PROVE  DownloadInv'
  <2>1. writer' = writer /\ part' = part /\ place' = place
        /\ (\E p : prog' = [prog EXCEPT ![j] = p]) /\ (\E c : ctx' = [ctx EXCEPT ![j] = c])
    BY <1>6 DEF Begin, diskVars
  <2> QED
    BY <1>2, <1>4, <1>6, <2>1, QuietDownloads
<1>7. ASSUME NEW j \in Jobs, (InstallDone /\ j = "install") \/ AddonsDone(j) PROVE DownloadInv'
  <2>1. writer' = writer /\ part' = part /\ place' = place /\ Doing(j, "settle")
        /\ prog' = [prog EXCEPT ![j] = <<>>] /\ ctx' = [ctx EXCEPT ![j] = NoJob]
    BY <1>7 DEF InstallDone, AddonsDone, diskVars
  <2> QED
    BY <1>2, <1>4, <2>1, QuietDownloads
<1>8. CASE RowStep
  <2>2. CASE Reinstall
    BY <1>6, <2>2, TheInstall DEF Reinstall, NewInstall
  <2>3. ASSUME NEW s, NEW v, SwapSoftware(s, v) PROVE DownloadInv'
    BY <1>6, <2>3, TheInstall DEF SwapSoftware, NewInstall
  <2>4. ASSUME NEW v, EditVersion(v) PROVE DownloadInv'
    BY <1>5, <2>4 DEF EditVersion, jobVars, diskVars
  <2>5. CASE Suspend \/ Unsuspend
    BY <1>5, <2>5 DEF Suspend, Unsuspend, jobVars, diskVars
  <2> QED
    BY <1>7, <1>8, <2>2, <2>3, <2>4, <2>5, TheInstall DEF RowStep
<1>9. CASE AsideStep
  <2>1. ASSUME NEW j \in Adders, NEW fs, AskAddons(j, fs) PROVE DownloadInv'
    BY <1>6, <2>1 DEF AskAddons, Jobs
  <2>2. ASSUME NEW f, RemoveAddon(f) PROVE DownloadInv'
    <3>1. /\ place' = [place EXCEPT ![f] = Absent] /\ UNCHANGED <<prog, ctx, part>>
          /\ writer' = [k \in Jobs |-> IF k \in Writers(f, "place") THEN "gone" ELSE writer[k]]
      BY <2>2 DEF RemoveAddon
    <3>2. "install" \notin Writers(f, "place")
      BY DEF DownloadInv, Writers
    <3>3. ASSUME NEW k \in Jobs, writer'[k] # "gone", writer[k] = "place"
          PROVE  place'[Now(k).file].shared = place[Now(k).file].shared
      <4>1. Now(k).file # f
        BY <3>1, <3>3, Streams DEF Writers
      <4>2. Now(k).file \in Files /\ place \in [Files -> Content]
        BY <3>3, Streams DEF InstallTypeOK
      <4> QED
        BY <3>1, <4>1, <4>2
    <3>4. Quiet
      BY <3>1, <3>2, <3>3, TheInstall DEF Quiet
    <3> QED
      BY <3>4, QuietDownloads
  <2>3. CASE SearchAddons \/ Publish \/ MemoExpires
    BY <1>5, <2>3 DEF SearchAddons, Publish, MemoExpires, jobVars, diskVars
  <2> QED
    BY <1>7, <1>9, <2>1, <2>2, <2>3 DEF AsideStep, Jobs
<1>10. CASE PanelRestarts
  <2>1. /\ writer' = [k \in Jobs |-> "no"]
        /\ part' = [f \in Files |-> IF Writers(f, "part") = {} THEN part[f] ELSE [part[f] EXCEPT !.cut = TRUE]]
    BY <1>10 DEF PanelRestarts
  <2>2. ASSUME NEW f \in Jars PROVE part'[f].shared => part[f].shared
    <3>1. f \in Files /\ part[f] \in Content
      BY FileKinds DEF InstallTypeOK
    <3>2. part'[f] = part[f] \/ part'[f] = [part[f] EXCEPT !.cut = TRUE]
      BY <2>1, <3>1
    <3> QED
      BY <3>1, <3>2 DEF Content
  <2>3. Quiet
    BY <2>1, <2>2, TheInstall DEF Quiet
  <2> QED
    BY <2>3, QuietDownloads
<1>11. CASE UNCHANGED installVars
  BY <1>5, <1>11 DEF installVars, jobVars, diskVars
<1> QED
  BY <1>1, <1>8, <1>9, <1>10, <1>11, StepKinds

-----------------------------------------------------------------------------
(* Files in place *)

\* The file part of InPlaceIsWhole; its writers are DownloadInv's.
FetchedWhole ==
  \A f \in Fetched : place[f] # Absent /\ ~place[f].shared => (\E b \in Builds : place[f] = Whole(b)) \/ f = "server.jar"

LEMMA WholeFiles == ASSUME InstallTypeOK, DownloadInv PROVE InPlaceIsWhole <=> FetchedWhole
<1>1. \E b \in Builds : TRUE
  BY NewestBuild
<1>2. ASSUME NEW f, ~place[f].shared PROVE Writers(f, "place") = {}
  BY <1>2 DEF Writers, DownloadInv
<1> QED
  BY <1>1, <1>2 DEF InPlaceIsWhole, FetchedWhole

\* A step that only removes files, or touches none that is fetched.
LEMMA WholeKept ==
  ASSUME FetchedWhole,
         \A f \in Fetched : place'[f] \in {place[f], Absent} \/ place'[f].shared \/ f = "server.jar"
  PROVE  FetchedWhole'
  BY DEF FetchedWhole

LEMMA WholeStep ==
  ASSUME InstallTypeOK, ProgramInv, DownloadInv, FetchedWhole, [InstallNext]_installVars PROVE FetchedWhole'
<1>1. place \in [Files -> Content] /\ part \in [Files -> Content] /\ Fetched \subseteq Files
  BY FileKinds DEF InstallTypeOK
<1>2. CASE place' = place
  BY <1>2 DEF FetchedWhole
<1>3. ASSUME NEW j \in Jobs, JobStep(j) PROVE FetchedWhole'
  <2>1. At(j)
    BY <1>3, JobAt
  <2>2. CASE Verified(j)
    <3>1. PICK f : f = Now(j).file
      OBVIOUS
    <3>2. PICK new : /\ writer[j] # "no" /\ place' = [place EXCEPT ![f] = new]
                     /\ new = [part[f] EXCEPT !.shared = @ \/ writer[j] # "part"]
      BY <2>2, <3>1 DEF Verified, Writing
    <3>3. f \in Files /\ ctx[j].got \in Builds
      BY <3>1, <3>2, Streams
    <3>4. new.shared = (part[f].shared \/ writer[j] # "part")
      BY <1>1, <3>2, <3>3 DEF Content
    <3>5. CASE new.shared
      BY <1>1, <3>2, <3>3, <3>5, WholeKept
    <3>6. CASE ~new.shared
      <4>1. writer[j] = "part" /\ ~part[f].shared
        BY <1>1, <3>3, <3>4, <3>6 DEF Content
      <4>2. part[f] = Whole(ctx[j].got)
        BY <3>1, <4>1 DEF DownloadInv
      <4>3. new = Whole(ctx[j].got)
        <5>1. part[f] \in Content /\ (part[f].shared \/ writer[j] # "part") = FALSE
          BY <1>1, <3>3, <4>1 DEF Content
        <5>2. new = [part[f] EXCEPT !.shared = FALSE]
          BY <3>2, <5>1
        <5>3. \A c \in Content : c.shared = FALSE => [c EXCEPT !.shared = FALSE] = c
          BY DEF Content
        <5>4. part[f].shared = FALSE
          BY <5>1, ContentFields
        <5> QED
          BY <4>2, <5>1, <5>2, <5>3, <5>4
      <4> QED
        BY <1>1, <3>2, <3>3, <4>3 DEF FetchedWhole
    <3> QED
      BY <3>5, <3>6
  <2>3. CASE Broken(j)
    <3>1. PICK f : f = Now(j).file
      OBVIOUS
    <3>2. PICK cut \in {place[f].cut, place[f].cut \/ writer[j] = "place"} :
            place' = [place EXCEPT ![f].cut = cut] /\ writer[j] # "no"
      BY <2>3, <3>1 DEF Broken, Writing
    <3>3. f \in Files /\ place[f] \in Content
      BY <1>1, <3>1, <3>2, Streams
    <3>4. CASE writer[j] = "place"
      <4>1. place[f].shared
        BY <3>1, <3>4 DEF DownloadInv
      <4>2. place'[f].shared
        BY <1>1, <3>2, <3>3, <4>1 DEF Content
      <4>3. \A h \in Fetched : h # f => place'[h] = place[h]
        BY <1>1, <3>2
      <4> QED
        BY <4>2, <4>3, WholeKept
    <3>5. CASE writer[j] # "place"
      <4>1. cut = place[f].cut
        BY <3>2, <3>3, <3>5 DEF Content
      <4>2. place' = place
        BY <1>1, <3>2, <3>3, <4>1 DEF Content
      <4> QED
        BY <1>2, <4>2
    <3> QED
      BY <3>4, <3>5
  <2>4. CASE Unpacks(j)
    <3>1. PICK outs \in SUBSET Now(j).outs, new \in Content :
            place' = [f \in Files |-> IF f \in outs THEN new
                                      ELSE IF f = Now(j).from /\ Now(j).finally THEN Absent ELSE place[f]]
      BY <2>4 DEF Unpacks
    <3>2. Now(j).outs \subseteq Tools
      BY <2>1, <2>4 DEF At, Unpacks
    <3>3. \A f \in Fetched : f \in Tools => f = "server.jar"
      BY FileKinds, InstallAssumption DEF Tools, Made
    <3> QED
      BY <1>1, <3>1, <3>2, <3>3, WholeKept
  <2>5. CASE Drops(j)
    BY <1>1, <2>5, WholeKept DEF Drops
  <2>6. CASE Pips(j)
    <3>1. \A f \in Fetched : f \notin {"py3", "py"}
      BY FileKinds
    <3> QED
      BY <1>1, <2>6, <3>1, WholeKept DEF Pips
  <2> QED
    BY <1>2, <1>3, <2>2, <2>3, <2>4, <2>5, <2>6, PlaceSteps
<1>4. CASE RowStep
  BY <1>2, <1>4 DEF RowStep, Reinstall, InstallDone, SwapSoftware, EditVersion, Suspend, Unsuspend, Begin, diskVars
<1>5. CASE AsideStep
  <2>1. ASSUME NEW f \in Addons, RemoveAddon(f) PROVE FetchedWhole'
    BY <1>1, <2>1, WholeKept DEF RemoveAddon
  <2>2. (\A f \in Addons : ~RemoveAddon(f)) => place' = place
    BY <1>5 DEF AsideStep, AddonsDone, AskAddons, Begin, SearchAddons, Publish, MemoExpires, diskVars
  <2> QED
    BY <1>2, <2>1, <2>2
<1>6. CASE PanelRestarts
  <2>1. place' = [f \in Files |-> IF Writers(f, "place") = {} THEN place[f] ELSE [place[f] EXCEPT !.cut = TRUE]]
    BY <1>6 DEF PanelRestarts
  <2>2. ASSUME NEW f \in Fetched, Writers(f, "place") # {} PROVE place'[f].shared
    <3>1. place[f].shared
      BY <2>2 DEF Writers, DownloadInv
    <3>2. place'[f] = [place[f] EXCEPT !.cut = TRUE] /\ place[f] \in Content
      BY <1>1, <2>1, <2>2
    <3> QED
      BY <3>1, <3>2 DEF Content
  <2> QED
    BY <1>1, <2>1, <2>2, WholeKept
<1>7. CASE UNCHANGED installVars
  BY <1>2, <1>7 DEF installVars, diskVars
<1> QED
  BY <1>3, <1>4, <1>5, <1>6, <1>7, StepKinds

\* Environments are pip's alone.
LEMMA EnvStep ==
  ASSUME InstallTypeOK, ProgramInv, DownloadInv, EnvInv, [InstallNext]_installVars PROVE EnvInv'
<1>1. place \in [Files -> Content] /\ {"py3", "py"} \subseteq Files
  BY FileKinds DEF InstallTypeOK
<1>2. CASE \A f \in {"py3", "py"} : place'[f] = place[f]
  BY <1>2 DEF EnvInv
<1>3. ASSUME NEW j \in Jobs, JobStep(j) PROVE EnvInv'
  <2>1. At(j)
    BY <1>3, JobAt
  <2>2. CASE Verified(j) \/ Broken(j)
    <3>1. PICK f, c : f = Now(j).file /\ place' = [place EXCEPT ![f] = c] /\ writer[j] # "no"
      <4>1. CASE Verified(j)
        BY <4>1 DEF Verified, Writing
      <4>2. CASE Broken(j)
        <5>1. PICK f, cut : f = Now(j).file /\ place' = [place EXCEPT ![f].cut = cut] /\ writer[j] # "no"
          BY <4>2 DEF Broken, Writing
        <5> QED
          BY <5>1
      <4> QED
        BY <2>2, <4>1, <4>2
    <3>2. f \in Fetched
      BY <3>1, Streams, FileKinds DEF FilesOf
    <3>3. \A h \in {"py3", "py"} : h # f
      BY <3>2, FileKinds
    <3> QED
      BY <1>1, <1>2, <3>1, <3>3
  <2>3. CASE Unpacks(j)
    <3>1. PICK outs \in SUBSET Now(j).outs, new \in Content :
            place' = [f \in Files |-> IF f \in outs THEN new
                                      ELSE IF f = Now(j).from /\ Now(j).finally THEN Absent ELSE place[f]]
      BY <2>3 DEF Unpacks
    <3>2. Now(j).outs \subseteq Tools /\ Now(j).from \in Archives
      BY <2>1, <2>3 DEF At, Unpacks
    <3>3. \A h \in {"py3", "py"} : h \notin outs /\ h # Now(j).from
      BY <3>2, FileKinds
    <3> QED
      BY <1>1, <1>2, <3>1, <3>3
  <2>4. CASE Drops(j)
    <3>1. \A h \in {"py3", "py"} : h # Now(j).file
      BY <2>4, FileKinds DEF Drops
    <3> QED
      BY <1>1, <1>2, <2>4, <3>1 DEF Drops
  <2>5. CASE MakesVenv(j) \/ VenvFails(j) \/ PipDone(j)
    <3>1. PICK h : h = Python(j)
      OBVIOUS
    <3>2. h \in {"py3", "py"} /\ h \in Files
      BY <2>5, <3>1, PythonKinds DEF MakesVenv, VenvFails, PipDone, Piping
    <3>3. ASSUME NEW c, place' = [place EXCEPT ![h] = c], ~c.shared, c.of = {} \/ \E b \in Builds : c.of = {b}
          PROVE  EnvInv'
      <4>1. \A f \in {"py3", "py"} : place'[f] = place[f] \/ place'[f] = c
        BY <1>1, <3>2, <3>3
      <4> QED
        BY <3>3, <4>1 DEF EnvInv
    <3>4. CASE PipDone(j)
      <4>1. PICK bs : /\ bs = IF place[h].of = {} THEN {Newest} ELSE place[h].of
                      /\ place' = [place EXCEPT ![h].of = bs, ![h].cut = FALSE]
        BY <3>1, <3>4 DEF PipDone
      <4>2. PICK c : c = [place[h] EXCEPT !.of = bs, !.cut = FALSE]
        OBVIOUS
      <4>3. place[h] \in Content
        BY <1>1, <3>2
      <4>4. c.of = bs /\ c.shared = place[h].shared
        BY <4>2, <4>3 DEF Content
      <4>5. place' = [place EXCEPT ![h] = c]
        BY <1>1, <3>2, <4>1, <4>2
      <4>6. ~c.shared /\ \E b \in Builds : c.of = {b}
        BY <3>2, <4>1, <4>4, NewestBuild DEF EnvInv
      <4> QED
        BY <3>3, <4>5, <4>6
    <3>5. CASE MakesVenv(j)
      <4>1. place' = [place EXCEPT ![h] = Cut({})]
        BY <3>1, <3>5 DEF MakesVenv
      <4>2. ~Cut({}).shared /\ Cut({}).of = {}
        BY DEF Cut
      <4> QED
        BY <3>3, <4>1, <4>2
    <3>6. CASE VenvFails(j)
      <4>1. place' = [place EXCEPT ![h] = Absent]
        BY <3>1, <3>6 DEF VenvFails
      <4>2. ~Absent.shared /\ Absent.of = {}
        BY DEF Absent
      <4> QED
        BY <3>3, <4>1, <4>2
    <3> QED
      BY <2>5, <3>4, <3>5, <3>6
  <2>6. CASE ~(MakesVenv(j) \/ VenvFails(j) \/ PipDone(j)) /\ Pips(j)
    <3>1. Now(j).do = "pip"
      BY <2>6 DEF Pips
    <3>2. place' = place
      <4>1. writer[j] = "no"
        BY <1>3, <3>1, JobAt
      <4>2. AskFails(j) \/ ProbeFails(j) \/ PipGivesUp(j)
        BY <1>3, <2>6, <3>1, <4>1 DEF JobStep, Answered, ResolveVersion, NoteVariable, Dedupe, OpenPart, Verified,
           VerifiedTooLate, Unverifiable, Broken, RunDone, RunFails, DropArchive, Doing, Writing
      <4> QED
        BY <4>2 DEF AskFails, ProbeFails, PipGivesUp, diskVars
    <3> QED
      BY <1>2, <3>2
  <2> QED
    BY <1>2, <1>3, <2>2, <2>3, <2>4, <2>5, <2>6, PlaceSteps
<1>4. CASE RowStep
  BY <1>2, <1>4 DEF RowStep, Reinstall, InstallDone, SwapSoftware, EditVersion, Suspend, Unsuspend, Begin, diskVars
<1>5. CASE AsideStep
  <2>1. ASSUME NEW f \in Addons, RemoveAddon(f) PROVE EnvInv'
    <3>1. \A h \in {"py3", "py"} : h # f
      BY FileKinds
    <3> QED
      BY <1>1, <1>2, <2>1, <3>1 DEF RemoveAddon
  <2>2. (\A f \in Addons : ~RemoveAddon(f)) => place' = place
    BY <1>5 DEF AsideStep, AddonsDone, AskAddons, Begin, SearchAddons, Publish, MemoExpires, diskVars
  <2> QED
    BY <1>2, <2>1, <2>2
<1>6. CASE PanelRestarts
  <2>1. place' = [f \in Files |-> IF Writers(f, "place") = {} THEN place[f] ELSE [place[f] EXCEPT !.cut = TRUE]]
    BY <1>6 DEF PanelRestarts
  <2>2. \A f \in {"py3", "py"} : Writers(f, "place") = {}
    BY Streams, FileKinds DEF Writers
  <2> QED
    BY <1>1, <1>2, <2>1, <2>2
<1>7. CASE UNCHANGED installVars
  BY <1>2, <1>7 DEF installVars, diskVars
<1> QED
  BY <1>3, <1>4, <1>5, <1>6, <1>7, StepKinds

-----------------------------------------------------------------------------
(* What is left over *)

\* The step after the one job j is at.
LEMMA NextStep ==
  ASSUME InstallTypeOK, ProgramInv, NEW j \in Jobs, prog[j] # <<>>, Now(j).do # "settle"
  PROVE  Tail(prog[j]) # <<>> /\ Follows(j, Now(j), Head(Tail(prog[j])))
<1>1. PICK p : p = prog[j]
  OBVIOUS
<1>2. p \in Seq(Step) /\ p # <<>> /\ Shaped(j, p) /\ Head(p).do # "settle" /\ Now(j) = Head(p)
  BY <1>1 DEF InstallTypeOK, ProgramInv, Now
<1>3. PICK t : t = Tail(p)
  OBVIOUS
<1>4. /\ Len(p) \in Nat /\ Len(p) > 1 /\ p[1] = Head(p) /\ t \in Seq(Step) /\ t # <<>>
      /\ \A i \in 1..(Len(p) - 1) : t[i] = p[i + 1]
  BY <1>2, <1>3, RestShaped
<1>5. 1 \in 1..(Len(p) - 1)
  BY ONLY <1>4
<1>6. Follows(j, p[1], p[1 + 1]) /\ t[1] = p[1 + 1]
  BY <1>2, <1>4, <1>5 DEF Shaped
<1>7. Head(t) = t[1]
  BY <1>4
<1> QED
  BY <1>1, <1>2, <1>3, <1>4, <1>6, <1>7

LeftParts ==
  \A f \in Files : part[f] # Absent => <<"part", f>> \in untidy \/ Writers(f, "part") # {}
AtArchive(f) ==
  /\ prog["install"] # <<>>
  /\ \/ Now("install").do = "run" /\ Now("install").from = f
     \/ Now("install").do = "drop" /\ Now("install").file = f
LeftArchives ==
  \A f \in Archives : place[f] # Absent => <<"place", f>> \in untidy \/ AtArchive(f)

LEMMA LeftOvers == LeftInv <=> LeftParts /\ LeftArchives
  BY DEF LeftInv, LeftParts, LeftArchives, AtArchive

\* Nothing happens to the .part file of f, nor to those who write it.
Still(f) ==
  /\ part'[f] = part[f] /\ (<<"part", f>> \in untidy => <<"part", f>> \in untidy')
  /\ \A k \in Jobs : writer[k] = "part" /\ Now(k).file = f => writer'[k] = "part" /\ prog'[k] = prog[k]

LEMMA PartsKept ==
  ASSUME LeftParts,
         \A f \in Files : Still(f) \/ part'[f] = Absent \/ <<"part", f>> \in untidy' \/ NextWriters(f, "part") # {}
  PROVE  LeftParts'
<1>1. ASSUME NEW f \in Files, Still(f), part'[f] # Absent
      PROVE  <<"part", f>> \in untidy' \/ NextWriters(f, "part") # {}
  <2>1. part[f] # Absent
    BY <1>1 DEF Still
  <2>2. CASE <<"part", f>> \in untidy
    BY <1>1, <2>2 DEF Still
  <2>3. CASE <<"part", f>> \notin untidy
    <3>1. PICK k \in Writers(f, "part") : TRUE
      BY <2>1, <2>3 DEF LeftParts
    <3>2. k \in Jobs /\ writer[k] = "part" /\ prog[k] # <<>> /\ Now(k).file = f
      BY <3>1 DEF Writers
    <3>3. writer'[k] = "part" /\ prog'[k] = prog[k]
      BY <1>1, <3>2 DEF Still
    <3>4. k \in NextWriters(f, "part")
      BY <3>2, <3>3 DEF NextWriters, Now
    <3> QED
      BY <3>4
  <2> QED
    BY <2>2, <2>3
<1> QED
  BY <1>1 DEF LeftParts, NextWriters, Writers, Now

LEMMA LeftPartsStep ==
  ASSUME InstallTypeOK, ProgramInv, DownloadInv, LeftParts, [InstallNext]_installVars PROVE LeftParts'
<1>1. /\ prog \in [Jobs -> Seq(Step)] /\ writer \in [Jobs -> WriterKinds] /\ part \in [Files -> Content]
  BY DEF InstallTypeOK, WriterKinds
<1>2. ASSUME part' = part, \A f \in Files : <<"part", f>> \in untidy => <<"part", f>> \in untidy',
             \A k \in Jobs : writer[k] = "part" => writer'[k] = "part" /\ prog'[k] = prog[k]
      PROVE  LeftParts'
  BY <1>2, PartsKept DEF Still
<1>3. ASSUME NEW j \in Jobs, JobStep(j) PROVE LeftParts'
  <2>1. At(j)
    BY <1>3, JobAt
  <2>2. PICK f : f = Now(j).file
    OBVIOUS
  \* The steps of a stream.
  <2>3. ASSUME writer[j] # "no", NEW p, prog' = [prog EXCEPT ![j] = p],
               \A h \in Files : h # f => part'[h] = part[h] /\ (<<"part", h>> \in untidy => <<"part", h>> \in untidy'),
               \A k \in Jobs : k # j /\ writer[k] = "part" /\ Now(k).file # f => writer'[k] = "part",
               part'[f] = Absent \/ <<"part", f>> \in untidy'
        PROVE  LeftParts'
    <3>1. ASSUME NEW h \in Files, h # f PROVE Still(h)
      <4>1. ASSUME NEW k \in Jobs, writer[k] = "part", Now(k).file = h PROVE writer'[k] = "part" /\ prog'[k] = prog[k]
        BY <1>1, <2>2, <2>3, <3>1, <4>1
      <4> QED
        BY <2>3, <3>1, <4>1 DEF Still
    <3> QED
      BY <2>3, <3>1, PartsKept
  <2>4. CASE OpenPart(j)
    <3>1. /\ Now(j).do = "get" /\ writer[j] = "no" /\ prog[j] # <<>> /\ prog' = prog /\ untidy' = untidy
          /\ writer' = [writer EXCEPT ![j] = "part"]
          /\ \E c : part' = [part EXCEPT ![f] = c]
      BY <2>2, <2>4 DEF OpenPart, Doing
    <3>2. f \in Files
      BY <2>1, <2>2, <3>1, FileKinds DEF At, FilesOf
    <3>3. j \in NextWriters(f, "part")
      BY <1>1, <2>2, <3>1 DEF NextWriters, Now
    <3>4. \A h \in Files : h # f => Still(h)
      BY <1>1, <3>1, <3>2 DEF Still
    <3> QED
      BY <3>3, <3>4, PartsKept
  <2>5. CASE Verified(j)
    <3>1. /\ writer[j] # "no" /\ prog' = [prog EXCEPT ![j] = Tail(prog[j])] /\ part' = [part EXCEPT ![f] = Absent]
          /\ untidy' = untidy \ {<<"part", f>>}
          /\ writer' = [k \in Jobs |-> IF k = j THEN "no"
                                       ELSE IF k \in Writers(f, "part") THEN "place"
                                       ELSE IF k \in Writers(f, "place") THEN "gone" ELSE writer[k]]
      BY <2>2, <2>5 DEF Verified, Writing, Go
    <3>2. f \in Files
      BY <2>2, <3>1, Streams
    <3>3. \A k \in Jobs : k # j /\ writer[k] = "part" /\ Now(k).file # f => writer'[k] = "part"
      BY <3>1 DEF Writers
    <3> QED
      BY <1>1, <2>3, <3>1, <3>2, <3>3
  <2>6. CASE Broken(j)
    <3>1. /\ writer[j] # "no" /\ prog' = [prog EXCEPT ![j] = <<>>] /\ part' = [part EXCEPT ![f] = Absent]
          /\ untidy' = untidy \ {<<"part", f>>}
          /\ writer' = [k \in Jobs |-> IF k = j THEN "no" ELSE IF k \in Writers(f, "part") THEN "gone" ELSE writer[k]]
      BY <2>2, <2>6 DEF Broken, Writing
    <3>2. f \in Files
      BY <2>2, <3>1, Streams
    <3>3. \A k \in Jobs : k # j /\ writer[k] = "part" /\ Now(k).file # f => writer'[k] = "part"
      BY <3>1 DEF Writers
    <3> QED
      BY <1>1, <2>3, <3>1, <3>2, <3>3
  <2>7. CASE VerifiedTooLate(j) \/ Unverifiable(j)
    <3>1. /\ writer[j] # "no" /\ part' = part /\ untidy \subseteq untidy'
          /\ part[f] = Absent \/ <<"part", f>> \in untidy'
          /\ prog' = [prog EXCEPT ![j] = <<>>] /\ writer' = [writer EXCEPT ![j] = "no"]
      BY <2>2, <2>7 DEF VerifiedTooLate, Unverifiable, Writing, Fails, diskVars
    <3>2. \A k \in Jobs : k # j /\ writer[k] = "part" => writer'[k] = "part"
      BY <1>1, <3>1
    <3> QED
      BY <2>3, <3>1, <3>2
  \* The steps without one.
  <2>8. CASE ~OpenPart(j) /\ ~Verified(j) /\ ~Broken(j) /\ ~VerifiedTooLate(j) /\ ~Unverifiable(j)
    <3>1. writer[j] = "no" /\ part' = part /\ (writer' = writer \/ writer' = [writer EXCEPT ![j] = "no"])
          /\ (prog' = prog \/ \E p : prog' = [prog EXCEPT ![j] = p])
      <4>1. CASE AskFails(j) \/ RunFails(j) \/ PipGivesUp(j)
        BY <4>1 DEF AskFails, RunFails, PipGivesUp, Fails, Doing, diskVars
      <4>2. CASE Answered(j) \/ ResolveVersion(j) \/ NoteVariable(j) \/ Dedupe(j)
        BY <4>2 DEF Answered, ResolveVersion, NoteVariable, Dedupe, Doing, Go, diskVars
      <4>3. CASE RunDone(j) \/ DropArchive(j) \/ PipDone(j)
        BY <4>3 DEF RunDone, DropArchive, PipDone, Piping, Doing, Go
      <4>4. CASE ProbeFails(j) \/ MakesVenv(j) \/ VenvFails(j)
        BY <4>4 DEF ProbeFails, MakesVenv, VenvFails, NextPython, Piping, Doing, jobVars
      <4> QED
        BY <1>3, <2>8, <4>1, <4>2, <4>3, <4>4 DEF JobStep
    <3>2. \A h \in Files : <<"part", h>> \in untidy => <<"part", h>> \in untidy'
      <4>1. CASE RunFails(j)
        BY <4>1 DEF RunFails
      <4>2. CASE DropArchive(j)
        BY <4>2 DEF DropArchive
      <4>3. CASE AskFails(j) \/ PipGivesUp(j) \/ Answered(j) \/ ResolveVersion(j) \/ NoteVariable(j) \/ Dedupe(j)
        BY <4>3 DEF AskFails, PipGivesUp, Answered, ResolveVersion, NoteVariable, Dedupe, diskVars
      <4>4. CASE RunDone(j) \/ PipDone(j) \/ ProbeFails(j) \/ MakesVenv(j) \/ VenvFails(j)
        BY <4>4 DEF RunDone, PipDone, ProbeFails, MakesVenv, VenvFails, NextPython
      <4> QED
        BY <1>3, <2>8, <4>1, <4>2, <4>3, <4>4 DEF JobStep
    <3>3. \A k \in Jobs : writer[k] = "part" => writer'[k] = "part" /\ prog'[k] = prog[k]
      BY <1>1, <3>1
    <3> QED
      BY <1>2, <3>1, <3>2, <3>3
  <2> QED
    BY <2>4, <2>5, <2>6, <2>7, <2>8
<1>4. \A j \in Jobs : prog[j] = <<>> \/ Doing(j, "settle") => writer[j] = "no"
  BY DEF InstallTypeOK, Doing
<1>5. ASSUME NEW j \in Jobs, writer[j] = "no", UNCHANGED <<writer, part, untidy>>,
             NEW p, prog' = [prog EXCEPT ![j] = p]
      PROVE  LeftParts'
  BY <1>1, <1>2, <1>5
<1>6. CASE UNCHANGED <<writer, part, untidy, prog>>
  BY <1>2, <1>6
<1>7. ASSUME NEW j \in Jobs, NEW steps, NEW want, NEW asked, Begin(j, steps, want, asked), prog[j] = <<>>
      PROVE  LeftParts'
  BY <1>4, <1>5, <1>7 DEF Begin, diskVars
<1>8. ASSUME NEW j \in Jobs, (InstallDone /\ j = "install") \/ AddonsDone(j) PROVE LeftParts'
  <2>1. UNCHANGED <<writer, part, untidy>> /\ Doing(j, "settle") /\ prog' = [prog EXCEPT ![j] = <<>>]
    BY <1>8 DEF InstallDone, AddonsDone, diskVars
  <2> QED
    BY <1>4, <1>5, <2>1
<1>9. CASE RowStep
  <2>2. CASE Reinstall
    BY <1>7, <2>2, TheInstall DEF Reinstall, NewInstall
  <2>3. ASSUME NEW s, NEW v, SwapSoftware(s, v) PROVE LeftParts'
    BY <1>7, <2>3, TheInstall DEF SwapSoftware, NewInstall
  <2>4. ASSUME NEW v, EditVersion(v) PROVE LeftParts'
    BY <1>6, <2>4 DEF EditVersion, jobVars, diskVars
  <2>5. CASE Suspend \/ Unsuspend
    BY <1>6, <2>5 DEF Suspend, Unsuspend, jobVars, diskVars
  <2> QED
    BY <1>8, <1>9, <2>2, <2>3, <2>4, <2>5, TheInstall DEF RowStep
<1>10. CASE AsideStep
  <2>1. ASSUME NEW j \in Adders, NEW fs, AskAddons(j, fs) PROVE LeftParts'
    BY <1>7, <2>1 DEF AskAddons, Jobs
  <2>2. ASSUME NEW f, RemoveAddon(f) PROVE LeftParts'
    <3>1. /\ UNCHANGED <<prog, part, untidy>>
          /\ writer' = [k \in Jobs |-> IF k \in Writers(f, "place") THEN "gone" ELSE writer[k]]
      BY <2>2 DEF RemoveAddon
    <3> QED
      BY <1>2, <3>1 DEF Writers
  <2>3. CASE SearchAddons \/ Publish \/ MemoExpires
    BY <1>6, <2>3 DEF SearchAddons, Publish, MemoExpires, jobVars, diskVars
  <2> QED
    BY <1>8, <1>10, <2>1, <2>2, <2>3 DEF AsideStep, Jobs
<1>11. CASE PanelRestarts
  <2>1. /\ part' = [f \in Files |-> IF Writers(f, "part") = {} THEN part[f] ELSE [part[f] EXCEPT !.cut = TRUE]]
        /\ untidy \subseteq untidy' /\ \A f \in Files : part[f] # Absent => <<"part", f>> \in untidy'
    BY <1>11 DEF PanelRestarts
  <2>2. ASSUME NEW f \in Files, Writers(f, "part") # {} PROVE part[f] # Absent
    BY <2>2 DEF Writers, DownloadInv
  <2>3. \A f \in Files : <<"part", f>> \in untidy' \/ part'[f] = Absent
    BY <2>1, <2>2
  <2> QED
    BY <2>3, PartsKept
<1>12. CASE UNCHANGED installVars
  BY <1>6, <1>12 DEF installVars, jobVars, diskVars
<1> QED
  BY <1>3, <1>9, <1>10, <1>11, <1>12, StepKinds

\* What a step that is not the install's, nor the row's, leaves as it is.
Apart ==
  /\ prog'["install"] = prog["install"] /\ ctx'["install"] = ctx["install"]
  /\ UNCHANGED <<slug, status, saved, loose>>
  /\ \A f \in Files \ Addons : place'[f] = place[f]
  /\ \A f : <<"place", f>> \in untidy => <<"place", f>> \in untidy'

LEMMA ApartSteps ==
  ASSUME InstallTypeOK, ProgramInv, DownloadInv, [InstallNext]_installVars
  PROVE  Apart \/ JobStep("install") \/ RowStep \/ PanelRestarts
<1>1. /\ place \in [Files -> Content] /\ prog \in [Jobs -> Seq(Step)] /\ ctx \in [Jobs -> Context]
      /\ Addons \subseteq Files
  BY FileKinds DEF InstallTypeOK
<1>2. ASSUME NEW j \in Jobs, j # "install", JobStep(j) PROVE Apart
  <2>1. JobRow(j) /\ At(j)
    BY <1>2, JobRows, JobAt
  <2>2. /\ prog'["install"] = prog["install"] /\ ctx'["install"] = ctx["install"]
        /\ UNCHANGED <<slug, status, saved, loose>>
    BY <1>2, <2>1 DEF JobRow
  <2>3. PICK f : f = Now(j).file
    OBVIOUS
  <2>4. writer[j] # "no" => f \in Addons
    BY <1>2, <2>3, Streams DEF FilesOf
  <2>5. \A h \in Files \ Addons : place'[h] = place[h]
    <3>1. CASE Verified(j)
      <4>1. writer[j] # "no" /\ \E c : place' = [place EXCEPT ![f] = c]
        BY <2>3, <3>1 DEF Verified, Writing
      <4> QED
        BY <1>1, <2>4, <4>1
    <3>2. CASE Broken(j)
      <4>1. writer[j] # "no" /\ \E cut : place' = [place EXCEPT ![f].cut = cut]
        BY <2>3, <3>2 DEF Broken, Writing
      <4> QED
        BY <1>1, <2>4, <4>1
    <3> QED
      BY <1>2, <3>1, <3>2, PlaceSteps DEF Unpacks, Drops, Pips
  <2>6. \A h : <<"place", h>> \in untidy => <<"place", h>> \in untidy'
    <3>1. ~RunFails(j) /\ ~DropArchive(j)
      BY <1>2, <2>1 DEF At, RunFails, DropArchive, Doing
    <3>2. CASE Verified(j) \/ Broken(j)
      BY <3>2 DEF Verified, Broken
    <3>3. CASE Unverifiable(j)
      BY <3>3 DEF Unverifiable
    <3>4. CASE AskFails(j) \/ PipGivesUp(j) \/ Answered(j) \/ ResolveVersion(j) \/ NoteVariable(j) \/ Dedupe(j)
      BY <3>4 DEF AskFails, PipGivesUp, Answered, ResolveVersion, NoteVariable, Dedupe, diskVars
    <3>5. CASE \/ RunDone(j) \/ PipDone(j) \/ ProbeFails(j) \/ MakesVenv(j) \/ VenvFails(j) \/ OpenPart(j)
               \/ VerifiedTooLate(j)
      BY <3>5 DEF RunDone, PipDone, ProbeFails, MakesVenv, VenvFails, NextPython, OpenPart, VerifiedTooLate, diskVars
    <3> QED
      BY <1>2, <3>1, <3>2, <3>3, <3>4, <3>5 DEF JobStep
  <2> QED
    BY <2>2, <2>5, <2>6 DEF Apart
<1>3. CASE AsideStep
  <2>1. ASSUME NEW j \in Adders, NEW p, NEW c, prog' = [prog EXCEPT ![j] = p], ctx' = [ctx EXCEPT ![j] = c],
               UNCHANGED <<diskVars, serverVars>>
        PROVE  Apart
    <3>1. prog'["install"] = prog["install"] /\ ctx'["install"] = ctx["install"]
      BY <1>1, <2>1, TheInstall, InstallAssumption
    <3> QED
      BY <2>1, <3>1 DEF Apart, diskVars, serverVars
  <2>2. ASSUME NEW j \in Adders, NEW fs, AddonsDone(j) \/ AskAddons(j, fs) PROVE Apart
    <3>1. /\ \E p : prog' = [prog EXCEPT ![j] = p]
          /\ \E c : ctx' = [ctx EXCEPT ![j] = c]
          /\ UNCHANGED <<diskVars, serverVars>>
      BY <2>2 DEF AddonsDone, AskAddons, Begin
    <3> QED
      BY <2>1, <3>1
  <2>3. ASSUME NEW f \in Addons, RemoveAddon(f) PROVE Apart
    BY <1>1, <2>3 DEF RemoveAddon, Apart, serverVars
  <2>4. CASE SearchAddons \/ Publish \/ MemoExpires
    BY <2>4 DEF SearchAddons, Publish, MemoExpires, Apart, jobVars, diskVars, serverVars
  <2> QED
    BY <1>3, <2>2, <2>3, <2>4 DEF AsideStep
<1>4. CASE UNCHANGED installVars
  BY <1>4 DEF Apart, installVars, jobVars, diskVars, serverVars
<1> QED
  BY <1>2, <1>3, <1>4, StepKinds

\* A step of the install that neither fails nor is done with what it does.
LEMMA LeftArchivesStep ==
  ASSUME InstallTypeOK, ProgramInv, DownloadInv, LeftArchives, [InstallNext]_installVars PROVE LeftArchives'
<1>1. place \in [Files -> Content] /\ prog \in [Jobs -> Seq(Step)] /\ Archives \subseteq Files \ Addons /\ "install" \in Jobs
  BY FileKinds, TheInstall DEF InstallTypeOK
<1> DEFINE NextAt(f) == /\ prog'["install"] # <<>>
                        /\ LET st == Head(prog'["install"]) IN
                             (st.do = "run" /\ st.from = f) \/ (st.do = "drop" /\ st.file = f)
<1>2. ASSUME \A f \in Archives : \/ place'[f] = Absent \/ <<"place", f>> \in untidy' \/ NextAt(f)
      PROVE  LeftArchives'
  BY <1>2 DEF LeftArchives, AtArchive, Now
<1>3. CASE Apart
  <2>1. ASSUME NEW f \in Archives, AtArchive(f) PROVE NextAt(f)
    BY <1>3, <2>1 DEF Apart, AtArchive, Now
  <2>2. \A f \in Archives : place'[f] = place[f] /\ (<<"place", f>> \in untidy => <<"place", f>> \in untidy')
    BY <1>1, <1>3 DEF Apart
  <2> QED
    BY <1>2, <2>1, <2>2 DEF LeftArchives
\* Where the install is at none of them, only a reason is left.
<1>4. ASSUME prog["install"] = <<>> \/ Now("install").do \notin {"run", "drop"},
             \A f \in Archives : /\ place'[f] = place[f] \/ NextAt(f)
                                 /\ <<"place", f>> \in untidy => <<"place", f>> \in untidy'
      PROVE  LeftArchives'
  <2>1. \A f \in Archives : ~AtArchive(f)
    BY <1>4 DEF AtArchive
  <2> QED
    BY <1>2, <1>4, <2>1 DEF LeftArchives
<1>5. CASE JobStep("install")
  <2>1. At("install") /\ prog["install"] # <<>>
    BY <1>1, <1>5, JobAt DEF At
  <2>2. PICK f : f = Now("install").file
    OBVIOUS
  <2>3. CASE Verified("install")
    <3>1. /\ writer["install"] # "no" /\ \E c : place' = [place EXCEPT ![f] = c]
          /\ prog' = [prog EXCEPT !["install"] = Tail(prog["install"])] /\ untidy' = untidy \ {<<"part", f>>}
      BY <2>2, <2>3 DEF Verified, Writing, Go
    <3>2. Now("install").do = "get"
      BY <1>1, <3>1, Streams
    <3>3. f \in Archives => NextAt(f)
      <4>1. Tail(prog["install"]) # <<>> /\ Follows("install", Now("install"), Head(Tail(prog["install"])))
        BY <1>1, <2>1, <3>2, NextStep
      <4>2. prog'["install"] = Tail(prog["install"])
        BY <1>1, <3>1
      <4> QED
        BY <2>2, <3>2, <4>1, <4>2 DEF Follows
    <3>4. \A h \in Archives : place'[h] = place[h] \/ NextAt(h)
      BY <1>1, <3>1, <3>3
    <3> QED
      BY <1>4, <3>1, <3>2, <3>4
  <2>4. CASE Broken("install")
    <3>1. PICK cut : /\ writer["install"] # "no" /\ place' = [place EXCEPT ![f].cut = cut]
                     /\ untidy' = untidy \ {<<"part", f>>} /\ cut \in {place[f].cut, place[f].cut \/ writer["install"] = "place"}
      BY <2>2, <2>4 DEF Broken, Writing
    <3>2. Now("install").do = "get" /\ f \in Files
      BY <1>1, <2>2, <3>1, Streams
    <3>3. place[f] \in Content /\ writer["install"] # "place"
      BY <1>1, <3>2 DEF DownloadInv
    <3>4. cut = place[f].cut
      BY <3>1, <3>3 DEF Content
    <3>5. place' = place
      BY <1>1, <3>1, <3>2, <3>3, <3>4 DEF Content
    <3> QED
      BY <1>4, <3>1, <3>2, <3>5
  <2>5. CASE RunDone("install") \/ RunFails("install")
    <3>1. PICK from : from = Now("install").from
      OBVIOUS
    <3>2. PICK outs \in SUBSET Now("install").outs, new \in Content :
            place' = [h \in Files |-> IF h \in outs THEN new
                                      ELSE IF h = from /\ Now("install").finally THEN Absent ELSE place[h]]
      <4>1. Unpacks("install")
        <5>1. ~Verified("install") /\ ~Broken("install") /\ Now("install").do = "run"
          BY <1>1, <2>5 DEF RunDone, RunFails, Doing, Verified, Broken, Writing
        <5>2. PICK g \in Builds : g = ctx["install"].got
          BY <2>1, <5>1 DEF At
        <5>3. Whole(g) \in Content /\ Cut({g}) \in Content
          BY Contents
        <5> QED
          BY <2>5, <5>1, <5>2, <5>3 DEF RunDone, RunFails, Unpacks
      <4> QED
        BY <3>1, <4>1 DEF Unpacks
    <3>3. Now("install").do = "run" /\ Now("install").outs \cap Archives = {} /\ from \in Archives
      BY <2>1, <2>5, <3>1, FileKinds DEF At, RunDone, RunFails, Doing
    <3>4. \A h \in Archives : h # from => place'[h] = place[h] /\ ~AtArchive(h)
      BY <1>1, <3>1, <3>2, <3>3 DEF AtArchive
    <3>5. \A h : <<"place", h>> \in untidy => <<"place", h>> \in untidy'
      BY <2>5 DEF RunDone, RunFails
    <3>6. place'[from] = Absent \/ <<"place", from>> \in untidy' \/ NextAt(from)
      <4>1. CASE Now("install").finally
        BY <1>1, <3>2, <3>3, <4>1
      <4>2. CASE ~Now("install").finally /\ RunFails("install")
        BY <3>1, <4>2 DEF RunFails
      <4>3. CASE ~Now("install").finally /\ RunDone("install")
        <5>1. Tail(prog["install"]) # <<>> /\ Follows("install", Now("install"), Head(Tail(prog["install"])))
          BY <1>1, <2>1, <3>3, NextStep
        <5>2. prog'["install"] = Tail(prog["install"])
          BY <1>1, <4>3 DEF RunDone, Go
        <5> QED
          BY <3>1, <3>3, <4>3, <5>1, <5>2 DEF Follows
      <4> QED
        BY <2>5, <4>1, <4>2, <4>3
    <3> QED
      BY <1>2, <3>4, <3>5, <3>6 DEF LeftArchives
  <2>6. CASE DropArchive("install")
    <3>1. Now("install").do = "drop" /\ place' = [place EXCEPT ![f] = Absent] /\ untidy' = untidy \ {<<"place", f>>}
      BY <2>2, <2>6 DEF DropArchive, Doing
    <3>2. \A h \in Archives : h # f => place'[h] = place[h] /\ ~AtArchive(h)
      BY <1>1, <2>2, <3>1 DEF AtArchive
    <3>3. \A h \in Archives : h = f => place'[h] = Absent
      BY <1>1, <3>1
    <3> QED
      BY <1>2, <3>1, <3>2, <3>3 DEF LeftArchives
  <2>7. CASE ~Verified("install") /\ ~Broken("install") /\ ~RunDone("install") /\ ~RunFails("install") /\ ~DropArchive("install")
    <3>1. /\ Now("install").do \notin {"run", "drop"}
          /\ \A h : <<"place", h>> \in untidy => <<"place", h>> \in untidy'
      <4>1. CASE \/ AskFails("install") \/ PipGivesUp("install") \/ Answered("install") \/ ResolveVersion("install")
                 \/ NoteVariable("install") \/ Dedupe("install")
        BY <4>1 DEF AskFails, PipGivesUp, Answered, ResolveVersion, NoteVariable, Dedupe, Doing, diskVars
      <4>2. CASE PipDone("install") \/ ProbeFails("install") \/ MakesVenv("install") \/ VenvFails("install")
        BY <4>2 DEF PipDone, ProbeFails, MakesVenv, VenvFails, Piping, NextPython, Doing
      <4>3. CASE OpenPart("install")
        BY <4>3 DEF OpenPart, Doing
      <4>4. CASE VerifiedTooLate("install") \/ Unverifiable("install")
        <5>1. writer["install"] # "no" /\ \A h : <<"place", h>> \in untidy => <<"place", h>> \in untidy'
          BY <4>4 DEF VerifiedTooLate, Unverifiable, Writing, diskVars
        <5> QED
          BY <1>1, <5>1, Streams
      <4> QED
        BY <1>5, <2>7, <4>1, <4>2, <4>3, <4>4 DEF JobStep
    <3>2. \A h \in Archives : place'[h] = place[h]
      <4>1. place' = place \/ Pips("install")
        BY <1>1, <1>5, <2>7, <3>1, PlaceSteps DEF Unpacks, Drops
      <4>2. \A h \in Archives : h \notin {"py3", "py"}
        BY FileKinds
      <4> QED
        BY <1>1, <4>1, <4>2 DEF Pips
    <3> QED
      BY <1>4, <3>1, <3>2
  <2> QED
    BY <2>3, <2>4, <2>5, <2>6, <2>7
<1>6. CASE RowStep
  <2>1. prog["install"] = <<>> \/ Now("install").do \notin {"run", "drop"} \/ UNCHANGED prog
    BY <1>6 DEF RowStep, Reinstall, SwapSoftware, NewInstall, InstallDone, EditVersion, Suspend, Unsuspend, Doing, jobVars
  <2>2. place' = place /\ untidy' = untidy
    BY <1>6 DEF RowStep, Reinstall, SwapSoftware, InstallDone, EditVersion, Suspend, Unsuspend, Begin, diskVars
  <2>3. CASE UNCHANGED prog
    <3>1. \A f \in Archives : AtArchive(f) => NextAt(f)
      BY <2>3 DEF AtArchive, Now
    <3> QED
      BY <1>2, <2>2, <3>1 DEF LeftArchives
  <2> QED
    BY <1>4, <2>1, <2>2, <2>3
<1>7. CASE PanelRestarts
  <2>1. /\ place' = [f \in Files |-> IF Writers(f, "place") = {} THEN place[f] ELSE [place[f] EXCEPT !.cut = TRUE]]
        /\ \A f \in Archives : place[f] # Absent => <<"place", f>> \in untidy'
    BY <1>7 DEF PanelRestarts
  <2>2. \A f \in Archives : Writers(f, "place") = {}
    BY Streams, FileKinds DEF Writers
  <2> QED
    BY <1>1, <1>2, <2>1, <2>2
<1> QED
  BY <1>3, <1>5, <1>6, <1>7, ApartSteps

-----------------------------------------------------------------------------
(* What an install has ahead of it, and what it has done *)

Making(p, f) == \E i \in DOMAIN p : Makes(p[i], f)
NotesAhead(p, k) == \E i \in DOMAIN p : p[i].do = "note" /\ p[i].key = k
Ahead(p, got, has, f) == Making(p, f) \/ (has = Whole(got) /\ Resolved(p))
Noting(p, noted, k) == k \in noted \/ NotesAhead(p, k)
Known(p, got, want) == Resolved(p) => got \in Builds /\ want \in {"latest", got}
Agreed(asked, want, stored) ==
  \/ asked \in Builds /\ want = asked
  \/ asked \notin Builds /\ stored \in {"none", asked}
  \/ asked \notin Builds /\ stored \in Builds /\ want = stored

\* FetchInv, of the blueprint s.
LEMMA FetchNow ==
  ASSUME FetchInv, NEW s \in Slugs, s = slug, s # "endstone", Sound
  PROVE  LET p == prog["install"]
             c == ctx["install"] IN
         /\ \A f \in Launched(s) : Ahead(p, c.got, place[f], f)
         /\ \A k \in NoteKeys(s) : Noting(p, c.noted, k)
         /\ Known(p, c.got, c.want)
         /\ "mcVersion" \in NoteKeys(s) => Agreed(c.asked, c.want, saved.mcVersion)
  BY DEF FetchInv, Making, NotesAhead, Ahead, Noting, Known, Agreed, Agree

LEMMA FetchNext ==
  ASSUME NEW s \in Slugs, slug' = s, NEW p, p = prog'["install"], NEW c, c = ctx'["install"],
         Sound' /\ s # "endstone" =>
           /\ \A f \in Launched(s) : Ahead(p, c.got, place'[f], f)
           /\ \A k \in NoteKeys(s) : Noting(p, c.noted, k)
           /\ Known(p, c.got, c.want)
           /\ "mcVersion" \in NoteKeys(s) => Agreed(c.asked, c.want, saved'.mcVersion)
  PROVE  FetchInv'
<1> SUFFICES ASSUME Sound', s # "endstone" PROVE FetchInv'
  BY DEF FetchInv
<1>1. Launched(slug)' = Launched(s)
  BY DEF Launched
<1>2. /\ \A f \in Launched(s) : Making(p, f) \/ (place'[f] = Whole(c.got) /\ Resolved(p))
      /\ \A k \in NoteKeys(s) : k \in c.noted \/ NotesAhead(p, k)
      /\ Resolved(p) => c.got \in Builds /\ c.want \in {"latest", c.got}
      /\ "mcVersion" \in NoteKeys(s) => Agree(c)'
  BY DEF Ahead, Noting, Known, Agreed, Agree
<1> QED
  BY <1>1, <1>2 DEF FetchInv, Making, NotesAhead, Agree

\* One step on.
LEMMA AheadTail ==
  ASSUME NEW p \in Seq(Step), p # <<>>, Shaped("install", p), Head(p).do # "settle"
  PROVE  /\ \A f : Making(p, f) => Makes(Head(p), f) \/ Making(Tail(p), f)
         /\ \A k : NotesAhead(p, k) => (Head(p).do = "note" /\ Head(p).key = k) \/ NotesAhead(Tail(p), k)
         /\ Resolved(p) => Resolved(Tail(p)) /\ Head(p).do # "resolve"
         /\ Resolved(Tail(p)) => Resolved(p) \/ Head(p).do = "resolve"
         /\ Head(p).do \in {"get", "run"} => Resolved(Tail(p))
<1>1. /\ Len(p) \in Nat /\ Len(p) > 1 /\ DOMAIN p = 1..Len(p) /\ p[1] = Head(p)
      /\ DOMAIN Tail(p) = 1..(Len(p) - 1)
      /\ \A i \in 1..(Len(p) - 1) : Tail(p)[i] = p[i + 1]
  BY RestShaped
<1>2. PICK q : q = Tail(p)
  OBVIOUS
<1>3. \A i \in DOMAIN p : i = 1 \/ (i - 1 \in DOMAIN q /\ q[i - 1] = p[i])
  BY <1>1, <1>2
<1>4. \A i \in DOMAIN q : i + 1 \in DOMAIN p /\ 1 < i + 1 /\ q[i] = p[i + 1]
  BY <1>1, <1>2
<1>5. 1 \in DOMAIN p
  BY <1>1
<1>6. Head(p).do \in {"get", "run"} => Resolved(q)
  BY <1>1, <1>4, <1>5 DEF Shaped, Resolved
<1>7. \A f : Making(p, f) => Makes(Head(p), f) \/ Making(q, f)
  BY <1>1, <1>3 DEF Making
<1>8. \A k : NotesAhead(p, k) => (Head(p).do = "note" /\ Head(p).key = k) \/ NotesAhead(q, k)
  BY <1>1, <1>3 DEF NotesAhead
<1>9. Resolved(p) => Resolved(q) /\ Head(p).do # "resolve"
  BY <1>1, <1>4, <1>5 DEF Resolved
<1>10. Resolved(q) => Resolved(p) \/ Head(p).do = "resolve"
  BY <1>1, <1>3 DEF Resolved
<1> QED
  BY <1>2, <1>6, <1>7, <1>8, <1>9, <1>10

\* A step of the install that does not fail.
InstallMoves ==
  LET c == ctx["install"]
      d == ctx'["install"] IN
  /\ d.want = c.want /\ d.asked = c.asked
  /\ \/ prog'["install"] = prog["install"] /\ d.got = c.got /\ d.noted = c.noted
     \/ /\ prog'["install"] = Tail(prog["install"])
        /\ Now("install").do # "settle"
        /\ IF Now("install").do = "resolve" THEN d.got \in Builds /\ d.want \in {"latest", d.got}
           ELSE d.got = c.got
        /\ d.noted = IF Now("install").do = "note" THEN c.noted \cup {Now("install").key} ELSE c.noted

LEMMA InstallGoesOn ==
  ASSUME InstallTypeOK, ProgramInv, JobStep("install"), prog'["install"] # <<>>
  PROVE  InstallMoves
<1>1. At("install") /\ Now("install").do # "settle" /\ "install" \in Jobs
  BY JobAt, TheInstall
<1>2. prog \in [Jobs -> Seq(Step)] /\ ctx \in [Jobs -> Context]
  BY DEF InstallTypeOK
<1>3. PICK c \in Context : c = ctx["install"]
  BY <1>1, <1>2
<1>4. ~ \/ AskFails("install") \/ VerifiedTooLate("install") \/ Unverifiable("install")
        \/ Broken("install") \/ RunFails("install") \/ PipGivesUp("install")
  BY <1>1, <1>2 DEF AskFails, VerifiedTooLate, Unverifiable, Broken, RunFails, PipGivesUp, Fails
<1>5. CASE \/ Answered("install") \/ Verified("install") \/ RunDone("install")
           \/ DropArchive("install") \/ PipDone("install")
  <2>1. prog'["install"] = Tail(prog["install"]) /\ ctx' = ctx
    BY <1>1, <1>2, <1>5 DEF Answered, Verified, RunDone, DropArchive, PipDone, Go
  <2>2. Now("install").do \notin {"resolve", "note"}
    <3>1. CASE Verified("install")
      BY <1>1, <3>1, JobAt DEF Verified, Writing
    <3>2. CASE ~Verified("install")
      BY <1>5, <3>2 DEF Answered, RunDone, DropArchive, PipDone, Piping, Doing
    <3> QED
      BY <3>1, <3>2
  <2> QED
    BY <1>1, <2>1, <2>2 DEF InstallMoves
<1>6. CASE ResolveVersion("install")
  <2>1. PICK v : /\ v = IF ctx["install"].want # "latest" THEN ctx["install"].want
                        ELSE IF memo = "none" \/ Now("install").how = "newest" THEN Newest ELSE memo
                 /\ ctx' = [ctx EXCEPT !["install"].got = v]
    BY <1>6 DEF ResolveVersion
  <2>2. prog'["install"] = Tail(prog["install"]) /\ Now("install").do = "resolve"
    BY <1>1, <1>2, <1>6 DEF ResolveVersion, Go, Doing
  <2>3. v \in Builds /\ c.want \in {"latest", v}
    BY <1>1, <1>2, <1>3, <2>1, NewestBuild DEF At, InstallTypeOK
  <2>4. ctx'["install"] = [c EXCEPT !.got = v]
    BY <1>1, <1>2, <1>3, <2>1
  <2>5. PICK d : d = ctx'["install"]
    OBVIOUS
  <2>6. d.want = c.want /\ d.asked = c.asked /\ d.noted = c.noted /\ d.got = v
    BY <1>3, <2>4, <2>5 DEF Context
  <2> QED
    BY <1>3, <2>2, <2>3, <2>5, <2>6 DEF InstallMoves
<1>7. CASE NoteVariable("install")
  <2>1. ctx'["install"] = [c EXCEPT !.noted = c.noted \cup {Now("install").key}]
    BY <1>1, <1>2, <1>3, <1>7 DEF NoteVariable
  <2>2. prog'["install"] = Tail(prog["install"]) /\ Now("install").do = "note"
    BY <1>1, <1>2, <1>7 DEF NoteVariable, Go, Doing
  <2>3. PICK d : d = ctx'["install"]
    OBVIOUS
  <2>4. /\ d.want = c.want /\ d.asked = c.asked /\ d.got = c.got
        /\ d.noted = c.noted \cup {Now("install").key}
    BY <1>3, <2>1, <2>3 DEF Context
  <2> QED
    BY <1>3, <2>2, <2>3, <2>4 DEF InstallMoves
<1>8. ~Dedupe("install")
  BY <1>1 DEF At, Dedupe, Doing
<1>9. CASE OpenPart("install") \/ MakesVenv("install")
  BY <1>9 DEF OpenPart, MakesVenv, jobVars, InstallMoves
<1>10. CASE ProbeFails("install") \/ VenvFails("install")
  <2>1. prog' = prog /\ ctx'["install"] = [c EXCEPT !.left = Tail(c.left)]
    BY <1>1, <1>2, <1>3, <1>10 DEF ProbeFails, VenvFails, NextPython
  <2>2. PICK d : d = ctx'["install"]
    OBVIOUS
  <2>3. d.want = c.want /\ d.asked = c.asked /\ d.got = c.got /\ d.noted = c.noted
    BY <1>3, <2>1, <2>2 DEF Context
  <2> QED
    BY <1>3, <2>1, <2>2, <2>3 DEF InstallMoves
<1> QED
  BY <1>4, <1>5, <1>6, <1>7, <1>8, <1>9, <1>10 DEF JobStep

\* It makes what it is to make, of the version it got, and leaves the rest that is launched.
LEMMA InstallMakes ==
  ASSUME InstallTypeOK, ProgramInv, DownloadInv, JobStep("install"), prog'["install"] # <<>>,
         NEW f \in Files, f \notin Archives, f \notin {"py3", "py"}
  PROVE  /\ place'[f] = place[f] \/ place'[f] = Whole(ctx["install"].got)
         /\ Makes(Now("install"), f) /\ prog'["install"] # prog["install"] => place'[f] = Whole(ctx["install"].got)
<1>1. At("install") /\ Now("install").do # "settle" /\ "install" \in Jobs
  BY JobAt, TheInstall
<1>2. place \in [Files -> Content] /\ prog \in [Jobs -> Seq(Step)]
  BY DEF InstallTypeOK
<1>3. ~ \/ AskFails("install") \/ VerifiedTooLate("install") \/ Unverifiable("install")
        \/ Broken("install") \/ RunFails("install") \/ PipGivesUp("install")
  BY <1>1, <1>2 DEF AskFails, VerifiedTooLate, Unverifiable, Broken, RunFails, PipGivesUp, Fails
<1>4. CASE Verified("install")
  <2>1. PICK h : h = Now("install").file
    OBVIOUS
  <2>2. /\ writer["install"] # "no"
        /\ place' = [place EXCEPT ![h] = [part[h] EXCEPT !.shared = @ \/ writer["install"] # "part"]]
    BY <1>4, <2>1 DEF Verified, Writing
  <2>3. writer["install"] = "part" /\ Now("install").do = "get" /\ h \in Jars /\ h \in Files
    BY <1>1, <2>1, <2>2, Streams DEF DownloadInv, FilesOf
  <2>4. part[h] = Whole(ctx["install"].got)
    BY <1>1, <2>1, <2>3 DEF DownloadInv
  <2>5. place' = [place EXCEPT ![h] = Whole(ctx["install"].got)]
    <3>1. [part[h] EXCEPT !.shared = @ \/ writer["install"] # "part"] = Whole(ctx["install"].got)
      <4>1. ASSUME NEW b \in Builds PROVE Whole(b).shared = FALSE /\ [Whole(b) EXCEPT !.shared = FALSE] = Whole(b)
        <5>1. PICK w \in Content : w = Whole(b)
          BY Contents
        <5>2. w.shared = FALSE
          BY <5>1 DEF Whole
        <5>3. [w EXCEPT !.shared = FALSE] = w
          BY <5>2 DEF Content
        <5> QED
          BY <5>1, <5>2, <5>3
      <4>2. (part[h].shared \/ writer["install"] # "part") = FALSE
        BY <1>1, <2>3, <2>4, <4>1 DEF At
      <4> QED
        BY <1>1, <2>3, <2>4, <4>1, <4>2 DEF At
    <3> QED
      BY <2>2, <3>1
  <2>6. Makes(Now("install"), f) => f = h
    BY <2>1, <2>3 DEF Makes
  <2> QED
    BY <1>2, <2>5, <2>6
<1>5. CASE RunDone("install")
  <2>1. Now("install").do = "run" /\ Now("install").from \in Archives
    BY <1>1, <1>5 DEF At, RunDone, Doing
  <2>2. place'[f] = IF f \in Now("install").outs THEN Whole(ctx["install"].got) ELSE place[f]
    BY <1>5, <2>1 DEF RunDone
  <2> QED
    BY <2>1, <2>2 DEF Makes
<1>6. CASE ~Verified("install") /\ ~RunDone("install")
  <2>1. place'[f] = place[f]
    <3>1. ~Unpacks("install") \/ place'[f] = place[f]
      <4>1. Now("install").do = "run" => place' = place
        BY <1>1, <1>3, <1>6 DEF JobStep, At, AskFails, Answered, ResolveVersion, NoteVariable, Dedupe, OpenPart,
           DropArchive, ProbeFails, MakesVenv, VenvFails, PipDone, Piping, Doing, diskVars
      <4> QED
        BY <4>1 DEF Unpacks
    <3>2. place' = place \/ Unpacks("install") \/ Drops("install") \/ Pips("install")
      BY <1>1, <1>3, <1>6, PlaceSteps
    <3> QED
      BY <1>2, <3>1, <3>2 DEF Drops, Pips
  <2>2. Now("install").do \in {"get", "run"} => prog'["install"] = prog["install"]
    BY <1>1, <1>3, <1>6 DEF JobStep, At, AskFails, Answered, ResolveVersion, NoteVariable, Dedupe, OpenPart,
       DropArchive, ProbeFails, MakesVenv, VenvFails, PipDone, Piping, Doing
  <2> QED
    BY <2>1, <2>2 DEF Makes
<1> QED
  BY <1>4, <1>5, <1>6

\* So what is ahead of the install, or done, stays so.
LEMMA InstallFetches ==
  ASSUME InstallTypeOK, ProgramInv, DownloadInv, FetchInv, JobStep("install") PROVE FetchInv'
<1>1. At("install") /\ Now("install").do # "settle" /\ "install" \in Jobs /\ JobRow("install")
  BY JobAt, JobRows, TheInstall
<1>2. PICK s \in Slugs : s = slug
  BY DEF InstallTypeOK
<1>3. PICK p : p = prog'["install"]
  OBVIOUS
<1>4. PICK d : d = ctx'["install"]
  OBVIOUS
<1>5. slug' = s /\ saved' = saved
  BY <1>1, <1>2 DEF JobRow
<1>6. SUFFICES ASSUME Sound', s # "endstone"
      PROVE  /\ \A f \in Launched(s) : Ahead(p, d.got, place'[f], f)
             /\ \A k \in NoteKeys(s) : Noting(p, d.noted, k)
             /\ Known(p, d.got, d.want)
             /\ "mcVersion" \in NoteKeys(s) => Agreed(d.asked, d.want, saved'.mcVersion)
  BY <1>3, <1>4, <1>5, FetchNext
<1>7. Sound /\ InstallMoves /\ prog'["install"] # <<>>
  BY <1>1, <1>6, InstallGoesOn DEF JobRow, Sound, At
<1>8. PICK q : q = prog["install"]
  OBVIOUS
<1>9. PICK c : c = ctx["install"]
  OBVIOUS
<1>10. /\ \A f \in Launched(s) : Ahead(q, c.got, place[f], f)
       /\ \A k \in NoteKeys(s) : Noting(q, c.noted, k)
       /\ Known(q, c.got, c.want)
       /\ "mcVersion" \in NoteKeys(s) => Agreed(c.asked, c.want, saved.mcVersion)
  BY <1>2, <1>6, <1>7, <1>8, <1>9, FetchNow
<1>11. PICK st : st = Now("install")
  OBVIOUS
<1>12. /\ d.want = c.want /\ d.asked = c.asked
       /\ \/ p = q /\ d.got = c.got /\ d.noted = c.noted
          \/ /\ p = Tail(q)
             /\ IF st.do = "resolve" THEN d.got \in Builds /\ d.want \in {"latest", d.got}
                ELSE d.got = c.got
             /\ d.noted = IF st.do = "note" THEN c.noted \cup {st.key} ELSE c.noted
  BY <1>3, <1>4, <1>7, <1>8, <1>9, <1>11 DEF InstallMoves
<1>13. q \in Seq(Step) /\ q # <<>> /\ st = Head(q) /\ st.do # "settle" /\ Shaped("install", q)
  BY <1>1, <1>8, <1>11 DEF At, Now, ProgramInv
<1>14. /\ \A f : Making(q, f) => Makes(st, f) \/ Making(Tail(q), f)
       /\ \A k : NotesAhead(q, k) => (st.do = "note" /\ st.key = k) \/ NotesAhead(Tail(q), k)
       /\ Resolved(q) => Resolved(Tail(q)) /\ st.do # "resolve"
       /\ Resolved(Tail(q)) => Resolved(q) \/ st.do = "resolve"
       /\ st.do \in {"get", "run"} => Resolved(Tail(q))
       /\ q # Tail(q)
  <2>1. q # Tail(q)
    BY <1>13
  <2> QED
    BY <1>13, <2>1, AheadTail
<1>15. ASSUME NEW f \in Launched(s) PROVE Ahead(p, d.got, place'[f], f)
  <2>1. f \in Files /\ f \notin Archives /\ f \notin {"py3", "py"}
    BY <1>6, <1>15, LaunchedFiles, FileKinds
  <2>2. /\ place'[f] = place[f] \/ place'[f] = Whole(c.got)
        /\ Makes(st, f) /\ p # q => place'[f] = Whole(c.got)
    BY <1>3, <1>7, <1>8, <1>9, <1>11, <2>1, InstallMakes
  <2>3. Making(q, f) \/ (place[f] = Whole(c.got) /\ Resolved(q))
    BY <1>10, <1>15 DEF Ahead
  <2>4. CASE p = q
    BY <1>12, <1>14, <2>2, <2>3, <2>4 DEF Ahead
  <2>5. CASE p # q /\ Making(q, f)
    <3>1. Makes(st, f) => st.do \in {"get", "run"}
      BY DEF Makes
    <3> QED
      BY <1>12, <1>14, <2>2, <2>5, <3>1 DEF Ahead
  <2>6. CASE p # q /\ place[f] = Whole(c.got) /\ Resolved(q)
    BY <1>12, <1>14, <2>2, <2>6 DEF Ahead
  <2> QED
    BY <2>3, <2>4, <2>5, <2>6
<1>16. \A k \in NoteKeys(s) : Noting(p, d.noted, k)
  BY <1>10, <1>12, <1>14 DEF Noting
<1>17. Known(p, d.got, d.want)
  BY <1>10, <1>12, <1>14 DEF Known
<1> QED
  BY <1>5, <1>10, <1>12, <1>15, <1>16, <1>17

\* What a request makes the install begin with.
LEMMA BeginsInstall ==
  ASSUME InstallTypeOK, NEW s \in Slugs, NEW want, NEW asked, Begin("install", Blueprint(s), want, asked)
  PROVE  LET p == prog'["install"]
             d == ctx'["install"] IN
         /\ Installs(s, p) /\ d.want = want /\ d.asked = asked /\ d.left = Pythons /\ d.noted = {}
<1>1. prog \in [Jobs -> Seq(Step)] /\ ctx \in [Jobs -> Context] /\ "install" \in Jobs
  BY TheInstall DEF InstallTypeOK
<1>2. prog'["install"] = Blueprint(s) \o <<settle>>
  BY <1>1 DEF Begin, settle
<1>3. Installs(s, prog'["install"])
  BY <1>2, BlueprintInstalls
<1>4. ctx'["install"] = [want |-> want, got |-> "none", noted |-> {}, asked |-> asked, left |-> Pythons]
  BY <1>1 DEF Begin
<1> QED
  BY <1>3, <1>4

\* It has everything ahead of it.
LEMMA BeginFetches ==
  ASSUME NEW s \in Slugs, s # "endstone", NEW p, Installs(s, p), NEW got, NEW want, NEW noted, NEW files
  PROVE  /\ \A f \in Launched(s) : Ahead(p, got, files[f], f)
         /\ \A k \in NoteKeys(s) : Noting(p, noted, k)
         /\ Known(p, got, want)
<1>1. ~Resolved(p) /\ \A f \in Launched(s) : Making(p, f)
  BY DEF Installs, Making
<1>2. \A k \in NoteKeys(s) : NotesAhead(p, k)
  BY DEF Installs, NotesAhead
<1> QED
  BY <1>1, <1>2 DEF Ahead, Noting, Known

\* The version it is asked for, or the row, agrees with the one it takes.
LEMMA RowAgrees ==
  ASSUME InstallTypeOK, NEW s \in Slugs, "mcVersion" \in NoteKeys(s), NEW ver \in Builds \cup {"none", "latest"}
  PROVE  LET v == Version(s, ver) IN
         /\ HasVersion(s) /\ Agreed(v, v, ver)
         /\ ver # "latest" => Agreed("none", v, ver)
         /\ ver \in Builds => Agreed(ver, v, ver)
  BY BuildKinds DEF NoteKeys, HasVersion, Version, Agreed

LEMMA RowFetches ==
  ASSUME InstallTypeOK, FetchInv, RowStep PROVE FetchInv'
<1>1. saved.mcVersion \in Builds \cup {"none", "latest"} /\ slug \in Slugs
  BY DEF InstallTypeOK
<1>2. ASSUME NEW s \in Slugs, slug' = s, NEW want, NEW asked, Begin("install", Blueprint(s), want, asked),
             loose' \in {{}, {"unnoted"}},
             loose' = {} /\ "mcVersion" \in NoteKeys(s) => Agreed(asked, want, saved'.mcVersion)
      PROVE  FetchInv'
  <2>1. PICK p : p = prog'["install"]
    OBVIOUS
  <2>2. PICK d : d = ctx'["install"]
    OBVIOUS
  <2>3. Installs(s, p) /\ d.want = want /\ d.asked = asked
    BY <1>2, <2>1, <2>2, BeginsInstall
  <2>4. Sound' => loose' = {}
    BY <1>2 DEF Sound
  <2> QED
    BY <1>2, <2>1, <2>2, <2>3, <2>4, BeginFetches, FetchNext
<1>3. CASE Reinstall
  <2>1. PICK s \in Slugs : s = slug
    BY <1>1
  <2>2. PICK v : v = Version(s, saved.mcVersion)
    OBVIOUS
  <2>3. /\ slug' = s /\ saved' = saved /\ loose' = {}
        /\ Begin("install", Blueprint(s), v, IF HasVersion(s) THEN v ELSE "none")
    BY <1>3, <2>1, <2>2 DEF Reinstall
  <2>4. "mcVersion" \in NoteKeys(s) => HasVersion(s) /\ Agreed(v, v, saved.mcVersion)
    BY <1>1, <2>2, RowAgrees
  <2> QED
    BY <1>2, <2>3, <2>4
<1>4. ASSUME NEW s \in Slugs, NEW v \in Builds \cup {"none"}, SwapSoftware(s, v) PROVE FetchInv'
  <2>1. PICK ver : /\ ver = IF v # "none" /\ HasVersion(s) THEN v
                            ELSE IF ~HasVersion(s) \/ (v = "none" /\ Category(s) # Category(slug))
                                 THEN "none" ELSE saved.mcVersion
                   /\ saved'.mcVersion = ver /\ slug' = s
                   /\ Begin("install", Blueprint(s), Version(s, ver), v)
                   /\ loose' = IF v = "none" /\ ver = "latest" THEN {"unnoted"} ELSE {}
    BY <1>4 DEF SwapSoftware
  <2>2. ver \in Builds \cup {"none", "latest"}
    BY <1>1, <2>1
  <2>3. ASSUME loose' = {}, "mcVersion" \in NoteKeys(s) PROVE Agreed(v, Version(s, ver), ver)
    <3>1. HasVersion(s) /\ (ver # "latest" => Agreed("none", Version(s, ver), ver)) /\ (ver \in Builds => Agreed(ver, Version(s, ver), ver))
      BY <2>2, <2>3, RowAgrees
    <3>2. v = "none" => ver # "latest"
      BY <2>1, <2>3
    <3>3. v # "none" => v = ver /\ ver \in Builds
      BY <2>1, <3>1
    <3> QED
      BY <3>1, <3>2, <3>3
  <2> QED
    BY <1>2, <2>1, <2>3
<1>5. ASSUME NEW v, EditVersion(v) PROVE FetchInv'
  BY <1>5 DEF EditVersion, FetchInv, Sound
<1>6. CASE InstallDone
  <2>1. prog'["install"] = <<>>
    BY <1>6, TheInstall DEF InstallDone, InstallTypeOK
  <2> QED
    BY <2>1 DEF FetchInv, Sound
<1>7. CASE Suspend \/ Unsuspend
  <2>1. PICK s \in Slugs : s = slug
    BY <1>1
  <2>2. slug' = s /\ prog' = prog /\ ctx' = ctx /\ place' = place /\ saved' = saved /\ (Sound' => Sound)
    BY <1>7, <2>1 DEF Suspend, Unsuspend, jobVars, diskVars, Sound
  <2>3. PICK p : p = prog["install"]
    OBVIOUS
  <2>4. PICK c : c = ctx["install"]
    OBVIOUS
  <2>5. Sound /\ s # "endstone" =>
          /\ \A f \in Launched(s) : Ahead(p, c.got, place[f], f)
          /\ \A k \in NoteKeys(s) : Noting(p, c.noted, k)
          /\ Known(p, c.got, c.want)
          /\ "mcVersion" \in NoteKeys(s) => Agreed(c.asked, c.want, saved.mcVersion)
    BY <2>1, <2>3, <2>4, FetchNow
  <2> QED
    BY <2>2, <2>3, <2>4, <2>5, FetchNext
<1> QED
  BY <1>3, <1>4, <1>5, <1>6, <1>7 DEF RowStep

LEMMA FetchStep ==
  ASSUME InstallTypeOK, ProgramInv, DownloadInv, FetchInv, [InstallNext]_installVars PROVE FetchInv'
<1>1. CASE Apart
  <2>1. PICK s \in Slugs : s = slug
    BY DEF InstallTypeOK
  <2>2. s # "endstone" => \A f \in Launched(s) : place'[f] = place[f]
    BY <1>1, LaunchedFiles, FileKinds DEF Apart
  <2>3. /\ slug' = s /\ saved' = saved /\ status' = status /\ loose' = loose
        /\ prog'["install"] = prog["install"] /\ ctx'["install"] = ctx["install"]
    BY <1>1, <2>1 DEF Apart
  <2>4. PICK p : p = prog["install"]
    OBVIOUS
  <2>5. PICK c : c = ctx["install"]
    OBVIOUS
  <2>6. Sound /\ s # "endstone" =>
          /\ \A f \in Launched(s) : Ahead(p, c.got, place[f], f)
          /\ \A k \in NoteKeys(s) : Noting(p, c.noted, k)
          /\ Known(p, c.got, c.want)
          /\ "mcVersion" \in NoteKeys(s) => Agreed(c.asked, c.want, saved.mcVersion)
    BY <2>1, <2>4, <2>5, FetchNow
  <2>7. Sound' => Sound
    BY <2>3 DEF Sound
  <2> QED
    BY <2>2, <2>3, <2>4, <2>5, <2>6, <2>7, FetchNext
<1>2. CASE PanelRestarts
  <2>1. prog'["install"] = <<>>
    BY <1>2, TheInstall DEF PanelRestarts
  <2> QED
    BY <2>1 DEF FetchInv, Sound
<1> QED
  BY <1>1, <1>2, ApartSteps, InstallFetches, RowFetches

-----------------------------------------------------------------------------
(* Environments *)

\* PipInv, before and after.
TriesPip(p, left, py3) == p = <<[do |-> "pip"], settle>> /\ (left # Pythons => py3 = Absent)
HasPip(p, py3, py) ==
  p = <<settle>> /\ \E b \in Builds : (IF py3 # Absent THEN py3 ELSE py) = Whole(b)

LEMMA PipNow ==
  PipInv <=> (Sound /\ slug = "endstone" =>
                \/ TriesPip(prog["install"], ctx["install"].left, place["py3"])
                \/ HasPip(prog["install"], place["py3"], place["py"]))
  BY DEF PipInv, TriesPip, HasPip, Interpreter, settle

LEMMA PipNext ==
  PipInv' <=> (Sound' /\ slug' = "endstone" =>
                \/ TriesPip(prog'["install"], ctx'["install"].left, place'["py3"])
                \/ HasPip(prog'["install"], place'["py3"], place'["py"]))
  BY DEF PipInv, TriesPip, HasPip, Interpreter, settle

LEMMA InstallPips ==
  ASSUME InstallTypeOK, ProgramInv, EnvInv, PipInv, JobStep("install") PROVE PipInv'
<1>1. At("install") /\ Now("install").do # "settle" /\ "install" \in Jobs /\ JobRow("install")
  BY JobAt, JobRows, TheInstall
<1>2. SUFFICES ASSUME Sound', slug' = "endstone"
      PROVE  \/ TriesPip(prog'["install"], ctx'["install"].left, place'["py3"])
             \/ HasPip(prog'["install"], place'["py3"], place'["py"])
  BY PipNext
<1>3. Sound /\ slug = "endstone" /\ prog'["install"] # <<>>
  BY <1>1, <1>2 DEF JobRow, Sound, At
<1>4. PICK p : p = prog["install"]
  OBVIOUS
<1>5. p = <<[do |-> "pip"], settle>> /\ (ctx["install"].left # Pythons => place["py3"] = Absent)
  <2>1. TriesPip(p, ctx["install"].left, place["py3"]) \/ HasPip(p, place["py3"], place["py"])
    BY <1>3, <1>4, PipNow
  <2>2. Head(p).do # "settle"
    BY <1>1, <1>4 DEF Now
  <2>3. ~HasPip(p, place["py3"], place["py"])
    BY <2>2 DEF HasPip, settle
  <2> QED
    BY <2>1, <2>3 DEF TriesPip
<1>6. Now("install").do = "pip" /\ Tail(p) = <<settle>>
  BY <1>4, <1>5 DEF Now
<1>7. ProbeFails("install") \/ MakesVenv("install") \/ VenvFails("install") \/ PipDone("install")
  <2>1. writer["install"] = "no"
    BY <1>1, <1>6, JobAt
  <2>2. ~AskFails("install") /\ ~Unverifiable("install") /\ ~PipGivesUp("install")
    BY <1>1, <1>3 DEF AskFails, Unverifiable, PipGivesUp, Fails, InstallTypeOK
  <2> QED
    BY <1>6, <2>1, <2>2 DEF JobStep, Answered, ResolveVersion, NoteVariable, Dedupe, OpenPart, Verified, VerifiedTooLate,
       Broken, RunDone, RunFails, DropArchive, Doing, Writing
<1>8. PICK c \in Context : c = ctx["install"]
  BY <1>1 DEF InstallTypeOK
<1>9. /\ Python("install") \in {"py3", "py"} /\ c.left # <<>>
      /\ c.left = Pythons => Python("install") = "py3"
      /\ c.left # Pythons => Python("install") = "py" /\ place["py3"] = Absent
  <2>1. c.left # <<>>
    BY <1>7, <1>8 DEF ProbeFails, MakesVenv, VenvFails, PipDone, Piping
  <2>2. \/ c.left = Pythons /\ Python("install") = "py3"
        \/ c.left = <<"py">> /\ Python("install") = "py"
    BY <1>1, <1>8, <2>1, PythonKinds
  <2>3. Pythons # <<"py">>
    BY DEF Pythons
  <2> QED
    BY <1>5, <1>8, <2>1, <2>2, <2>3
<1>10. PICK h : h = Python("install")
  OBVIOUS
<1>11. place \in [Files -> Content] /\ {"py3", "py"} \subseteq Files /\ prog \in [Jobs -> Seq(Step)]
  BY FileKinds DEF InstallTypeOK
<1>12. ASSUME prog' = prog, place'["py3"] = Absent PROVE TriesPip(prog'["install"], ctx'["install"].left, place'["py3"])
  BY <1>4, <1>5, <1>12 DEF TriesPip
<1>13. CASE ProbeFails("install")
  <2>1. place' = place /\ prog' = prog /\ loose' = IF place[h] = Absent THEN loose ELSE loose \cup {"probe"}
    BY <1>10, <1>13 DEF ProbeFails, NextPython
  <2>2. place[h] = Absent
    BY <1>2, <2>1 DEF Sound
  <2>3. place["py3"] = Absent
    BY <1>9, <1>10, <2>2
  <2> QED
    BY <1>12, <2>1, <2>3
<1>14. CASE VenvFails("install")
  <2>1. place' = [place EXCEPT ![h] = Absent] /\ prog' = prog
    BY <1>10, <1>14 DEF VenvFails, NextPython
  <2>2. place'["py3"] = Absent
    BY <1>9, <1>10, <1>11, <2>1
  <2> QED
    BY <1>12, <2>1, <2>2
<1>15. CASE MakesVenv("install")
  <2>1. place' = [place EXCEPT ![h] = Cut({})] /\ prog' = prog /\ ctx' = ctx
    BY <1>10, <1>15 DEF MakesVenv, jobVars
  <2>2. c.left # Pythons => place'["py3"] = Absent
    BY <1>9, <1>10, <1>11, <2>1
  <2> QED
    BY <1>4, <1>5, <1>8, <2>1, <2>2 DEF TriesPip
<1>16. CASE PipDone("install")
  <2>1. PICK w \in Content : w = place[h]
    BY <1>9, <1>10, <1>11
  <2>2. PICK v : v = IF w.of = {} THEN {Newest} ELSE w.of
    OBVIOUS
  <2>3. place' = [place EXCEPT ![h].of = v, ![h].cut = FALSE]
    BY <1>10, <1>16, <2>1, <2>2 DEF PipDone
  <2>4. prog'["install"] = <<settle>>
    BY <1>1, <1>4, <1>6, <1>11, <1>16 DEF PipDone, Go
  <2>5. PICK b \in Builds : v = {b} /\ w.shared = FALSE
    <3>1. w.shared = FALSE /\ (w.of = {} \/ \E b \in Builds : w.of = {b})
      <4>1. ~w.shared /\ (w.of = {} \/ \E b \in Builds : w.of = {b})
        BY <1>9, <1>10, <2>1 DEF EnvInv
      <4> QED
        BY <4>1, ContentFields
    <3> QED
      BY <2>2, <3>1, NewestBuild
  <2>6. place'[h] = Whole(b)
    <3>1. place'[h] = [[w EXCEPT !.of = {b}] EXCEPT !.cut = FALSE]
      BY <1>9, <1>10, <1>11, <2>1, <2>3, <2>5
    <3>2. [[w EXCEPT !.of = {b}] EXCEPT !.cut = FALSE] = Whole(b)
      <4>1. \A r \in Content, vs \in SUBSET Builds : LET y == [r EXCEPT !.of = vs] IN
              y \in Content /\ y.of = vs /\ y.shared = r.shared
        BY DEF Content
      <4>2. \A r \in Content, y \in Content : r.of = y.of /\ r.cut = y.cut /\ r.shared = y.shared => r = y
        BY DEF Content
      <4>3. PICK x : x = [w EXCEPT !.of = {b}]
        OBVIOUS
      <4>4. x \in Content /\ x.of = {b} /\ x.shared = FALSE
        <5>1. {b} \in SUBSET Builds
          OBVIOUS
        <5> QED
          BY <2>5, <4>1, <4>3, <5>1
      <4>6. PICK y : y = [x EXCEPT !.cut = FALSE]
        OBVIOUS
      <4>7. y \in Content /\ y.of = {b} /\ y.shared = FALSE /\ y.cut = FALSE
        BY <4>4, <4>6 DEF Content
      <4>5. Whole(b) \in Content /\ Whole(b).of = {b} /\ Whole(b).shared = FALSE /\ Whole(b).cut = FALSE
        BY Contents DEF Whole
      <4> QED
        BY <4>2, <4>3, <4>5, <4>6, <4>7
    <3> QED
      BY <3>1, <3>2
  <2>7. Whole(b) # Absent
    <3>1. {b} # {}
      OBVIOUS
    <3> QED
      BY <3>1 DEF Whole, Absent
  <2>8. h = "py" => place'["py3"] = Absent
    BY <1>9, <1>10, <1>11, <2>3
  <2>9. (IF place'["py3"] # Absent THEN place'["py3"] ELSE place'["py"]) = Whole(b)
    BY <1>9, <1>10, <2>6, <2>7, <2>8
  <2> QED
    BY <2>4, <2>9 DEF HasPip
<1> QED
  BY <1>7, <1>13, <1>14, <1>15, <1>16

LEMMA PipStep ==
  ASSUME InstallTypeOK, ProgramInv, DownloadInv, EnvInv, PipInv, [InstallNext]_installVars PROVE PipInv'
<1>1. CASE Apart
  <2>1. "py3" \in Files \ Addons /\ "py" \in Files \ Addons
    BY FileKinds
  <2>2. /\ place'["py3"] = place["py3"] /\ place'["py"] = place["py"]
        /\ prog'["install"] = prog["install"] /\ ctx'["install"] = ctx["install"]
        /\ slug' = slug /\ (Sound' => Sound)
    BY <1>1, <2>1 DEF Apart, Sound
  <2> QED
    BY <2>2, PipNow, PipNext
<1>2. CASE PanelRestarts
  <2>1. prog'["install"] = <<>>
    BY <1>2, TheInstall DEF PanelRestarts
  <2> QED
    BY <2>1, PipNext DEF Sound
<1>3. CASE RowStep
  <2>1. ASSUME NEW s \in Slugs, slug' = s, NEW want, NEW asked, Begin("install", Blueprint(s), want, asked)
        PROVE  PipInv'
    <3>1. Installs(s, prog'["install"]) /\ ctx'["install"].left = Pythons
      BY <2>1, BeginsInstall
    <3>2. s = "endstone" => TriesPip(prog'["install"], ctx'["install"].left, place'["py3"])
      BY <3>1 DEF Installs, TriesPip
    <3> QED
      BY <2>1, <3>2, PipNext
  <2>2. CASE Reinstall
    <3>1. \E s \in Slugs : s = slug' /\ \E want, asked : Begin("install", Blueprint(s), want, asked)
      BY <2>2 DEF Reinstall, InstallTypeOK
    <3> QED
      BY <2>1, <3>1
  <2>3. ASSUME NEW s \in Slugs, NEW v, SwapSoftware(s, v) PROVE PipInv'
    <3>1. slug' = s /\ \E want, asked : Begin("install", Blueprint(s), want, asked)
      BY <2>3 DEF SwapSoftware
    <3> QED
      BY <2>1, <3>1
  <2>4. ASSUME NEW v, EditVersion(v) PROVE ~Sound'
    BY <2>4 DEF EditVersion, Sound
  <2>5. CASE InstallDone
    <3>1. prog'["install"] = <<>>
      BY <2>5, TheInstall DEF InstallDone, InstallTypeOK
    <3> QED
      BY <3>1, PipNext DEF Sound
  <2>6. CASE Suspend \/ Unsuspend
    <3>1. prog' = prog /\ ctx' = ctx /\ place' = place /\ slug' = slug /\ (Sound' => Sound)
      BY <2>6 DEF Suspend, Unsuspend, jobVars, diskVars, Sound
    <3> QED
      BY <3>1, PipNow, PipNext
  <2> QED
    BY <1>3, <2>2, <2>3, <2>4, <2>5, <2>6, PipNext DEF RowStep
<1> QED
  BY <1>1, <1>2, <1>3, ApartSteps, InstallPips

-----------------------------------------------------------------------------
(* A ready server can run *)

\* The end of an install has done what was ahead.
LEMMA NothingAhead ==
  ASSUME NEW p \in Seq(Step), p # <<>>, Shaped("install", p), Head(p).do = "settle"
  PROVE  Resolved(p) /\ (\A f : ~Making(p, f)) /\ \A k : ~NotesAhead(p, k)
<1>1. Len(p) = 1 /\ p[1].do = "settle"
  <2>1. Len(p) \in Nat /\ Len(p) >= 1 /\ p[1] = Head(p)
    OBVIOUS
  <2>2. ~(1 \in 1..(Len(p) - 1))
    BY <2>1 DEF Shaped, Follows
  <2>3. Len(p) = 1
    <3>1. PICK n \in Nat : n = Len(p)
      BY <2>1
    <3>2. n >= 1 /\ ~(1 <= n - 1)
      <4>1. n >= 1 /\ ~(1 \in 1..(n - 1))
        BY <2>1, <2>2, <3>1
      <4> QED
        BY <4>1
    <3> QED
      BY <3>1, <3>2
  <2> QED
    BY <2>1, <2>3
<1>2. DOMAIN p = {1}
  BY <1>1
<1> QED
  BY <1>1, <1>2 DEF Resolved, Making, NotesAhead, Makes

\* What a finished install stores is the version it got.
LEMMA PersistsGot ==
  ASSUME InstallTypeOK, NEW s \in Slugs, s = slug, NEW c \in Context, c.got \in Builds, c.want \in {"latest", c.got},
         NoteKeys(s) \subseteq c.noted,
         "mcVersion" \in NoteKeys(s) => Agreed(c.asked, c.want, saved.mcVersion)
  PROVE  /\ "mcVersion" \in NoteKeys(s) => Persisted(c).mcVersion = c.got
         /\ "derived" \in NoteKeys(s) => Persisted(c).derived = c.got
<1>1. c.asked \in Builds \cup {"none", "latest"} /\ c.want \in Builds \cup {"none", "latest"}
  BY DEF Context
<1>2. "derived" \in NoteKeys(s) => Persisted(c).derived = c.got
  BY DEF Persisted
<1>3. ASSUME "mcVersion" \in NoteKeys(s) PROVE Persisted(c).mcVersion = c.got
  <2>1. HasVersion(slug) /\ "mcVersion" \in c.noted
    BY <1>3 DEF NoteKeys, HasVersion
  <2>2. PICK v : v = IF c.asked \notin {"none", "latest"} THEN c.asked ELSE c.got
    OBVIOUS
  <2>3. Persisted(c).mcVersion =
          IF v \in Builds /\ (c.asked \notin {"none", "latest"} \/ saved.mcVersion \in {"none", c.asked})
          THEN v ELSE saved.mcVersion
    BY <2>1, <2>2 DEF Persisted
  <2>4. CASE c.asked \in Builds
    BY <1>1, <1>3, <2>2, <2>3, <2>4, BuildKinds DEF Agreed
  <2>5. CASE c.asked \notin Builds
    BY <1>1, <1>3, <2>2, <2>3, <2>5, BuildKinds DEF Agreed
  <2> QED
    BY <2>4, <2>5
<1> QED
  BY <1>2, <1>3

\* SettledInv, before and after.
Rests == {"ready", "suspended"}
Runs(s, files, vals) ==
  \E b \in Builds :
    /\ IF s = "endstone" THEN (IF files["py3"] # Absent THEN files["py3"] ELSE files["py"]) = Whole(b)
       ELSE \A f \in Launched(s) : files[f] = Whole(b)
    /\ "mcVersion" \in NoteKeys(s) => vals.mcVersion = b
    /\ "derived" \in NoteKeys(s) => vals.derived = b

LEMMA RunsNow ==
  ASSUME NEW s \in Slugs, s = slug, SettledInv, status \in Rests, loose = {}
  PROVE  Runs(s, place, saved)
<1>1. PICK b \in Builds : (\A f \in Launched(s) : place[f] = Whole(b)) /\ Recorded(s) \subseteq {b}
  BY DEF SettledInv, Rests, Runnable
<1>2. /\ "mcVersion" \in NoteKeys(s) => saved.mcVersion = b
      /\ "derived" \in NoteKeys(s) => saved.derived = b
  BY <1>1 DEF Recorded, NoteKeys
<1>3. s = "endstone" => (IF place["py3"] # Absent THEN place["py3"] ELSE place["py"]) = Whole(b)
  BY <1>1 DEF Launched, Interpreter
<1> QED
  BY <1>1, <1>2, <1>3 DEF Runs

LEMMA RunsNext ==
  ASSUME NEW s \in Slugs, slug' = s, status' \in Rests /\ loose' = {} => Runs(s, place', saved')
  PROVE  SettledInv'
<1> SUFFICES ASSUME status' \in Rests, loose' = {} PROVE SettledInv'
  BY DEF SettledInv, Rests
<1>1. PICK b \in Builds :
        /\ IF s = "endstone" THEN (IF place'["py3"] # Absent THEN place'["py3"] ELSE place'["py"]) = Whole(b)
           ELSE \A f \in Launched(s) : place'[f] = Whole(b)
        /\ "mcVersion" \in NoteKeys(s) => saved'.mcVersion = b
        /\ "derived" \in NoteKeys(s) => saved'.derived = b
  BY DEF Runs
<1>2. CASE s = "endstone"
  <2>1. \A f \in Launched(slug)' : place'[f] = Whole(b)
    BY <1>1, <1>2 DEF Launched, Interpreter
  <2>2. Recorded(slug)' \subseteq {b}
    BY <1>2 DEF Recorded
  <2> QED
    BY <2>1, <2>2 DEF SettledInv, Runnable
<1>3. CASE s # "endstone"
  <2>1. Launched(slug)' = Launched(s)
    BY <1>3 DEF Launched
  <2>2. Recorded(slug)' \subseteq {b}
    BY <1>1 DEF Recorded, NoteKeys
  <2> QED
    BY <1>1, <1>3, <2>1, <2>2 DEF SettledInv, Runnable
<1> QED
  BY <1>2, <1>3

\* The end of the install makes the server ready.
LEMMA DoneRuns ==
  ASSUME InstallTypeOK, ProgramInv, FetchInv, PipInv, InstallDone PROVE SettledInv'
<1>1. PICK s \in Slugs : s = slug
  BY DEF InstallTypeOK
<1>2. slug' = s /\ place' = place /\ loose' = loose \ {"suspended"} /\ saved' = Persisted(ctx["install"])
  BY <1>1 DEF InstallDone, diskVars
<1>3. SUFFICES ASSUME loose \subseteq {"suspended"} PROVE Runs(s, place, Persisted(ctx["install"]))
  BY <1>2, RunsNext
<1>4. PICK p : p = prog["install"]
  OBVIOUS
<1>5. p \in Seq(Step) /\ p # <<>> /\ Shaped("install", p) /\ Head(p).do = "settle"
  BY <1>4, TheInstall DEF InstallDone, Doing, InstallTypeOK, ProgramInv, Now
<1>6. Sound
  BY <1>3, <1>4, <1>5 DEF Sound
<1>7. Resolved(p) /\ (\A f : ~Making(p, f)) /\ \A k : ~NotesAhead(p, k)
  BY <1>5, NothingAhead
<1>8. CASE s = "endstone"
  <2>1. TriesPip(p, ctx["install"].left, place["py3"]) \/ HasPip(p, place["py3"], place["py"])
    BY <1>1, <1>3, <1>4, <1>6, <1>8, PipNow
  <2>2. ~TriesPip(p, ctx["install"].left, place["py3"])
    BY <1>5 DEF TriesPip
  <2>3. PICK b \in Builds : (IF place["py3"] # Absent THEN place["py3"] ELSE place["py"]) = Whole(b)
    BY <2>1, <2>2 DEF HasPip
  <2>4. NoteKeys(s) = {}
    BY <1>8 DEF NoteKeys
  <2> QED
    BY <1>8, <2>3, <2>4 DEF Runs
<1>9. CASE s # "endstone"
  <2>1. PICK c \in Context : c = ctx["install"]
    BY TheInstall DEF InstallTypeOK
  <2>2. /\ \A f \in Launched(s) : Ahead(p, c.got, place[f], f)
        /\ \A k \in NoteKeys(s) : Noting(p, c.noted, k)
        /\ Known(p, c.got, c.want)
        /\ "mcVersion" \in NoteKeys(s) => Agreed(c.asked, c.want, saved.mcVersion)
    BY <1>1, <1>3, <1>4, <1>6, <1>9, <2>1, FetchNow
  <2>3. c.got \in Builds /\ c.want \in {"latest", c.got}
    BY <1>7, <2>2 DEF Known
  <2>4. NoteKeys(s) \subseteq c.noted
    BY <1>7, <2>2 DEF Noting
  <2>5. \A f \in Launched(s) : place[f] = Whole(c.got)
    BY <1>7, <2>2 DEF Ahead
  <2>6. /\ "mcVersion" \in NoteKeys(s) => Persisted(c).mcVersion = c.got
        /\ "derived" \in NoteKeys(s) => Persisted(c).derived = c.got
    BY <1>1, <2>2, <2>3, <2>4, PersistsGot
  <2> QED
    BY <1>9, <2>1, <2>3, <2>5, <2>6 DEF Runs
<1> QED
  BY <1>8, <1>9

LEMMA ReadyStep ==
  ASSUME InstallTypeOK, ProgramInv, DownloadInv, FetchInv, PipInv, SettledInv, [InstallNext]_installVars
  PROVE  SettledInv'
<1>1. PICK s \in Slugs : s = slug
  BY DEF InstallTypeOK
<1>2. ASSUME slug' = s, saved' = saved, loose' = loose, status' \in Rests => status \in Rests,
             \A f \in Files \ Addons : place'[f] = place[f]
      PROVE  SettledInv'
  <2>1. SUFFICES ASSUME status \in Rests, loose = {} PROVE Runs(s, place', saved')
    BY <1>2, RunsNext
  <2>2. Runs(s, place, saved)
    BY <1>1, <2>1, RunsNow
  <2>3. "py3" \in Files \ Addons /\ "py" \in Files \ Addons
    BY FileKinds
  <2>4. place'["py3"] = place["py3"] /\ place'["py"] = place["py"]
    BY <1>2, <2>1, <2>3
  <2>5. s # "endstone" => \A f \in Launched(s) : place'[f] = place[f]
    BY <1>2, <2>1, LaunchedFiles, FileKinds
  <2> QED
    BY <1>2, <2>2, <2>4, <2>5 DEF Runs
<1>3. CASE Apart
  BY <1>1, <1>2, <1>3 DEF Apart
<1>4. CASE JobStep("install")
  <2>1. prog["install"] # <<>> /\ JobRow("install")
    BY <1>4, JobAt, JobRows, TheInstall DEF At
  <2>2. status = "installing" \/ "suspended" \in loose
    BY <2>1 DEF InstallTypeOK
  <2>3. status' \notin Rests \/ loose' # {}
    BY <2>1, <2>2 DEF JobRow, Rests
  <2> QED
    BY <2>3 DEF SettledInv, Rests
<1>5. CASE RowStep
  <2>1. ASSUME Reinstall \/ (\E z \in Slugs, v \in Builds \cup {"none"} : SwapSoftware(z, v))
               \/ \E v \in Builds \cup {"latest"} : EditVersion(v)
        PROVE  status' \notin Rests \/ loose' # {}
    BY <2>1 DEF Reinstall, SwapSoftware, NewInstall, EditVersion, Rests
  <2>2. CASE Suspend
    <3>1. /\ loose' = {} => status = "ready" /\ loose' = loose
          /\ UNCHANGED <<slug, saved, place>>
      BY <2>2 DEF Suspend, diskVars
    <3>2. CASE loose' = {}
      BY <1>1, <1>2, <3>1, <3>2 DEF Rests
    <3> QED
      BY <3>2 DEF SettledInv
  <2>3. CASE Unsuspend
    BY <1>1, <1>2, <2>3 DEF Unsuspend, diskVars, Rests
  <2> QED
    BY <1>5, <2>1, <2>2, <2>3, DoneRuns DEF RowStep, SettledInv, Rests
<1>6. CASE PanelRestarts
  <2>1. /\ slug' = slug /\ saved' = saved /\ loose' = loose
        /\ status' = IF status = "installing" THEN "install_failed" ELSE status
        /\ place' = [f \in Files |-> IF Writers(f, "place") = {} THEN place[f] ELSE [place[f] EXCEPT !.cut = TRUE]]
    BY <1>6 DEF PanelRestarts
  <2>2. \A f \in Files \ Addons : Writers(f, "place") = {}
    BY Streams DEF Writers
  <2>3. \A f \in Files \ Addons : place'[f] = place[f]
    BY <2>1, <2>2
  <2> QED
    BY <1>1, <1>2, <2>1, <2>3 DEF Rests
<1> QED
  BY <1>3, <1>4, <1>5, <1>6, ApartSteps

-----------------------------------------------------------------------------
(* The invariant *)

LEMMA InstallInitInv == InstallInit => InstallInv
<1> SUFFICES ASSUME InstallInit PROVE InstallInv
  OBVIOUS
<1>1. PICK s \in Slugs : s = slug
  BY DEF InstallInit
<1>2. PICK p : p = Blueprint(s) \o <<settle>>
  OBVIOUS
<1>3. Installs(s, p)
  BY <1>2, BlueprintInstalls
<1>4. PICK d : d = [want |-> "latest", got |-> "none", noted |-> {},
                    asked |-> IF HasVersion(s) THEN "latest" ELSE "none", left |-> Pythons]
  OBVIOUS
<1>5. d \in Context /\ NoJob \in Context
  BY <1>4 DEF Context, NoJob, Pythons
<1>6. /\ prog = [j \in Jobs |-> IF j = "install" THEN p ELSE <<>>]
      /\ ctx = [j \in Jobs |-> IF j = "install" THEN d ELSE NoJob]
      /\ place = [f \in Files |-> Absent] /\ part = [f \in Files |-> Absent]
      /\ writer = [j \in Jobs |-> "no"] /\ untidy = {} /\ loose = {} /\ installs = 1 /\ memo = "none"
      /\ status = "installing" /\ released = 1 /\ saved = [mcVersion |-> "none", derived |-> "none"]
  BY <1>1, <1>2, <1>4 DEF InstallInit, settle
<1>7. /\ p \in Seq(Step) /\ p # <<>> /\ Shaped("install", p) /\ <<>> \in Seq(Step)
      /\ Versioned("none", p) /\ d.want = "latest" /\ d.got = "none"
  BY <1>3, <1>4 DEF Installs, Versioned
<1>8. prog["install"] = p /\ ctx["install"] = d /\ "install" \in Jobs
  BY <1>6, TheInstall
<1>9. InstallTypeOK
  <2>1. prog \in [Jobs -> Seq(Step)] /\ ctx \in [Jobs -> Context]
    BY <1>5, <1>6, <1>7
  <2>2. place \in [Files -> Content] /\ part \in [Files -> Content]
    BY <1>6, Contents
  <2>3. 1 \in DOMAIN Releases /\ 1 \in 1..MaxInstalls
    BY InstallAssumption
  <2>4. saved \in [mcVersion : Builds \cup {"none", "latest"}, derived : Builds \cup {"none"}]
    BY <1>6
  <2>5. writer \in [Jobs -> {"no", "part", "place", "gone"}]
    BY <1>6
  <2>6. \A j \in Jobs : writer[j] = "no"
    BY <1>6
  <2>7. /\ slug \in Slugs /\ memo \in Builds \cup {"none"} /\ untidy \subseteq {"part", "place"} \X Files
        /\ loose \subseteq {"edited", "unnoted", "probe", "suspended"} /\ installs \in 1..MaxInstalls
        /\ released \in DOMAIN Releases /\ status \in {"installing", "ready", "install_failed", "suspended"}
        /\ status = "installing" /\ prog["install"] # <<>>
    BY <1>1, <1>6, <1>7, <1>8, <2>3
  <2> QED
    BY <2>1, <2>2, <2>4, <2>5, <2>6, <2>7 DEF InstallTypeOK
<1>10. ProgramInv
  <2>1. \A j \in Jobs : prog[j] # <<>> => j = "install"
    BY <1>6
  <2> QED
    BY <1>7, <1>8, <2>1 DEF ProgramInv
<1>11. DownloadInv
  <2>1. \A f \in Jars : part[f] = Absent
    BY <1>6, FileKinds
  <2>2. (\A j \in Jobs : writer[j] = "no") /\ writer["install"] = "no"
    BY <1>6, <1>8
  <2>3. \A f \in Jars : ~part[f].shared
    BY <2>1 DEF Absent
  <2> QED
    BY <2>2, <2>3 DEF DownloadInv
<1>12. LeftInv /\ FetchedWhole
  BY <1>6, FileKinds DEF LeftInv, FetchedWhole
<1>13. EnvInv
  <2>1. place["py3"] = Absent /\ place["py"] = Absent
    BY <1>6, FileKinds
  <2> QED
    BY <2>1 DEF EnvInv, Absent
<1>14. FetchInv
  <2>1. \A k \in NoteKeys(s) : \E i \in DOMAIN p : p[i].do = "note" /\ p[i].key = k
    BY <1>3 DEF Installs
  <2>2. s # "endstone" => ~Resolved(p) /\ \A f \in Launched(s) : \E i \in DOMAIN p : Makes(p[i], f)
    BY <1>3 DEF Installs
  <2>3. Agree(d)
    BY <1>4, <1>6, BuildKinds DEF Agree
  <2> QED
    BY <1>1, <1>8, <2>1, <2>2, <2>3 DEF FetchInv
<1>15. PipInv
  <2>1. s = "endstone" => TriesPip(p, d.left, place["py3"])
    BY <1>3, <1>4 DEF Installs, TriesPip
  <2> QED
    BY <1>1, <1>8, <2>1, PipNow
<1>16. SettledInv
  BY <1>6 DEF SettledInv
<1> QED
  BY <1>9, <1>10, <1>11, <1>12, <1>13, <1>14, <1>15, <1>16, WholeFiles DEF InstallInv

LEMMA WholeIff == InstallTypeOK /\ DownloadInv => (InPlaceIsWhole <=> FetchedWhole)
  BY WholeFiles

LEMMA InstallInvStep == InstallInv /\ [InstallNext]_installVars => InstallInv'
<1> SUFFICES ASSUME InstallInv, [InstallNext]_installVars PROVE InstallInv'
  OBVIOUS
<1>1. InstallTypeOK /\ ProgramInv /\ DownloadInv /\ LeftInv /\ EnvInv /\ FetchedWhole /\ FetchInv /\ PipInv /\ SettledInv
  BY WholeFiles DEF InstallInv
<1>2. InstallTypeOK' /\ ProgramInv'
  BY <1>1, InstallTypeStep
<1>3. DownloadInv'
  BY <1>1, DownloadStep
<1>4. LeftInv'
  <2>1. LeftParts /\ LeftArchives
    BY <1>1, LeftOvers
  <2>2. LeftParts' /\ LeftArchives'
    BY <1>1, <2>1, LeftPartsStep, LeftArchivesStep
  <2>3. (LeftInv <=> LeftParts /\ LeftArchives)'
    BY LeftOvers, PTL
  <2> QED
    BY <2>2, <2>3
<1>5. EnvInv'
  BY <1>1, EnvStep
<1>6. InPlaceIsWhole'
  <2>1. FetchedWhole'
    BY <1>1, WholeStep
  <2>2. (InstallTypeOK /\ DownloadInv => (InPlaceIsWhole <=> FetchedWhole))'
    BY WholeIff, PTL
  <2> QED
    BY <1>2, <1>3, <2>1, <2>2
<1>7. FetchInv' /\ PipInv' /\ SettledInv'
  BY <1>1, FetchStep, PipStep, ReadyStep
<1> QED
  BY <1>2, <1>3, <1>4, <1>5, <1>6, <1>7 DEF InstallInv

-----------------------------------------------------------------------------
(* The theorems *)

\* Programs, streams, files, environments and the row: one inductive invariant, for
\* every set of blueprints, versions and add-ons, and any number of add-on requests.
THEOREM InstallInvariant == InstallSpec => []InstallInv
  BY InstallInitInv, InstallInvStep, PTL DEF InstallSpec

\* Every variable of the installs keeps its type: a stream is open in a download only,
\* and the server is installing as long as its install runs, unless it was suspended since.
THEOREM InstallTypeCorrect == InstallSpec => []InstallTypeOK
<1>1. InstallInv => InstallTypeOK
  BY DEF InstallInv
<1> QED
  BY <1>1, InstallInvariant, PTL

\* What downloadFile() puts in place is the whole of one version and written by nobody,
\* unless two downloads of it overlapped.
THEOREM InPlaceIsWholeHolds == InstallSpec => []InPlaceIsWhole
<1>1. InstallInv => InPlaceIsWhole
  BY DEF InstallInv
<1> QED
  BY <1>1, InstallInvariant, PTL

\* A ready server has what it launches, whole and of the version that its variables
\* name (runInstallOps, persistInstalledVersion), unless the end of a suspension made
\* it ready during an install or after one that failed.
THEOREM ReadyIsRunnableHolds == InstallSpec => []ReadyIsRunnable
<1>1. InstallInv => ReadyIsRunnable
  BY DEF InstallInv, SettledInv, ReadyIsRunnable
<1> QED
  BY <1>1, InstallInvariant, PTL

LEMMA TidyFromInv == InstallInv => TidyWhenIdle
<1> SUFFICES ASSUME InstallInv, \A j \in Jobs : prog[j] = <<>>
             PROVE  /\ \A f \in Fetched : part[f] # Absent => <<"part", f>> \in untidy
                    /\ \A f \in Archives : place[f] # Absent => <<"place", f>> \in untidy
  BY DEF TidyWhenIdle
<1>1. LeftParts /\ LeftArchives
  BY LeftOvers DEF InstallInv
<1>2. \A f : Writers(f, "part") = {}
  BY DEF Writers
<1>3. \A f : ~AtArchive(f)
  BY TheInstall DEF AtArchive
<1>4. Fetched \subseteq Files
  BY FileKinds
<1> QED
  BY <1>1, <1>2, <1>3, <1>4 DEF LeftParts, LeftArchives

\* When nothing runs, no part file, installer or archive is left without a reason.
THEOREM TidyWhenIdleHolds == InstallSpec => []TidyWhenIdle
  BY InstallInvariant, TidyFromInv, PTL

-----------------------------------------------------------------------------
(* The six modules together *)

PartsInv == AllocIndInv /\ TunnelIndInv /\ InstallInv /\ BrowserInv /\ ConsoleInv /\ StatsIndInv

LEMMA PartsStart == PartsInit => PartsInv
  BY AllocInitInv, TunnelInitInv, InstallInitInv, BrowserInitInv, ConsoleInitInv, StatsStart DEF PartsInit, PartsInv

\* A step of the composition is one of each module, or none.
LEMMA PartsSteps ==
  ASSUME [PartsNext]_partsVars
  PROVE  /\ [AllocNext]_allocVars /\ [TunnelNext]_tunnelVars /\ [InstallNext]_installVars
         /\ [BrowserNext]_browserVars /\ [ConsoleNext]_consoleVars /\ [StatsNext]_statsVars
  BY DEF PartsNext, partsVars

LEMMA PartsStep == PartsInv /\ [PartsNext]_partsVars => PartsInv'
  BY PartsSteps, AllocStep, TunnelStep, InstallInvStep, BrowserStep, ConsoleStep, StatsStep DEF PartsInv

\* Side by side, the modules keep their invariants.
THEOREM PartsInvariant == PartsSpec => []PartsInv
  BY PartsStart, PartsStep, PTL DEF PartsSpec

LEMMA PartsTyped == PartsInv /\ subject \in {"ports", "tunnels", "install", "browser", "console", "stats"} => PartsTypeOK
<1>1. PartsInv => AllocTypeOK /\ TunnelTypeOK /\ InstallTypeOK /\ BrowserTypeOK /\ ConsoleTypeOK /\ StatsTypeOK
  BY StatsTyped DEF PartsInv, AllocIndInv, TunnelIndInv, InstallInv, BrowserInv, ConsoleInv, StatsIndInv
<1> QED
  BY <1>1 DEF PartsTypeOK

\* The variables of whichever module steps keep their types.
THEOREM PartsTypeCorrect == PartsSpec => []PartsTypeOK
<1> DEFINE Kinds6 == subject \in {"ports", "tunnels", "install", "browser", "console", "stats"}
<1>1. PartsInit => Kinds6
  BY DEF PartsInit
<1>2. Kinds6 /\ [PartsNext]_partsVars => Kinds6'
  BY DEF PartsNext, partsVars
<1>3. PartsSpec => []Kinds6
  BY <1>1, <1>2, PTL DEF PartsSpec
<1> QED
  BY <1>3, PartsInvariant, PartsTyped, PTL
=============================================================================
