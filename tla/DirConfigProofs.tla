--------------------------- MODULE DirConfigProofs ---------------------------
(***************************************************************************)
(* Theorems about DirConfig: for every set of arguments, any number of     *)
(* sections and directives and every size of the integer types, the        *)
(* configuration of a request is the one that its sections describe, and   *)
(* the order in which they are merged does not matter.                     *)
(***************************************************************************)
EXTENDS DirConfig, TLAPS

-----------------------------------------------------------------------------
(* The merge.                                                              *)

\* The inner of two merges may be done first, whatever the sections have.
LEMMA MergeAssociative ==
  \A a, b, c : Merge(Merge(a, b), c) = Merge(a, Merge(b, c))
<1> SUFFICES ASSUME NEW a, NEW b, NEW c
             PROVE  Merge(Merge(a, b), c) = Merge(a, Merge(b, c))
  OBVIOUS
<1>1. ASSUME NEW o \in Option, o # "root_type"
      PROVE  MergeOption(Merge(a, b), c, o) = MergeOption(a, Merge(b, c), o)
  BY <1>1 DEF Merge, MergeOption
<1>2. "root" \in Option /\ "root" # "root_type"
  BY DEF Option
<1>3. ASSUME NEW o \in Option
      PROVE  Merge(Merge(a, b), c)[o] = Merge(a, Merge(b, c))[o]
  BY <1>1, <1>2 DEF Merge
<1> QED
  BY <1>3 DEF Merge

\* However httpd groups the sections, the configuration is the same.
THEOREM GroupingNeverMatters == Spec => []GroupingDoesNotMatter
<1>1. GroupingDoesNotMatter
  BY MergeAssociative DEF GroupingDoesNotMatter
<1> QED
  BY <1>1, PTL

-----------------------------------------------------------------------------
(* What is known of the sections and of the configuration merged so far.   *)

Text == Accepted \cup Host \cup UserName \cup Password \cup RootPath
          \cup {"Zone", "Home", "User", ""}

OptionValue == {NULL} \cup Text \cup Int

Meaning == {NotAsked} \cup UNION {[OptionsOf(d) -> OptionValue] : d \in Directive}

Buffers == {"TxBuffer", "RxBuffer"}

\* An option has the value that was asked for, unless it is a buffer size that
\* was too large and not noticed.
Meets(d, value, meant) == value = meant \/ (d \in Buffers /\ meant >= SizeLimit)

\* The values that an option of a number may have.
Fits(o, value) ==
  /\ o = "port" => value \in 0 .. MaxPort
  /\ o = "root_type" => value \in 0 .. 4
  /\ o = "ttl" => value \in 0 .. MaxTtl
  /\ o \in {"tx", "rx"} => value \in 0 .. SizeLimit - 1

\* The type of a root is that of its name.
RootFits(c) ==
  c["root_type"] = IF c["root"] = NULL THEN 0 ELSE RootType(c["root"])

\* A directive that was given has set all of its options, one that was not has
\* set none.
Follows(d, c, meant) ==
  \A o \in OptionsOf(d) :
    /\ meant = NotAsked => c[o] = Unset(o)
    /\ meant # NotAsked => c[o] # Unset(o) /\ Meets(d, c[o], meant[o])

SectionOK(c) == RootFits(c) /\ \A o \in Option : Fits(o, c[o])

\* conf has of option o what the innermost of the first n sections that sets
\* it has.
FromNearest(o, n) ==
  \/ /\ \A j \in 1 .. n : sections[j][o] = Unset(o)
     /\ conf[o] = Unset(o)
  \/ \E i \in 1 .. n : /\ sections[i][o] # Unset(o) /\ conf[o] = sections[i][o]
                       /\ \A j \in 1 .. n : j > i => sections[j][o] = Unset(o)

Shape ==
  /\ phase \in {"reading", "refused", "merging", "fault"}
  /\ sections \in Seq([Option -> OptionValue])
  /\ asked \in Seq([Directive -> Meaning])
  /\ Len(sections) \in Nat \ {0} /\ Len(asked) = Len(sections)
  /\ conf \in [Option -> OptionValue]
  /\ merged \in 0 .. Last

Sections == \A i \in 1 .. Last : /\ SectionOK(sections[i])
                                 /\ \A d \in Directive :
                                      Follows(d, sections[i], asked[i][d])

Merging ==
  phase = "merging" =>
    /\ merged \in 1 .. Last
    /\ RootFits(conf)
    /\ \A o \in Option : FromNearest(o, merged)

IInv == Shape /\ Sections /\ Merging

-----------------------------------------------------------------------------
(* Options and directives.                                                 *)

\* No two directives set the same option.
LEMMA OptionFacts ==
  /\ \A d \in Directive : OptionsOf(d) \subseteq Option
  /\ \A d, e \in Directive : \A o : o \in OptionsOf(d) /\ o \in OptionsOf(e) => d = e
  /\ OptionsOf("ExposedRoot") = {"root", "root_type"}
  /\ \A d \in Directive : "root" \in OptionsOf(d) => d = "ExposedRoot"
  /\ \A d \in Directive : "root_type" \in OptionsOf(d) => d = "ExposedRoot"
<1>1. \A d \in Directive : OptionsOf(d) \subseteq Option
  BY DEF OptionsOf, Directive, Option, Number
<1>2. ASSUME NEW d \in Directive, NEW e \in Directive, NEW o,
             o \in OptionsOf(d), o \in OptionsOf(e)
      PROVE  d = e
  <2>1. CASE d \in Plain
    <3>1. o = d
      BY <1>2, <2>1, NameAssumption DEF OptionsOf, Directive
    <3> QED
      BY <1>2, <2>1, <3>1, NameAssumption DEF OptionsOf, Directive
  <2>2. CASE e \in Plain
    <3>1. o = e
      BY <1>2, <2>2, NameAssumption DEF OptionsOf, Directive
    <3> QED
      BY <1>2, <2>2, <3>1, NameAssumption DEF OptionsOf, Directive
  <2>3. CASE d \notin Plain /\ e \notin Plain
    BY <1>2, <2>3 DEF OptionsOf, Directive
  <2> QED
    BY <2>1, <2>2, <2>3
<1>3. OptionsOf("ExposedRoot") = {"root", "root_type"}
  BY DEF OptionsOf
<1>4. "ExposedRoot" \in Directive
  BY DEF Directive
<1> QED
  BY <1>1, <1>2, <1>3, <1>4

\* An option that is given a text is set, and a directive that was given asks for
\* something.
LEMMA TextIsSet ==
  /\ NULL \notin Text
  /\ NotAsked \notin UNION {[OptionsOf(d) -> OptionValue] : d \in Directive}
<1>1. NULL \notin Text
  BY TextAssumption DEF Text
<1>2. ASSUME NEW d \in Directive PROVE NotAsked \notin [OptionsOf(d) -> OptionValue]
  <2>1. OptionsOf(d) # {}
    BY DEF OptionsOf, Directive
  <2> QED
    BY <2>1 DEF NotAsked
<1> QED
  BY <1>1, <1>2

-----------------------------------------------------------------------------
(* A directive.                                                            *)

\* What a directive that is accepted must hand to Sets.
GoodDirective(d, opts, meant) ==
  /\ opts \in [OptionsOf(d) -> OptionValue]
  /\ meant \in Meaning
  /\ Follows(d, opts, meant)
  /\ \A o \in OptionsOf(d) : Fits(o, opts[o])
  /\ d = "ExposedRoot" => RootFits(opts)

\* A section in which a directive has been accepted is still one whose options are
\* those that its directives ask for.
LEMMA SectionAfter ==
  ASSUME NEW c \in [Option -> OptionValue], NEW d \in Directive, NEW opts,
         NEW meant, GoodDirective(d, opts, meant), SectionOK(c), NEW e
  PROVE  LET c2 == [o \in Option |-> IF o \in DOMAIN opts THEN opts[o] ELSE c[o]]
             e2 == [e EXCEPT ![d] = meant]
         IN  /\ c2 \in [Option -> OptionValue]
             /\ SectionOK(c2)
             /\ e \in [Directive -> Meaning] => e2 \in [Directive -> Meaning]
             /\ e \in [Directive -> Meaning]
                /\ (\A x \in Directive : Follows(x, c, e[x])) =>
                  \A x \in Directive : Follows(x, c2, e2[x])
<1> DEFINE c2 == [o \in Option |-> IF o \in DOMAIN opts THEN opts[o] ELSE c[o]]
           e2 == [e EXCEPT ![d] = meant]
<1>1. DOMAIN opts = OptionsOf(d) /\ OptionsOf(d) \subseteq Option
  BY OptionFacts DEF GoodDirective
<1>2. \A o \in OptionsOf(d) : c2[o] = opts[o]
  BY <1>1
<1>3. \A o \in Option : o \notin OptionsOf(d) => c2[o] = c[o]
  BY <1>1
<1>4. c2 \in [Option -> OptionValue]
  BY <1>1 DEF GoodDirective
<1>5. RootFits(c2)
  <2>1. "root" \in Option /\ "root_type" \in Option
    BY DEF Option, Number
  <2>2. CASE d = "ExposedRoot"
    <3>1. c2["root"] = opts["root"] /\ c2["root_type"] = opts["root_type"]
      BY <1>2, <2>2, OptionFacts
    <3> QED
      BY <3>1, <2>2 DEF GoodDirective, RootFits
  <2>3. CASE d # "ExposedRoot"
    <3>1. "root" \notin OptionsOf(d) /\ "root_type" \notin OptionsOf(d)
      BY <2>3, OptionFacts
    <3>2. c2["root"] = c["root"] /\ c2["root_type"] = c["root_type"]
      BY <1>3, <2>1, <3>1
    <3> QED
      BY <3>2 DEF SectionOK, RootFits
  <2> QED
    BY <2>2, <2>3
<1>6. \A o \in Option : Fits(o, c2[o])
  BY <1>1, <1>2, <1>3 DEF GoodDirective, SectionOK
<1>7. SectionOK(c2)
  BY <1>5, <1>6 DEF SectionOK
<1>8. e \in [Directive -> Meaning] => e2 \in [Directive -> Meaning]
  BY DEF GoodDirective
<1>9. ASSUME e \in [Directive -> Meaning], \A x \in Directive : Follows(x, c, e[x]),
             NEW x \in Directive
      PROVE  Follows(x, c2, e2[x])
  <2>1. CASE x = d
    <3>1. e2[x] = meant
      BY <1>9, <2>1
    <3> HIDE DEF c2, e2
    <3> QED
      BY <1>2, <2>1, <3>1 DEF GoodDirective, Follows
  <2>2. CASE x # d
    <3>1. e2[x] = e[x]
      BY <1>9, <2>2
    <3>2. \A o \in OptionsOf(x) : o \in Option /\ o \notin OptionsOf(d)
      BY <2>2, OptionFacts
    <3>3. \A o \in OptionsOf(x) : c2[o] = c[o]
      BY <1>3, <3>2
    <3>4. Follows(x, c, e[x])
      BY <1>9
    <3> HIDE DEF c2, e2
    <3> QED
      BY <3>1, <3>3, <3>4 DEF Follows
  <2> QED
    BY <2>1, <2>2
<1> QED
  BY <1>4, <1>7, <1>8, <1>9

\* An accepted directive keeps the invariant if what it sets is what it asks for.
LEMMA SetsKeeps ==
  ASSUME IInv, NEW d \in Directive, NEW opts, NEW meant,
         GoodDirective(d, opts, meant), Sets(d, opts, meant)
  PROVE  IInv'
<1> DEFINE c2 == [o \in Option |-> IF o \in DOMAIN opts THEN opts[o]
                                   ELSE sections[Last][o]]
           e2 == [asked[Last] EXCEPT ![d] = meant]
<1>1. /\ Last \in 1 .. Len(sections) /\ Last \in 1 .. Len(asked)
      /\ sections[Last] \in [Option -> OptionValue]
      /\ asked[Last] \in [Directive -> Meaning]
  BY DEF IInv, Shape, Last
<1>2. /\ SectionOK(sections[Last])
      /\ \A x \in Directive : Follows(x, sections[Last], asked[Last][x])
  BY <1>1 DEF IInv, Sections, Last
<1>3. /\ c2 \in [Option -> OptionValue] /\ SectionOK(c2)
      /\ e2 \in [Directive -> Meaning]
      /\ \A x \in Directive : Follows(x, c2, e2[x])
  BY <1>1, <1>2, SectionAfter
<1>4. sections' = [sections EXCEPT ![Last] = c2]
  BY DEF Sets
<1>5. asked' = [asked EXCEPT ![Last] = e2]
  BY <1>1 DEF Sets
<1>6. phase' = phase /\ conf' = conf /\ merged' = merged /\ phase = "reading"
  BY DEF Sets, Reading
<1> HIDE DEF c2, e2
<1>7. Shape'
  BY <1>1, <1>3, <1>4, <1>5, <1>6 DEF IInv, Shape, Last
<1>8. Last' = Last
  BY <1>4 DEF IInv, Shape, Last
<1>9. Sections'
  <2> SUFFICES ASSUME NEW i \in 1 .. Last
               PROVE  (SectionOK(sections[i]) /\ \A x \in Directive :
                         Follows(x, sections[i], asked[i][x]))'
    BY <1>8 DEF Sections
  <2>1. CASE i = Last
    <3>1. sections'[i] = c2 /\ asked'[i] = e2
      BY <2>1, <1>1, <1>4, <1>5 DEF IInv, Shape
    <3> QED
      BY <3>1, <1>3 DEF SectionOK, Follows, RootFits
  <2>2. CASE i # Last
    <3>1. sections'[i] = sections[i] /\ asked'[i] = asked[i]
      BY <2>2, <1>1, <1>4, <1>5 DEF IInv, Shape, Last
    <3>2. SectionOK(sections[i]) /\ \A x \in Directive : Follows(x, sections[i], asked[i][x])
      BY DEF IInv, Sections
    <3> QED
      BY <3>1, <3>2 DEF SectionOK, Follows, RootFits
  <2> QED
    BY <2>1, <2>2
<1>10. Merging'
  BY <1>6 DEF Merging
<1> QED
  BY <1>7, <1>9, <1>10 DEF IInv

\* So does one that is refused.
LEMMA RefusesKeeps == ASSUME IInv, Refuses PROVE IInv'
<1>1. Shape'
  BY DEF IInv, Shape, Refuses, Last
<1>2. Sections'
  BY DEF IInv, Sections, Refuses, Last, SectionOK, RootFits, Follows
<1>3. Merging'
  BY DEF Refuses, Merging
<1> QED
  BY <1>1, <1>2, <1>3 DEF IInv

\* Which numbers the options hold.
LEMMA FitsFacts ==
  /\ \A v : Fits("host", v) /\ Fits("username", v) /\ Fits("password", v) /\ Fits("root", v)
  /\ \A v \in 0 .. MaxPort : Fits("port", v)
  /\ \A v \in 0 .. 4 : Fits("root_type", v)
  /\ \A v \in 0 .. MaxTtl : Fits("ttl", v)
<1>1. \A v : Fits("host", v)
  BY DEF Fits
<1>2. \A v : Fits("username", v)
  BY DEF Fits
<1>3. \A v : Fits("password", v)
  BY DEF Fits
<1>4. \A v : Fits("root", v)
  BY DEF Fits
<1>5. \A v \in 0 .. MaxPort : Fits("port", v)
  BY DEF Fits
<1>6. \A v \in 0 .. 4 : Fits("root_type", v)
  BY DEF Fits
<1>7. \A v \in 0 .. MaxTtl : Fits("ttl", v)
  BY DEF Fits
<1> QED
  BY <1>1, <1>2, <1>3, <1>4, <1>5, <1>6, <1>7

\* A port that is in range is not changed by its type.
LEMMA PortKept ==
  ASSUME NEW port \in Port, PortInRange(port)
  PROVE  MaxPort \in Nat /\ port \in 1 .. MaxPort /\ port % (MaxPort + 1) = port
<1>1. port \in Int /\ 1 <= port /\ port <= MaxPort
  BY NumberAssumption DEF PortInRange
<1>2. MaxPort \in Nat
  BY DEF MaxPort
<1>3. port \in 0 .. MaxPort /\ port < MaxPort + 1
  BY <1>1, <1>2
<1>4. \A m, n \in Nat : n < m => n % m = n
  OBVIOUS
<1> QED
  BY <1>1, <1>2, <1>3, <1>4

\* What each directive sets is what it asks for, and fits its option.
LEMMA PlainGood ==
  ASSUME NEW d \in Plain, NEW text \in Accepted
  PROVE  GoodDirective(d, [o \in {d} |-> text], [o \in {d} |-> text])
<1>1. OptionsOf(d) = {d} /\ d \in Directive /\ d # "ExposedRoot" /\ d \notin Number
  BY NameAssumption DEF OptionsOf, Directive, Number
<1>2. text # NULL /\ text \in OptionValue
  BY TextAssumption DEF OptionValue, Text
<1> DEFINE opts == [o \in {d} |-> text]
<1>3. opts \in [OptionsOf(d) -> OptionValue] /\ opts \in Meaning
  BY <1>1, <1>2 DEF Meaning
<1>4. opts # NotAsked
  BY <1>1, <1>3, TextIsSet
<1>5. Follows(d, opts, opts)
  BY <1>1, <1>2, <1>4 DEF Follows, Unset, Meets
<1>6. \A o \in OptionsOf(d) : Fits(o, opts[o])
  BY <1>1 DEF Fits, Number
<1> QED
  BY <1>1, <1>3, <1>5, <1>6 DEF GoodDirective

\* DavrodsServer: a port that is accepted is not changed by its type.
LEMMA ServerGood ==
  ASSUME NEW host \in Host, NEW port \in Port, PortInRange(port)
  PROVE  GoodDirective("Server", [host |-> host, port |-> port % (MaxPort + 1)],
                       [host |-> host, port |-> port])
<1>1. OptionsOf("Server") = {"host", "port"} /\ "Server" \in Directive
  BY NameAssumption DEF OptionsOf, Directive
<1>2. MaxPort \in Nat /\ port \in 1 .. MaxPort /\ port % (MaxPort + 1) = port
  BY PortKept
<1>3. host # NULL /\ host \in OptionValue /\ port \in OptionValue
  <2>1. host # NULL /\ host \in OptionValue
    BY TextAssumption DEF OptionValue, Text
  <2>2. port \in Int
    BY <1>2
  <2> QED
    BY <2>1, <2>2 DEF OptionValue
<1> DEFINE opts == [host |-> host, port |-> port]
<1>a. opts["host"] = host /\ opts["port"] = port
  OBVIOUS
<1>4. opts \in [OptionsOf("Server") -> OptionValue]
  BY <1>1, <1>3
<1>5. opts \in Meaning /\ opts # NotAsked
  BY <1>1, <1>4, TextIsSet DEF Meaning
<1> HIDE DEF opts
<1>6. Follows("Server", opts, opts)
  <2>1. Unset("host") = NULL /\ Unset("port") = 0 /\ port # 0
    BY <1>2 DEF Unset, Number
  <2> QED
    BY <1>1, <1>3, <1>5, <1>a, <2>1 DEF Follows, Meets
<1>7. \A o \in OptionsOf("Server") : Fits(o, opts[o])
  <2>1. port \in 0 .. MaxPort
    BY <1>2
  <2>2. Fits("host", host) /\ Fits("port", port)
    BY <2>1, FitsFacts
  <2> QED
    BY <1>1, <1>a, <2>2
<1>8. GoodDirective("Server", opts, opts)
  BY <1>4, <1>5, <1>6, <1>7 DEF GoodDirective
<1> QED
  BY <1>2, <1>8 DEF opts

\* DavrodsAnonymousLogin.
LEMMA LoginGood ==
  ASSUME NEW u \in OptionValue \ {NULL}, NEW p \in OptionValue \ {NULL}
  PROVE  GoodDirective("AnonymousLogin", [username |-> u, password |-> p],
                       [username |-> u, password |-> p])
<1> DEFINE d == "AnonymousLogin"
           opts == [username |-> u, password |-> p]
<1>1. OptionsOf(d) = {"username", "password"} /\ d \in Directive
  BY NameAssumption DEF OptionsOf, Directive
<1>2. /\ u # NULL /\ u \in OptionValue
      /\ p # NULL /\ p \in OptionValue
  OBVIOUS
<1>a. opts["username"] = u /\ opts["password"] = p /\ d # "ExposedRoot"
  OBVIOUS
<1> HIDE DEF d
<1>3. opts \in [OptionsOf(d) -> OptionValue]
  <2> HIDE DEF OptionValue
  <2>1. opts \in [{"username", "password"} -> OptionValue]
    BY <1>2
  <2> QED
    BY <1>1, <2>1
<1> HIDE DEF opts
<1>4. opts \in Meaning /\ opts # NotAsked
  BY <1>1, <1>3, TextIsSet DEF Meaning
<1>5. Follows(d, opts, opts)
  <2>1. Unset("username") = NULL /\ Unset("password") = NULL
    BY DEF Unset, Number
  <2> QED
    BY <1>1, <1>2, <1>4, <1>a, <2>1 DEF Follows, Meets
<1>6. \A o \in OptionsOf(d) : Fits(o, opts[o])
  <2>1. Fits("username", u) /\ Fits("password", p)
    BY FitsFacts
  <2> QED
    BY <1>1, <1>a, <2>1
<1>7. GoodDirective(d, opts, opts)
  BY <1>3, <1>4, <1>5, <1>6, <1>a DEF GoodDirective
<1> QED
  BY <1>7 DEF d, opts

\* DavrodsExposedRoot: the type is that of the name.
LEMMA RootGood ==
  ASSUME NEW root \in RootPath \cup {"Zone", "Home", "User"}
  PROVE  GoodDirective("ExposedRoot", [root |-> root, root_type |-> RootType(root)],
                       [root |-> root, root_type |-> RootType(root)])
<1> DEFINE d == "ExposedRoot"
           opts == [root |-> root, root_type |-> RootType(root)]
<1>1. OptionsOf(d) = {"root", "root_type"} /\ d \in Directive
  BY NameAssumption DEF OptionsOf, Directive
<1>2. root # NULL /\ root \in OptionValue
  BY TextAssumption DEF OptionValue, Text
<1>3. RootType(root) \in 1 .. 4
  BY DEF RootType
<1>4. RootType(root) \in OptionValue
  BY <1>3 DEF OptionValue
<1>a. opts["root"] = root /\ opts["root_type"] = RootType(root)
  OBVIOUS
<1> HIDE DEF d
<1>5. opts \in [OptionsOf(d) -> OptionValue]
  BY <1>1, <1>2, <1>4
<1>6. opts \in Meaning /\ opts # NotAsked
  BY <1>1, <1>5, TextIsSet DEF Meaning
<1>7. Follows(d, opts, opts)
  BY <1>1, <1>2, <1>3, <1>6 DEF Follows, Unset, Number, Meets
<1>8. \A o \in OptionsOf(d) : Fits(o, opts[o])
  <2>1. Fits("root", root) /\ Fits("root_type", RootType(root))
    BY <1>3 DEF Fits
  <2> HIDE DEF opts
  <2> QED
    BY <1>1, <1>a, <2>1
<1>9. RootFits(opts)
  BY <1>2 DEF RootFits
<1> QED
  BY <1>5, <1>6, <1>7, <1>8, <1>9 DEF GoodDirective, d

\* DavrodsAuthTTL.
LEMMA TtlGood ==
  ASSUME NEW ttl \in Ttl, TtlInRange(ttl)
  PROVE  GoodDirective("AuthTTL", [ttl |-> ttl], [ttl |-> ttl])
<1> DEFINE d == "AuthTTL"
           opts == [ttl |-> ttl]
<1>1. OptionsOf(d) = {"ttl"} /\ d \in Directive
  BY NameAssumption DEF OptionsOf, Directive
<1>2. ttl \in 1 .. MaxTtl /\ ttl \in OptionValue
  BY NumberAssumption DEF TtlInRange, OptionValue
<1>3. opts \in [OptionsOf(d) -> OptionValue]
  BY <1>1, <1>2
<1>4. opts \in Meaning /\ opts # NotAsked
  BY <1>1, <1>3, TextIsSet DEF Meaning
<1>5. Follows(d, opts, opts)
  BY <1>1, <1>2, <1>4 DEF Follows, Unset, Number, Meets
<1>6. \A o \in OptionsOf(d) : Fits(o, opts[o])
  <2>1. Fits("ttl", ttl) /\ opts["ttl"] = ttl
    BY <1>2, NumberAssumption DEF Fits
  <2> HIDE DEF opts
  <2> QED
    BY <1>1, <2>1
<1> QED
  BY <1>3, <1>4, <1>5, <1>6 DEF GoodDirective

\* A buffer directive and its option.
BufferOption(d, o) ==
  (d = "TxBuffer" /\ o = "tx") \/ (d = "RxBuffer" /\ o = "rx")

\* A buffer size that has overflowed is either refused or not zero.
LEMMA BufferGood ==
  ASSUME NEW d, NEW o, BufferOption(d, o),
         NEW kb \in Kbs, kb < SizeLimit, (kb * Kib) % SizeLimit >= kb
  PROVE  GoodDirective(d, [x \in {o} |-> (kb * Kib) % SizeLimit],
                       IF kb = 0 THEN NotAsked ELSE [x \in {o} |-> kb * Kib])
<1> DEFINE size == (kb * Kib) % SizeLimit
           opts == [x \in {o} |-> size]
           meant == IF kb = 0 THEN NotAsked ELSE [x \in {o} |-> kb * Kib]
<1>1. /\ OptionsOf(d) = {o} /\ d \in Directive /\ d \in Buffers
      /\ d # "ExposedRoot" /\ o \in Number /\ o \in {"tx", "rx"}
  BY NameAssumption DEF OptionsOf, Directive, Buffers, Number, BufferOption
<1>2. kb \in Nat /\ Kib \in Nat \ {0} /\ SizeLimit \in Nat \ {0}
  BY NumberAssumption
<1>3. kb * Kib \in Nat
  BY <1>2
<1>4. size \in 0 .. SizeLimit - 1 /\ (kb * Kib < SizeLimit => size = kb * Kib)
  <2> DEFINE n == kb * Kib
  <2>1. n \in Nat
    BY <1>3
  <2> HIDE DEF n
  <2>2. n % SizeLimit \in 0 .. SizeLimit - 1 /\ (n < SizeLimit => n % SizeLimit = n)
    BY <2>1, <1>2
  <2> QED
    BY <2>2 DEF n
<1>5. kb = 0 => size = 0
  <2>1. kb = 0 => kb * Kib = 0
    BY <1>2
  <2> QED
    BY <2>1, <1>2, <1>4
<1>6. size >= kb
  OBVIOUS
<1> HIDE DEF size
<1>7. size \in OptionValue /\ kb * Kib \in OptionValue
  BY <1>3, <1>4 DEF OptionValue
<1>8. opts \in [OptionsOf(d) -> OptionValue]
  BY <1>1, <1>7
<1>9. [x \in {o} |-> kb * Kib] \in [OptionsOf(d) -> OptionValue]
  BY <1>1, <1>7
<1>10. meant \in Meaning /\ (kb # 0 => meant # NotAsked)
  BY <1>1, <1>9, TextIsSet DEF Meaning
<1>11. Follows(d, opts, meant)
  <2>1. CASE kb = 0
    BY <2>1, <1>1, <1>5 DEF Follows, Unset
  <2>2. CASE kb # 0
    <3>1. size # 0
      BY <2>2, <1>2, <1>4, <1>6
    <3>2. Meets(d, size, kb * Kib)
      BY <1>1, <1>2, <1>3, <1>4 DEF Meets
    <3>3. opts[o] = size /\ meant[o] = kb * Kib
      BY <2>2
    <3> HIDE DEF opts, meant
    <3> QED
      BY <2>2, <1>1, <1>10, <3>1, <3>2, <3>3 DEF Follows, Unset
  <2> QED
    BY <2>1, <2>2
<1>12. \A x \in OptionsOf(d) : Fits(x, opts[x])
  BY <1>1, <1>4 DEF Fits
<1> QED
  BY <1>1, <1>8, <1>10, <1>11, <1>12 DEF GoodDirective, size

\* Reading a directive keeps the invariant.
LEMMA ReadDirectiveKeeps == ASSUME IInv, ReadDirective PROVE IInv'
<1>0. {"Server", "AnonymousLogin", "ExposedRoot", "AuthTTL", "TxBuffer", "RxBuffer"}
        \cup Plain \subseteq Directive
  BY DEF Directive
<1>1. CASE Refuses
  BY <1>1, RefusesKeeps
<1>2. ASSUME NEW d \in Plain, NEW text \in Accepted \cup Malformed, SetPlain(d, text)
      PROVE  IInv'
  BY <1>0, <1>1, <1>2, PlainGood, SetsKeeps DEF SetPlain
<1>3. ASSUME NEW host \in Host, NEW port \in Port, SetServer(host, port)
      PROVE  IInv'
  BY <1>0, <1>1, <1>3, ServerGood, SetsKeeps DEF SetServer
<1>4. ASSUME NEW u \in UserName \cup {""}, NEW p \in Password, SetAnonymousLogin(u, p)
      PROVE  IInv'
  <2>1. u \in OptionValue \ {NULL} /\ p \in OptionValue \ {NULL}
    BY TextAssumption DEF OptionValue, Text
  <2> QED
    BY <1>0, <1>1, <1>4, <2>1, LoginGood, SetsKeeps DEF SetAnonymousLogin
<1>5. ASSUME NEW root \in RootPath \cup RootWord \cup {"Zone", "Home", "User"},
             SetExposedRoot(root)
      PROVE  IInv'
  BY <1>0, <1>1, <1>5, RootGood, SetsKeeps DEF SetExposedRoot
<1>6. ASSUME NEW ttl \in Ttl, SetAuthTtl(ttl) PROVE IInv'
  BY <1>0, <1>1, <1>6, TtlGood, SetsKeeps DEF SetAuthTtl
<1>7. ASSUME NEW d \in Directive, NEW o, BufferOption(d, o),
             NEW kb \in Kbs, SetBuffer(d, o, kb)
      PROVE  IInv'
  <2> DEFINE opts == [x \in {o} |-> (kb * Kib) % SizeLimit]
             meant == IF kb = 0 THEN NotAsked ELSE [x \in {o} |-> kb * Kib]
  <2>2. CASE kb < SizeLimit /\ (kb * Kib) % SizeLimit >= kb /\ Sets(d, opts, meant)
    <3>1. GoodDirective(d, opts, meant)
      BY <1>7, <2>2, BufferGood
    <3> HIDE DEF opts, meant
    <3> QED
      BY <2>2, <3>1, SetsKeeps
  <2> QED
    BY <1>1, <1>7, <2>2 DEF SetBuffer
<1> QED
  <2>1. ASSUME NEW kb \in Kbs, SetBuffer("TxBuffer", "tx", kb) PROVE IInv'
    BY <1>0, <1>7, <2>1 DEF BufferOption
  <2>2. ASSUME NEW kb \in Kbs, SetBuffer("RxBuffer", "rx", kb) PROVE IInv'
    BY <1>0, <1>7, <2>2 DEF BufferOption
  <2> QED
    BY <1>2, <1>3, <1>4, <1>5, <1>6, <2>1, <2>2 DEF ReadDirective

-----------------------------------------------------------------------------
(* The other steps.                                                        *)

\* A section without a directive asks for nothing and sets nothing.
LEMMA EmptyFacts ==
  /\ Empty \in [Option -> OptionValue]
  /\ SectionOK(Empty)
  /\ NothingAsked \in [Directive -> Meaning]
  /\ \A d \in Directive : Follows(d, Empty, NothingAsked[d])
<1>1. \A o \in Option : Empty[o] = Unset(o) /\ Unset(o) \in OptionValue
  BY DEF Empty, Unset, OptionValue
<1>2. Empty \in [Option -> OptionValue]
  BY <1>1 DEF Empty
<1>3. "root" \in Option /\ "root_type" \in Option
  BY DEF Option, Number
<1>4. Unset("root") = NULL /\ Unset("root_type") = 0
  BY DEF Unset, Number
<1>5. RootFits(Empty)
  BY <1>1, <1>3, <1>4 DEF RootFits
<1>6. \A o \in Option : Fits(o, Empty[o])
  <2> SUFFICES ASSUME NEW o \in Option PROVE Fits(o, Empty[o])
    OBVIOUS
  <2>1. CASE o \in Number
    <3>1. Empty[o] = 0
      BY <1>1, <2>1 DEF Unset
    <3> HIDE DEF Empty
    <3>2. MaxPort \in Nat
      BY DEF MaxPort
    <3> QED
      BY <3>1, <3>2, NumberAssumption DEF Fits
  <2>2. CASE o \notin Number
    BY <2>2 DEF Fits, Number
  <2> QED
    BY <2>1, <2>2
<1>7. \A d \in Directive : NothingAsked[d] = NotAsked
  BY DEF NothingAsked
<1>8. \A d \in Directive : Follows(d, Empty, NothingAsked[d])
  <2> HIDE DEF Empty
  <2> QED
    BY <1>1, <1>7, OptionFacts DEF Follows
<1>9. NothingAsked \in [Directive -> Meaning]
  BY DEF NothingAsked, Meaning
<1> QED
  BY <1>2, <1>5, <1>6, <1>8, <1>9 DEF SectionOK

\* The server starts with one section, without a directive.
LEMMA StartKeeps ==
  ASSUME phase = "reading", sections = <<Empty>>, asked = <<NothingAsked>>,
         conf = Empty, merged = 0
  PROVE  IInv
<1>1. Last = 1 /\ sections[1] = Empty /\ asked[1] = NothingAsked
  BY DEF Last
<1>2. Shape
  BY EmptyFacts, <1>1 DEF Shape, Last
<1>3. Sections
  BY EmptyFacts, <1>1 DEF Sections
<1>4. Merging
  BY DEF Merging
<1> QED
  BY <1>2, <1>3, <1>4 DEF IInv

\* So does starting over.
LEMMA RestartKeeps == ASSUME Restart PROVE IInv'
<1>1. Last' = 1 /\ sections'[1] = Empty /\ asked'[1] = NothingAsked
  BY DEF Last, Restart
<1>2. Shape'
  BY EmptyFacts, <1>1 DEF Shape, Last, Restart
<1>3. Sections'
  BY EmptyFacts, <1>1 DEF Sections, Restart
<1>4. Merging'
  BY DEF Merging, Restart
<1> QED
  BY <1>2, <1>3, <1>4 DEF IInv

\* So does the start of a section.
LEMMA SectionKeeps == ASSUME IInv, Section PROVE IInv'
<1>1. Last \in Nat \ {0} /\ Len(asked) = Last /\ Last' = Last + 1 /\ Len(asked') = Last'
  BY DEF IInv, Shape, Section, Last
<1>2. /\ \A i \in 1 .. Last : sections'[i] = sections[i] /\ asked'[i] = asked[i]
      /\ sections'[Last + 1] = Empty /\ asked'[Last + 1] = NothingAsked
  BY <1>1 DEF IInv, Shape, Section, Last
<1>3. phase' = phase /\ conf' = conf /\ merged' = merged /\ phase = "reading"
  BY DEF Section, Reading
<1>4. Shape'
  <2>1. sections' \in Seq([Option -> OptionValue])
    BY EmptyFacts DEF IInv, Shape, Section
  <2>2. asked' \in Seq([Directive -> Meaning])
    BY EmptyFacts DEF IInv, Shape, Section
  <2>3. merged' \in 0 .. Last'
    BY <1>1, <1>3 DEF IInv, Shape
  <2> QED
    BY <1>1, <1>3, <2>1, <2>2, <2>3 DEF IInv, Shape, Last
<1>5. Sections'
  <2> SUFFICES ASSUME NEW i \in 1 .. Last'
               PROVE  /\ SectionOK(sections'[i])
                      /\ \A d \in Directive : Follows(d, sections'[i], asked'[i][d])
    BY DEF Sections
  <2>1. CASE i = Last + 1
    BY <2>1, <1>2, EmptyFacts
  <2>2. CASE i # Last + 1
    <3>1. i \in 1 .. Last
      BY <2>2, <1>1
    <3> QED
      BY <3>1, <1>2 DEF IInv, Sections
  <2> QED
    BY <2>1, <2>2
<1>6. Merging'
  BY <1>3 DEF Merging
<1> QED
  BY <1>4, <1>5, <1>6 DEF IInv

\* The server's own section is all there is of the configuration at first.
LEMMA RequestKeeps == ASSUME IInv, Request PROVE IInv'
<1>1. Last \in Nat \ {0} /\ 1 \in 1 .. Last
  BY DEF IInv, Shape, Last
<1>2. /\ sections' = sections /\ asked' = asked /\ Last' = Last
      /\ conf' = sections[1] /\ merged' = 1 /\ phase' = "merging"
  BY DEF Request, Last
<1>3. SectionOK(sections[1]) /\ sections[1] \in [Option -> OptionValue]
  BY <1>1 DEF IInv, Shape, Sections, Last
<1>4. Shape'
  BY <1>1, <1>2, <1>3 DEF IInv, Shape, Last
<1>5. Sections'
  BY <1>2 DEF IInv, Sections
<1>6. RootFits(conf')
  BY <1>2, <1>3 DEF SectionOK
<1>7. ASSUME NEW o \in Option PROVE FromNearest(o, 1)'
  BY <1>2 DEF FromNearest
<1>8. Merging'
  BY <1>1, <1>2, <1>6, <1>7 DEF Merging, RootFits
<1> QED
  BY <1>4, <1>5, <1>8 DEF IInv

\* One more section: what it sets is taken from it, the rest stays.
LEMMA MergeKeeps ==
  ASSUME IInv, phase = "merging", merged < Last,
         ~ Faults(conf, sections[merged + 1]), MergeNext
  PROVE  IInv'
<1> DEFINE n == merged + 1
           child == sections[n]
<1>1. /\ sections' = sections /\ asked' = asked /\ Last' = Last
      /\ conf' = Merge(conf, child) /\ merged' = n /\ phase' = "merging"
  BY DEF MergeNext, Last
<1>2. Last \in Nat \ {0} /\ merged \in 1 .. Last /\ n \in 1 .. Last
  BY DEF IInv, Shape, Merging, Last
<1>3. SectionOK(child) /\ child \in [Option -> OptionValue]
  BY <1>2 DEF IInv, Shape, Sections, Last
<1>4. "root" \in Option /\ "root_type" \in Option /\ "root_type" \in Number /\ "root" \notin Number
  BY DEF Option, Number
<1> HIDE DEF child
<1>5. conf'["root"] = MergeOption(conf, child, "root") /\ conf'["root"] # NULL
  BY <1>1, <1>4 DEF Merge, Faults, child
<1>6. conf'["root_type"] = RootType(conf'["root"]) /\ conf'["root_type"] \in 1 .. 4
  <2>1. conf'["root_type"] = RootType(conf'["root"])
    BY <1>1, <1>4, <1>5 DEF Merge
  <2> QED
    BY <2>1 DEF RootType
<1>7. ASSUME NEW o \in Option, o # "root_type"
      PROVE  conf'[o] = MergeOption(conf, child, o)
  BY <1>1, <1>7 DEF Merge
<1>8. RootFits(conf')
  BY <1>5, <1>6 DEF RootFits
<1>9. conf' \in [Option -> OptionValue]
  <2>1. ASSUME NEW o \in Option PROVE conf'[o] \in OptionValue
    <3>1. CASE o = "root_type"
      BY <1>6, <3>1 DEF OptionValue
    <3>2. CASE o # "root_type"
      BY <1>3, <1>7, <3>2 DEF MergeOption, IInv, Shape
    <3> QED
      BY <3>1, <3>2
  <2>2. conf' = [o \in Option |-> conf'[o]]
    BY <1>1 DEF Merge
  <2> QED
    BY <2>1, <2>2
<1>10. Shape'
  BY <1>1, <1>2, <1>9 DEF IInv, Shape, Last
<1>11. Sections'
  BY <1>1 DEF IInv, Sections
<1>12. ASSUME NEW o \in Option, o # "root_type"
       PROVE  FromNearest(o, merged)'
  <2>1. FromNearest(o, merged)
    BY DEF IInv, Merging
  <2>2. CASE child[o] # Unset(o)
    <3>1. conf'[o] = sections[n][o]
      BY <1>7, <1>12, <2>2 DEF MergeOption, child
    <3>2. \A j \in 1 .. n : ~ (j > n)
      BY <1>2
    <3> QED
      BY <1>1, <1>2, <2>2, <3>1, <3>2 DEF FromNearest, child
  <2>3. CASE child[o] = Unset(o)
    <3>1. conf'[o] = conf[o]
      BY <1>7, <1>12, <2>3 DEF MergeOption
    <3>2. \A j \in 1 .. n : j \in 1 .. merged \/ j = n
      BY <1>2
    <3>3. 1 .. merged \subseteq 1 .. n
      BY <1>2
    <3>4. sections[n][o] = Unset(o)
      BY <2>3 DEF child
    <3> HIDE DEF n
    <3> QED
      BY <1>1, <2>1, <3>1, <3>2, <3>3, <3>4 DEF FromNearest
  <2> QED
    BY <2>2, <2>3
<1>13. FromNearest("root_type", merged)'
  <2>1. ASSUME NEW i \in 1 .. n
        PROVE  sections[i]["root_type"] = IF sections[i]["root"] = NULL THEN 0
                                          ELSE RootType(sections[i]["root"])
    <3>1. i \in 1 .. Last
      BY <1>2
    <3> QED
      BY <3>1 DEF IInv, Sections, SectionOK, RootFits
  <2>2. \A x : RootType(x) # 0
    BY DEF RootType
  <2>3. Unset("root_type") = 0 /\ Unset("root") = NULL
    BY <1>4 DEF Unset
  <2>4. FromNearest("root", merged)'
    BY <1>4, <1>12
  <2>5. PICK i \in 1 .. n : /\ sections[i]["root"] # NULL /\ conf'["root"] = sections[i]["root"]
                            /\ \A j \in 1 .. n : j > i => sections[j]["root"] = NULL
    BY <1>1, <1>5, <2>3, <2>4 DEF FromNearest
  <2>6. sections[i]["root_type"] # 0 /\ conf'["root_type"] = sections[i]["root_type"]
    BY <1>6, <2>1, <2>2, <2>5
  <2>7. \A j \in 1 .. n : j > i => sections[j]["root_type"] = 0
    BY <2>1, <2>5
  <2> HIDE DEF n
  <2> QED
    BY <1>1, <2>3, <2>6, <2>7 DEF FromNearest
<1>14. \A o \in Option : FromNearest(o, merged)'
  BY <1>12, <1>13
<1>15. Merging'
  <2>1. (RootFits(conf))'
    BY <1>8 DEF RootFits
  <2> QED
    BY <1>1, <1>2, <1>14, <2>1 DEF Merging
<1> QED
  BY <1>10, <1>11, <1>15 DEF IInv

\* A merge keeps the invariant, or ends the process.
LEMMA MergeNextKeeps == ASSUME IInv, MergeNext PROVE IInv'
<1>1. CASE Faults(conf, sections[merged + 1])
  <2>1. phase' = "fault" /\ UNCHANGED <<sections, asked, conf, merged>>
    BY <1>1 DEF MergeNext
  <2> QED
    BY <2>1 DEF IInv, Shape, Sections, Merging, Last
<1>2. CASE ~ Faults(conf, sections[merged + 1])
  BY <1>2, MergeKeeps DEF MergeNext
<1> QED
  BY <1>1, <1>2

\* The sections are what their directives ask for, and the configuration is
\* the innermost of what has been merged.
THEOREM Invariance == Spec => []IInv
<1>1. Init => IInv
  BY StartKeeps DEF Init
<1>2. IInv /\ [Next]_vars => IInv'
  <2> SUFFICES ASSUME IInv, [Next]_vars PROVE IInv'
    OBVIOUS
  <2>1. CASE ReadDirective
    BY <2>1, ReadDirectiveKeeps
  <2>2. CASE Section
    BY <2>2, SectionKeeps
  <2>3. CASE Request
    BY <2>3, RequestKeeps
  <2>4. CASE MergeNext
    BY <2>4, MergeNextKeeps
  <2>5. CASE Restart
    BY <2>5, RestartKeeps
  <2>6. CASE UNCHANGED vars
    BY <2>6 DEF vars, IInv, Shape, Sections, Merging, FromNearest, Last, RootFits,
                SectionOK, Follows
  <2> QED
    BY <2>1, <2>2, <2>3, <2>4, <2>5, <2>6 DEF Next
<1> QED
  BY <1>1, <1>2, PTL DEF Spec

-----------------------------------------------------------------------------
(* What follows.                                                           *)

\* Every option of a section has a value that fits its type: no argument that
\* is accepted overflows the port, the lifetime or the size of a buffer.
THEOREM ConfigTypes == Spec => []TypeOK
<1>1. IInv => TypeOK
  <2> SUFFICES ASSUME IInv PROVE TypeOK
    OBVIOUS
  <2>1. {"port", "root_type", "ttl", "tx", "rx"} \subseteq Option
    BY DEF Option, Number
  <2>2. ASSUME NEW i \in 1 .. Last
        PROVE  /\ DOMAIN sections[i] = Option
               /\ sections[i]["port"] \in 0 .. MaxPort
               /\ sections[i]["root_type"] \in 0 .. 4
               /\ sections[i]["ttl"] \in 0 .. MaxTtl
               /\ {sections[i]["tx"], sections[i]["rx"]} \subseteq 0 .. SizeLimit - 1
    <3>1. sections[i] \in [Option -> OptionValue]
      BY DEF IInv, Shape, Last
    <3>2. \A o \in Option : Fits(o, sections[i][o])
      BY DEF IInv, Sections, SectionOK
    <3>3. Fits("port", sections[i]["port"]) /\ Fits("root_type", sections[i]["root_type"])
      BY <2>1, <3>2
    <3>4. /\ Fits("ttl", sections[i]["ttl"]) /\ Fits("tx", sections[i]["tx"])
          /\ Fits("rx", sections[i]["rx"])
      BY <2>1, <3>2
    <3> QED
      BY <3>1, <3>3, <3>4 DEF Fits
  <2> QED
    BY <2>2 DEF TypeOK, IInv, Shape, Last
<1> QED
  BY <1>1, Invariance, PTL

\* The configuration has what the innermost directive asks for.
LEMMA NearestFollowed ==
  ASSUME IInv, phase = "merging", merged = Last,
         NEW d \in Directive, NEW o \in Option, o \in OptionsOf(d)
  PROVE  \/ Nearest(d) = NotAsked /\ conf[o] = Unset(o)
         \/ /\ Nearest(d) # NotAsked /\ conf[o] # Unset(o)
            /\ Meets(d, conf[o], Nearest(d)[o])
<1> DEFINE having == {i \in 1 .. Last : asked[i][d] # NotAsked}
<1>1. FromNearest(o, Last)
  BY DEF IInv, Merging
<1>2. ASSUME NEW i \in 1 .. Last
      PROVE  /\ asked[i][d] = NotAsked => sections[i][o] = Unset(o)
             /\ asked[i][d] # NotAsked => /\ sections[i][o] # Unset(o)
                                          /\ Meets(d, sections[i][o], asked[i][d][o])
  <2>1. Follows(d, sections[i], asked[i][d])
    BY DEF IInv, Sections
  <2> QED
    BY <2>1 DEF Follows
<1>3. CASE \A j \in 1 .. Last : sections[j][o] = Unset(o)
  <2>1. having = {}
    BY <1>2, <1>3
  <2>2. Nearest(d) = NotAsked
    BY <2>1 DEF Nearest
  <2>3. conf[o] = Unset(o)
    BY <1>1, <1>3 DEF FromNearest
  <2> QED
    BY <2>2, <2>3
<1>4. CASE ~ \A j \in 1 .. Last : sections[j][o] = Unset(o)
  <2>1. PICK i \in 1 .. Last : /\ sections[i][o] # Unset(o) /\ conf[o] = sections[i][o]
                               /\ \A j \in 1 .. Last : j > i => sections[j][o] = Unset(o)
    BY <1>1, <1>4 DEF FromNearest
  <2>2. i \in having /\ \A j \in having : ~ (j > i)
    BY <1>2, <2>1
  <2>3. \A j \in having : j <= i
    <3>1. Last \in Nat
      BY DEF IInv, Shape, Last
    <3> QED
      BY <2>2, <3>1
  <2>4. \A k \in having : (\A j \in having : j <= k) => k = i
    <3>1. Last \in Nat
      BY DEF IInv, Shape, Last
    <3> QED
      BY <2>2, <2>3, <3>1
  <2>5. (CHOOSE k \in having : \A j \in having : j <= k) = i
    <3> HIDE DEF having
    <3> QED
      BY <2>2, <2>3, <2>4
  <2>6. Nearest(d) = asked[i][d]
    <3>1. having # {}
      BY <2>2
    <3> QED
      BY <2>5, <3>1 DEF Nearest
  <2>7. asked[i][d] # NotAsked
    BY <2>2
  <2> QED
    BY <1>2, <2>1, <2>6, <2>7
<1> QED
  BY <1>3, <1>4

\* The configuration of a request is the one that its sections describe.
THEOREM InnermostDecides == Spec => []NearestWins
<1>1. IInv => NearestWins
  <2> SUFFICES ASSUME IInv, phase = "merging", merged = Last,
                      NEW d \in Directive, NEW o \in Option, o \in OptionsOf(d)
               PROVE  \/ Nearest(d) = NotAsked /\ Effective(conf, o) = Default(o)
                      \/ Nearest(d) # NotAsked /\ Effective(conf, o) = Nearest(d)[o]
                      \/ d \in {"TxBuffer", "RxBuffer"} /\ Nearest(d) # NotAsked
                         /\ Nearest(d)[o] >= SizeLimit
    BY DEF NearestWins
  <2>1. CASE Nearest(d) = NotAsked /\ conf[o] = Unset(o)
    BY <2>1 DEF Effective
  <2>2. CASE /\ Nearest(d) # NotAsked /\ conf[o] # Unset(o)
             /\ Meets(d, conf[o], Nearest(d)[o])
    BY <2>2 DEF Effective, Meets, Buffers
  <2> QED
    BY <2>1, <2>2, NearestFollowed
<1> QED
  BY <1>1, Invariance, PTL
=============================================================================
