------------------------------ MODULE Web_proofs ------------------------------
(****************************************************************************)
(* Proofs about Web, for any clients, workers, files, requests and sizes:   *)
(* the types, and that what the proxy keeps in its cache is the whole file  *)
(* it was asked for.                                                        *)
(*                                                                          *)
(* The second is a property of two programs and a stream: a thread of the   *)
(* proxy caches what it read from Tiny up to the length the header gave, so *)
(* it holds because what the thread sends is one request in Tiny's eyes,    *)
(* because Tiny answers each request once and closes, and because no step   *)
(* in between loses, doubles or mixes what is in the sockets and in the two *)
(* buffers of rio.  The order of the module is that of the argument: texts  *)
(* and lines, the functions of rio on any connection, the places of the     *)
(* processes, the exchange between a worker and Tiny, and a lemma for each  *)
(* action.                                                                  *)
(****************************************************************************)
EXTENDS Web, Counting, SequenceTheorems

---------------------------------------------------------------------------
(* Messages.  A text is a sequence of tokens; the tokens are those the     *)
(* requests, the files and the answers of the instance are made of.        *)
Paths == {s.does[c].ask : s \in Scenarios, c \in Clients}
            \cup Files \cup {"./cgi-bin/add", "none"}
Plains == {"404", "403", "501", "post", "host", "agent", "name", "junk", "html", "server"}
Named == {<<kind, path>> : kind \in {"get", "200", "length"}, path \in Paths}
Numbered == UNION {{<<"body", path, n>> : n \in 1 .. Size[path]} : path \in Files}
Token == {NL} \cup {<<w>> : w \in Plains} \cup Named \cup Numbered
Text == Seq(Token)

(* Tokens by their first parts.                                            *)
LEMMA TokenFacts ==
    /\ NL \in Token
    /\ \A w \in Plains : <<w>> \in Token /\ <<w>> # NL /\ <<w>>[1] # "get" /\ <<w>>[1] # "200"
    /\ \A path \in Paths : <<"get", path>> \in Token /\ <<"200", path>> \in Token
                              /\ <<"length", path>> \in Token
    /\ \A path : /\ <<"get", path>> # NL /\ <<"200", path>> # NL /\ <<"length", path>> # NL
                 /\ <<"200", path>>[1] = "200" /\ <<"get", path>>[1] = "get"
    /\ \A t \in Token : t[1] = "get" => t[2] \in Paths
<1>1. NL \in Token
  BY DEF Token
<1>2. ASSUME NEW w \in Plains
      PROVE  <<w>> \in Token /\ <<w>> # NL /\ <<w>>[1] # "get" /\ <<w>>[1] # "200"
  <2>1. <<w>> \in Token
    BY DEF Token
  <2>2. w # "nl" /\ w # "get" /\ w # "200"
    BY DEF Plains
  <2> QED BY <2>1, <2>2 DEF NL
<1>3. ASSUME NEW path \in Paths
      PROVE  <<"get", path>> \in Token /\ <<"200", path>> \in Token /\ <<"length", path>> \in Token
  BY DEF Token, Named
<1>4. ASSUME NEW path
      PROVE  /\ <<"get", path>> # NL /\ <<"200", path>> # NL /\ <<"length", path>> # NL
             /\ <<"200", path>>[1] = "200" /\ <<"get", path>>[1] = "get"
  BY DEF NL
<1>5. ASSUME NEW t \in Token, t[1] = "get"
      PROVE  t[2] \in Paths
  <2>1. CASE t = NL
    BY <1>5, <2>1 DEF NL
  <2>2. CASE t \in {<<w>> : w \in Plains}
    BY <1>5, <1>2, <2>2
  <2>3. CASE t \in Named
    BY <1>5, <2>3 DEF Named
  <2>4. CASE t \in Numbered
    <3>1. t[1] = "body"
      BY <2>4 DEF Numbered
    <3> QED BY <1>5, <3>1
  <2> QED BY <2>1, <2>2, <2>3, <2>4 DEF Token
<1> QED BY <1>1, <1>2, <1>3, <1>4, <1>5

LEMMA LineTyped ==
    ASSUME NEW S, NEW t \in S, NL \in S
    PROVE  /\ Line(t) \in Seq(S) /\ Len(Line(t)) = 2
           /\ Line(t)[1] = t /\ Line(t)[2] = NL
BY DEF Line

(* The messages are made of tokens.                                        *)
LEMMA LinesTyped ==
    /\ HostLine \in Text /\ AgentLine \in Text /\ ServerLine \in Text
    /\ Line(<<"name">>) \in Text /\ Line(<<"post">>) \in Text
    /\ <<NL>> \in Text /\ <<>> \in Text
    /\ \A path \in Paths : GetLine(path) \in Text
    /\ \A code \in {"404", "403", "501"} :
          ErrorHeader(code) \in Text /\ ClientError(code) \in Text
    /\ ErrorBody \in Text
<1>1. \A w \in Plains : Line(<<w>>) \in Seq(Token)
  BY TokenFacts, LineTyped, Zenon
<1>2. \A path \in Paths : Line(<<"get", path>>) \in Seq(Token)
  BY TokenFacts, LineTyped, Zenon
<1>3. ASSUME NEW code \in {"404", "403", "501"}
      PROVE  /\ ErrorHeader(code) \in Seq(Token) /\ ClientError(code) \in Seq(Token)
             /\ ErrorBody \in Seq(Token)
  <2>1. <<code>> \in Token /\ <<"html">> \in Token /\ NL \in Token
    BY TokenFacts DEF Plains
  <2>2. ErrorHeader(code) \in Seq(Token) /\ ErrorBody \in Seq(Token)
    BY <2>1 DEF ErrorHeader, ErrorBody
  <2> QED BY <2>2, ConcatProperties DEF ClientError
<1>4. <<NL>> \in Seq(Token) /\ <<>> \in Seq(Token)
  BY TokenFacts
<1>5. ErrorBody \in Seq(Token)
  BY <1>3
<1> QED BY <1>1, <1>2, <1>3, <1>4, <1>5 DEF HostLine, AgentLine, ServerLine, GetLine, Plains, Text

LEMMA BodyTyped ==
    ASSUME NEW path \in Files
    PROVE  /\ Size[path] \in Nat /\ path \in Paths
           /\ Body(path) \in Text /\ Len(Body(path)) = Size[path]
           /\ Header(path) \in Text /\ Len(Header(path)) = 3
           /\ Header(path) = <<<<"200", path>>, NL, NL>>
           /\ ServeStatic(path) \in Text /\ Len(ServeStatic(path)) = 3 + Size[path]
           /\ Ok(path) \in Text
           /\ AdderOutput(path) \in Text
<1>1. Size[path] \in Nat /\ path \in Paths
  BY FilesAssumption DEF Paths
<1>2. \A n \in 1 .. Size[path] : <<"body", path, n>> \in Token
  BY DEF Token, Numbered
<1>3. Body(path) \in [1 .. Size[path] -> Token]
  BY <1>2 DEF Body
<1>4. Body(path) \in Seq(Token) /\ Len(Body(path)) = Size[path]
  BY <1>1, <1>3
<1>5. NL \in Token /\ <<"200", path>> \in Token /\ <<"length", path>> \in Token
  BY <1>1, TokenFacts
<1>6. /\ Ok(path) \in Seq(Token) /\ Ok(path) = <<<<"200", path>>, NL>>
      /\ <<NL>> \in Seq(Token) /\ Line(<<"length", path>>) \in Seq(Token)
  BY <1>5 DEF Ok, Line
<1>7. Header(path) \in Seq(Token) /\ Len(Header(path)) = 3
          /\ Header(path) = <<<<"200", path>>, NL, NL>>
  <2> DEFINE h == <<<<"200", path>>, NL, NL>>
  <2>1. h \in Seq(Token) /\ Len(h) = 3
    BY <1>5
  <2>2. Ok(path) \o <<NL>> \in Seq(Token) /\ Len(Ok(path) \o <<NL>>) = 3
    BY <1>6, ConcatProperties
  <2>3. \A n \in 1 .. 3 : (Ok(path) \o <<NL>>)[n] = h[n]
    BY <1>6, ConcatProperties
  <2>4. Ok(path) \o <<NL>> = h
    BY <2>1, <2>2, <2>3, SeqEqual
  <2> QED BY <2>1, <2>4 DEF Header
<1>8. ServeStatic(path) \in Seq(Token) /\ Len(ServeStatic(path)) = 3 + Size[path]
  BY <1>4, <1>7, ConcatProperties DEF ServeStatic
<1>9. AdderOutput(path) \in Seq(Token)
  <2>1. Line(<<"length", path>>) \o <<NL>> \in Seq(Token)
    BY <1>6, ConcatProperties
  <2> QED BY <2>1, <1>4, ConcatProperties DEF AdderOutput
<1> QED BY <1>1, <1>4, <1>6, <1>7, <1>8, <1>9 DEF Text

LEMMA RequestTyped ==
    ASSUME NEW s \in Scenarios, NEW c \in Clients
    PROVE  /\ SubSeq(Request(s.does[c]), 1, s.does[c].sends) \in Text
           /\ Request(s.does[c]) \in Text
<1> DEFINE ask == s.does[c].ask
           header == Line(<<s.does[c].header>>)
           first == IF ask = "post" THEN Line(<<"post">>) ELSE GetLine(ask)
<1>1. ask \in Paths
  BY DEF Paths
<1>2. first \in Seq(Token)
  BY <1>1, LinesTyped DEF Text
<1>8. header \in Seq(Token)
  BY ScenariosAssumption, LinesTyped DEF HostLine, AgentLine, Text
<1>3. first \o header \in Seq(Token)
  BY <1>2, <1>8, LinesTyped, ConcatProperties DEF Text
<1>4. Request(s.does[c]) \in Seq(Token)
  BY <1>3, LinesTyped, ConcatProperties DEF Request, Text
<1>5. s.does[c].sends \in 0 .. Len(Request(s.does[c]))
  BY ScenariosAssumption
<1> HIDE DEF ask
<1> DEFINE r == Request(s.does[c])
<1> HIDE DEF r
<1>6. r \in Seq(Token) /\ s.does[c].sends \in 0 .. Len(r)
  BY <1>4, <1>5 DEF r
<1>7. SubSeq(r, 1, s.does[c].sends) \in Seq(Token)
  BY <1>6, SubSeqProperties, ElementOfSeq, LenProperties
<1> QED BY <1>7, <1>4 DEF r, ask, Text

---------------------------------------------------------------------------
(* Texts: sequences of tokens.  The library gives the facts of Seq; these  *)
(* are the ones the proofs cite, for Text.                                 *)
LEMMA TextType ==
    /\ <<>> \in Text /\ Len(<<>>) = 0
    /\ \A s \in Text : Len(s) \in Nat /\ (s = <<>> <=> Len(s) = 0)
    /\ \A s \in Text : \A n \in 1 .. Len(s) : s[n] \in Token
    /\ \A s \in Text : DOMAIN s = 1 .. Len(s)
    /\ \A s \in Text : s # <<>> => Last(s) = s[Len(s)]
BY EmptySeq, ElementOfSeq, LenProperties DEF Text, Last

LEMMA TextOne ==
    ASSUME NEW t \in Token
    PROVE  <<t>> \in Text /\ Len(<<t>>) = 1 /\ <<t>>[1] = t
BY DEF Text

LEMMA TextThree ==
    ASSUME NEW t \in Token, NEW u \in Token, NEW v \in Token
    PROVE  /\ <<t, u, v>> \in Text /\ Len(<<t, u, v>>) = 3
           /\ <<t, u, v>>[1] = t /\ <<t, u, v>>[2] = u /\ <<t, u, v>>[3] = v
BY DEF Text

LEMMA TextEqual ==
    ASSUME NEW s \in Text, NEW t \in Text,
           Len(s) = Len(t), \A n \in 1 .. Len(s) : s[n] = t[n]
    PROVE  s = t
BY SeqEqual DEF Text

LEMMA TextConcat ==
    ASSUME NEW s \in Text, NEW t \in Text
    PROVE  s \o t \in Text /\ Len(s \o t) = Len(s) + Len(t)
BY ConcatProperties DEF Text

LEMMA TextFirst ==
    ASSUME NEW s \in Text, NEW t \in Text, NEW n \in 1 .. Len(s)
    PROVE  (s \o t)[n] = s[n]
<1>1. Len(s) \in Nat /\ Len(t) \in Nat
  BY TextType
<1>2. \A i \in 1 .. Len(s) + Len(t) :
          (s \o t)[i] = IF i <= Len(s) THEN s[i] ELSE t[i - Len(s)]
  BY ConcatProperties DEF Text
<1> QED BY <1>1, <1>2

LEMMA TextSecond ==
    ASSUME NEW s \in Text, NEW t \in Text, NEW n \in 1 .. Len(t)
    PROVE  (s \o t)[Len(s) + n] = t[n]
<1>1. Len(s) \in Nat /\ Len(t) \in Nat
  BY TextType
<1>2. \A i \in 1 .. Len(s) + Len(t) :
          (s \o t)[i] = IF i <= Len(s) THEN s[i] ELSE t[i - Len(s)]
  BY ConcatProperties DEF Text
<1>3. Len(s) + n \in 1 .. Len(s) + Len(t) /\ ~(Len(s) + n <= Len(s))
          /\ (Len(s) + n) - Len(s) = n
  BY <1>1
<1> QED BY <1>2, <1>3

LEMMA TextEmpty ==
    ASSUME NEW s \in Text
    PROVE  s \o <<>> = s /\ <<>> \o s = s
BY ConcatEmptySeq DEF Text

LEMMA TextNone ==
    ASSUME NEW s \in Text, NEW t \in Text, s \o t = <<>>
    PROVE  s = <<>> /\ t = <<>>
BY ConcatEqualIffEmpty DEF Text

LEMMA TextGroup ==
    ASSUME NEW s \in Text, NEW t \in Text, NEW u \in Text
    PROVE  (s \o t) \o u = s \o (t \o u)
BY ConcatAssociative DEF Text

(* The same as a predicate, for the proofs with many texts.                *)
Grouped(s, t, u) == (s \o t) \o u = s \o (t \o u)

LEMMA AlwaysGrouped ==
    ASSUME NEW s \in Text, NEW t \in Text, NEW u \in Text
    PROVE  Grouped(s, t, u)
BY TextGroup DEF Grouped

(* What one part of a text gains at its end, the next has lost.  It stays   *)
(* so behind any text.                                                     *)
Moved(x, d, y, e) == y \o e = x \o d

LEMMA MovedBehind ==
    ASSUME NEW f \in Text, NEW x \in Text, NEW d \in Text,
           NEW y \in Text, NEW e \in Text, Moved(x, d, y, e)
    PROVE  Moved(f \o x, d, f \o y, e)
<1>1. Grouped(f, y, e) /\ Grouped(f, x, d)
  BY AlwaysGrouped, Zenon
<1>2. y \o e = x \o d
  BY DEF Moved
<1> QED BY <1>1, <1>2, Zenon DEF Grouped, Moved

(* A text in two parts.                                                    *)
LEMMA Cut ==
    ASSUME NEW s \in Text, NEW n \in 0 .. Len(s)
    PROVE  /\ SubSeq(s, 1, n) \in Text /\ Len(SubSeq(s, 1, n)) = n
           /\ SubSeq(s, n + 1, Len(s)) \in Text
           /\ Len(SubSeq(s, n + 1, Len(s))) = Len(s) - n
           /\ SubSeq(s, 1, n) \o SubSeq(s, n + 1, Len(s)) = s
<1>1. Len(s) \in Nat /\ \A m \in 1 .. Len(s) : s[m] \in Token
  BY TextType
<1>2. /\ SubSeq(s, 1, n) \in Text
      /\ Len(SubSeq(s, 1, n)) = IF 1 <= n THEN n - 1 + 1 ELSE 0
  BY <1>1, SubSeqProperties DEF Text
<1>3. /\ SubSeq(s, n + 1, Len(s)) \in Text
      /\ Len(SubSeq(s, n + 1, Len(s))) = IF n + 1 <= Len(s) THEN Len(s) - (n + 1) + 1 ELSE 0
  <2>1. \A m \in n + 1 .. Len(s) : s[m] \in Token
    BY <1>1
  <2>2. n + 1 \in Int /\ Len(s) \in Int
    BY <1>1
  <2> QED BY <2>1, <2>2, SubSeqProperties DEF Text
<1>4. SubSeq(s, 1, n) \o SubSeq(s, n + 1, Len(s)) = SubSeq(s, 1, Len(s))
  <2>1. 1 \in 1 .. Len(s) + 1 /\ n \in 1 - 1 .. Len(s) /\ Len(s) \in n .. Len(s)
    BY <1>1
  <2> QED BY <2>1, ConcatAdjacentSubSeq DEF Text
<1>5. SubSeq(s, 1, Len(s)) = s
  BY SubSeqFull DEF Text
<1>6. Len(SubSeq(s, 1, n)) = n /\ Len(SubSeq(s, n + 1, Len(s))) = Len(s) - n
  BY <1>1, <1>2, <1>3
<1> QED BY <1>2, <1>3, <1>4, <1>5, <1>6, Zenon

LEMMA CutFirst ==
    ASSUME NEW s \in Text, NEW n \in 0 .. Len(s), NEW m \in 1 .. n
    PROVE  SubSeq(s, 1, n)[m] = s[m]
<1>1. Len(s) \in Nat /\ \A k \in 1 .. Len(s) : s[k] \in Token
  BY TextType
<1>2. \A k \in 1 .. n - 1 + 1 : SubSeq(s, 1, n)[k] = s[1 + k - 1]
  BY <1>1, SubSeqProperties
<1> QED BY <1>1, <1>2

(* A piece from the middle.                                                *)
LEMMA Middle ==
    ASSUME NEW s \in Text, NEW m \in Nat, NEW n \in Nat, m + n <= Len(s)
    PROVE  /\ SubSeq(s, m + 1, m + n) \in Text
           /\ Len(SubSeq(s, m + 1, m + n)) = n
           /\ \A k \in 1 .. n : SubSeq(s, m + 1, m + n)[k] = s[m + k]
<1>1. Len(s) \in Nat /\ \A k \in 1 .. Len(s) : s[k] \in Token
  BY TextType
<1>2. \A k \in m + 1 .. m + n : s[k] \in Token
  <2> SUFFICES ASSUME NEW k \in m + 1 .. m + n PROVE s[k] \in Token
    OBVIOUS
  <2>1. k \in 1 .. Len(s)
    BY <1>1
  <2> QED BY <2>1, <1>1
<1>3. /\ SubSeq(s, m + 1, m + n) \in Text
      /\ Len(SubSeq(s, m + 1, m + n)) =
            IF m + 1 <= m + n THEN (m + n) - (m + 1) + 1 ELSE 0
      /\ \A k \in 1 .. (m + n) - (m + 1) + 1 :
            SubSeq(s, m + 1, m + n)[k] = s[(m + 1) + k - 1]
  <2>1. m + 1 \in Int /\ m + n \in Int
    OBVIOUS
  <2> QED BY <2>1, <1>2, SubSeqProperties DEF Text
<1> QED BY <1>3

(* What is read is the beginning of what is sent.                          *)
Begins(s, t) == Len(s) <= Len(t) /\ \A n \in 1 .. Len(s) : s[n] = t[n]

LEMMA BeginsConcat ==
    ASSUME NEW s \in Text, NEW t \in Text, NEW u \in Text,
           Begins(s \o t, u)
    PROVE  Begins(s, u)
<1>1. Len(s \o t) = Len(s) + Len(t) /\ Len(s) \in Nat /\ Len(t) \in Nat /\ Len(u) \in Nat
  BY TextConcat, TextFirst, TextSecond, TextEmpty, TextType
<1>2. \A n \in 1 .. Len(s) : (s \o t)[n] = s[n]
  BY TextConcat, TextFirst, TextSecond
<1> QED BY <1>1, <1>2 DEF Begins

LEMMA BeginsSame ==
    ASSUME NEW s \in Text, NEW t \in Text
    PROVE  Begins(s, s) /\ Begins(<<>>, s) /\ Begins(s, s \o t)
BY TextConcat, TextFirst, TextSecond, TextEmpty, TextType DEF Begins

(* The rest behind a common beginning.                                     *)
LEMMA BeginsBehind ==
    ASSUME NEW s \in Text, NEW t \in Text, NEW u \in Text,
           Begins(s \o t, s \o u)
    PROVE  Begins(t, u)
<1>1. /\ Len(s \o t) = Len(s) + Len(t) /\ Len(s \o u) = Len(s) + Len(u)
      /\ Len(s) \in Nat /\ Len(t) \in Nat /\ Len(u) \in Nat
  BY TextConcat, TextFirst, TextSecond, TextEmpty, TextType
<1>2. ASSUME NEW n \in 1 .. Len(t) PROVE t[n] = u[n]
  <2>1. (s \o t)[Len(s) + n] = t[n] /\ (n <= Len(u) => (s \o u)[Len(s) + n] = u[n])
    BY <1>1, TextConcat, TextFirst, TextSecond
  <2>2. Len(s) + n \in 1 .. Len(s \o t)
    BY <1>1
  <2> QED BY <1>1, <2>1, <2>2 DEF Begins
<1> QED BY <1>1, <1>2 DEF Begins

(* A text in which a blank line is the end, and only the end.               *)
Blank(s, n) == s[n] = NL /\ (n = 1 \/ s[n - 1] = NL)
Closing(s) == Len(s) >= 1 /\ \A n \in 1 .. Len(s) : Blank(s, n) <=> n = Len(s)

(* A line: nothing behind its end.                                         *)
IsLine(d) == d # <<>> /\ \A n \in 1 .. Len(d) : d[n] = NL => n = Len(d)

LEMMA ClosingLine ==
    ASSUME NEW d \in Text, NEW r \in Text,
           IsLine(d), Last(d) = NL, Closing(d \o r)
    PROVE  /\ d = <<NL>> => r = <<>>
           /\ d # <<NL>> => Closing(r)
<1> DEFINE s == d \o r
<1>1. /\ Len(s) = Len(d) + Len(r) /\ Len(d) \in Nat /\ Len(r) \in Nat /\ Len(d) >= 1
      /\ d[Len(d)] = NL
  BY TextConcat, TextFirst, TextSecond, TextEmpty, TextType DEF IsLine
<1>2. \A n \in 1 .. Len(d) : s[n] = d[n]
  BY TextConcat, TextFirst, TextSecond
<1>3. \A n \in 1 .. Len(r) : s[Len(d) + n] = r[n]
  BY TextConcat, TextFirst, TextSecond
<1> HIDE DEF s
<1>4. Closing(s)
  BY DEF s
<1>5. ASSUME d = <<NL>> PROVE r = <<>>
  <2>1. Len(d) = 1
    BY <1>5
  <2>2. Blank(s, 1) /\ 1 \in 1 .. Len(s)
    BY <1>1, <1>2, <2>1 DEF Blank
  <2>3. Len(s) = 1
    BY <2>2, <1>4 DEF Closing
  <2> QED BY <2>1, <2>3, <1>1, TextType
<1>6. ASSUME d # <<NL>> PROVE Closing(r)
  <2>1. Len(d) # 1
    <3> SUFFICES ASSUME Len(d) = 1 PROVE FALSE
      OBVIOUS
    <3>1. d[1] = NL
      BY <1>1
    <3>2. <<NL>> \in Text /\ Len(<<NL>>) = 1 /\ <<NL>>[1] = NL
      BY TokenFacts, TextOne
    <3>3. d = <<NL>>
      BY <3>1, <3>2, TextEqual
    <3> QED BY <3>3, <1>6
  <2>2. Len(d) - 1 \in 1 .. Len(d) /\ d[Len(d) - 1] # NL
    <3> DEFINE l == Len(d)
    <3>0. l \in Nat /\ l >= 1 /\ l # 1
      BY <1>1, <2>1
    <3>1. Len(d) - 1 \in 1 .. Len(d) /\ Len(d) - 1 # Len(d)
      <4> HIDE DEF l
      <4>1. l - 1 \in 1 .. l /\ l - 1 # l
        BY <3>0
      <4> QED BY <4>1 DEF l
    <3> QED BY <3>1 DEF IsLine
  <2>3. ~Blank(s, Len(d)) /\ Len(d) \in 1 .. Len(s)
    BY <1>1, <1>2, <2>1, <2>2 DEF Blank
  <2>4. Len(r) >= 1
    BY <2>3, <1>1, <1>4 DEF Closing
  <2>5. ASSUME NEW n \in 1 .. Len(r) PROVE Blank(r, n) <=> n = Len(r)
    <3>1. Len(d) + n \in 1 .. Len(s) /\ s[Len(d) + n] = r[n]
      BY <1>1, <1>3
    <3>2. CASE n = 1
      <4>1. s[Len(d) + n - 1] = NL
        BY <1>1, <1>2, <3>2
      <4>2. Blank(s, Len(d) + n) <=> Blank(r, n)
        BY <3>1, <3>2, <4>1 DEF Blank
      <4> QED BY <4>2, <3>1, <1>1, <1>4 DEF Closing
    <3>3. CASE n # 1
      <4>1. n - 1 \in 1 .. Len(r) /\ Len(d) + (n - 1) = Len(d) + n - 1
        BY <1>1, <3>3
      <4>2. s[Len(d) + n - 1] = r[n - 1]
        BY <4>1, <1>3
      <4>3. Len(d) + n # 1
        BY <1>1
      <4>4. Blank(s, Len(d) + n) <=> Blank(r, n)
        BY <3>1, <3>3, <4>2, <4>3 DEF Blank
      <4> QED BY <4>4, <3>1, <1>1, <1>4 DEF Closing
    <3> QED BY <3>2, <3>3
  <2> QED BY <2>4, <2>5 DEF Closing
<1> QED BY <1>5, <1>6

(* A text without a blank line.                                            *)
Plain(s) == \A n \in 1 .. Len(s) : ~Blank(s, n)

LEMMA PlainConcat ==
    ASSUME NEW s \in Text, NEW t \in Text, Plain(s), Plain(t)
    PROVE  Plain(s \o t)
<1> DEFINE u == s \o t
<1>1. /\ Len(u) = Len(s) + Len(t) /\ Len(s) \in Nat /\ Len(t) \in Nat
      /\ \A n \in 1 .. Len(s) : u[n] = s[n]
      /\ \A n \in 1 .. Len(t) : u[Len(s) + n] = t[n]
  BY TextConcat, TextFirst, TextSecond, TextEmpty, TextType
<1> HIDE DEF u
<1> SUFFICES ASSUME NEW n \in 1 .. Len(u) PROVE ~Blank(u, n)
  BY DEF Plain, u
<1>2. CASE n <= Len(s)
  <2>1. n \in 1 .. Len(s) /\ (n # 1 => n - 1 \in 1 .. Len(s))
    BY <1>1, <1>2
  <2>2. u[n] = s[n] /\ (n # 1 => u[n - 1] = s[n - 1])
    BY <1>1, <2>1
  <2>3. ~Blank(s, n)
    BY <2>1 DEF Plain
  <2> QED BY <2>2, <2>3 DEF Blank
<1>3. CASE n = Len(s) + 1
  <2>1. 1 \in 1 .. Len(t)
    BY <1>1, <1>3
  <2>2. t[1] # NL
    BY <2>1 DEF Plain, Blank
  <2>3. u[n] = t[1]
    BY <1>1, <1>3, <2>1
  <2> QED BY <2>2, <2>3 DEF Blank
<1>4. CASE n > Len(s) + 1
  <2> DEFINE m == n - Len(s)
  <2>1. m \in 1 .. Len(t) /\ m - 1 \in 1 .. Len(t) /\ n = Len(s) + m
        /\ n - 1 = Len(s) + (m - 1) /\ m # 1
    BY <1>1, <1>4
  <2>2. u[n] = t[m] /\ u[n - 1] = t[m - 1]
    BY <1>1, <2>1
  <2>3. ~Blank(t, m)
    BY <2>1 DEF Plain
  <2> HIDE DEF m
  <2> QED BY <2>1, <2>2, <2>3 DEF Blank
<1> QED BY <1>1, <1>2, <1>3, <1>4

LEMMA PlainLine ==
    ASSUME NEW d \in Text, IsLine(d), d # <<NL>>
    PROVE  Plain(d)
<1> SUFFICES ASSUME NEW n \in 1 .. Len(d), Blank(d, n) PROVE FALSE
  BY DEF Plain
<1>1. n = Len(d) /\ d[n] = NL /\ Len(d) \in Nat
  BY TextType DEF Blank, IsLine
<1>2. CASE n = 1
  <2>1. d[1] \in Token /\ Len(d) = 1 /\ d[1] = NL
    BY <1>1, <1>2, TextType
  <2>2. <<NL>> \in Text /\ Len(<<NL>>) = 1 /\ <<NL>>[1] = NL
    BY TokenFacts, TextOne
  <2>3. d = <<NL>>
    BY <2>1, <2>2, TextEqual
  <2> QED BY <2>3
<1>3. CASE n # 1
  <2>1. n - 1 \in 1 .. Len(d) /\ d[n - 1] = NL /\ n - 1 # Len(d)
    BY <1>1, <1>3 DEF Blank
  <2> QED BY <2>1 DEF IsLine
<1> QED BY <1>2, <1>3

LEMMA PlainText ==
    /\ \A t : t # NL => Plain(Line(t))
    /\ Plain(<<>>)
<1>1. ASSUME NEW t, t # NL PROVE Plain(Line(t))
  <2>1. Len(Line(t)) = 2 /\ Line(t)[1] = t /\ Line(t)[2] = NL
    BY DEF Line
  <2>2. ~Blank(Line(t), 1) /\ ~Blank(Line(t), 2)
    BY <1>1, <2>1 DEF Blank
  <2> QED BY <2>1, <2>2 DEF Plain
<1> QED BY <1>1 DEF Plain

LEMMA Behind ==
    ASSUME NEW x \in Text, NEW y \in Text, Plain(x), Plain(y), Len(x) >= 2
    PROVE  /\ x \o y \in Text /\ Plain(x \o y) /\ Len(x \o y) >= 2
           /\ (x \o y)[1] = x[1] /\ (x \o y)[2] = x[2]
<1>1. /\ x \o y \in Text /\ Len(x \o y) = Len(x) + Len(y)
      /\ \A n \in 1 .. Len(x) : (x \o y)[n] = x[n]
  BY TextConcat, TextFirst, TextSecond
<1>2. Len(x) \in Nat /\ Len(y) \in Nat
  BY TextType
<1>3. Plain(x \o y)
  BY PlainConcat
<1> QED BY <1>1, <1>2, <1>3

(* Headers as they are kept: lines, and a blank one.                       *)
Ended(h) == \E g \in Text : Plain(g) /\ h = g \o <<NL>>

LEMMA ClosingEnd ==
    ASSUME NEW s \in Text, Plain(s), s # <<>>, s[Len(s)] = NL
    PROVE  Closing(s \o <<NL>>)
<1> DEFINE u == s \o <<NL>>
<1>1. /\ Len(u) = Len(s) + 1 /\ Len(s) \in Nat /\ Len(s) >= 1
      /\ \A n \in 1 .. Len(s) : u[n] = s[n]
      /\ u[Len(s) + 1] = NL
  <2>1. <<NL>> \in Text /\ Len(<<NL>>) = 1 /\ <<NL>>[1] = NL
    BY TokenFacts, TextOne
  <2> QED BY <2>1, TextConcat, TextFirst, TextSecond, TextEmpty, TextType
<1> HIDE DEF u
<1>2. ASSUME NEW n \in 1 .. Len(u) PROVE Blank(u, n) <=> n = Len(u)
  <2>1. CASE n = Len(u)
    <3>1. u[n] = NL /\ n - 1 = Len(s) /\ u[n - 1] = NL
      BY <1>1, <2>1
    <3> QED BY <3>1, <2>1 DEF Blank
  <2>2. CASE n # Len(u)
    <3>1. n \in 1 .. Len(s) /\ (n # 1 => n - 1 \in 1 .. Len(s))
      BY <1>1, <2>2
    <3>2. u[n] = s[n] /\ (n # 1 => u[n - 1] = s[n - 1])
      BY <1>1, <3>1
    <3>3. ~Blank(s, n)
      BY <3>1 DEF Plain
    <3> QED BY <2>2, <3>2, <3>3 DEF Blank
  <2> QED BY <2>1, <2>2
<1> QED BY <1>1, <1>2 DEF Closing, u

(* What a worker sends to Tiny: the request line first, and one blank line *)
(* behind the others.                                                      *)
Asks(s, path) ==
    Len(s) >= 2 /\ s[1] = <<"get", path>> /\ s[2] = NL /\ Closing(s)

LEMMA BlankEnd == <<NL>> \in Text /\ Len(<<NL>>) = 1 /\ <<NL>>[1] = NL
BY TokenFacts, TextOne

LEMMA EndedFront ==
    ASSUME NEW g \in Text
    PROVE  /\ SubSeq(g \o <<NL>>, 1, Len(g \o <<NL>>) - 1) = g
           /\ g \o <<NL>> \in Text /\ Len(g \o <<NL>>) = Len(g) + 1
           /\ (g \o <<NL>>)[Len(g) + 1] = NL
           /\ \A n \in 1 .. Len(g) : (g \o <<NL>>)[n] = g[n]
<1>1. PICK e \in Text : e = <<NL>> /\ Len(e) = 1 /\ e[1] = NL
  BY BlankEnd
<1>2. /\ g \o e \in Text /\ Len(g \o e) = Len(g) + 1 /\ Len(g) \in Nat
      /\ \A n \in 1 .. Len(g) : (g \o e)[n] = g[n]
      /\ (g \o e)[Len(g) + 1] = NL
  BY <1>1, TextConcat, TextFirst, TextSecond, TextType
<1>3. PICK h \in Text : h = g \o e
  BY <1>2
<1>4. Len(h) - 1 = Len(g) /\ Len(g) \in 0 .. Len(h)
  BY <1>2, <1>3
<1>5. SubSeq(h, 1, Len(g)) \in Text /\ Len(SubSeq(h, 1, Len(g))) = Len(g)
  BY <1>4, Cut
<1>6. \A n \in 1 .. Len(g) : SubSeq(h, 1, Len(g))[n] = h[n]
  BY <1>4, CutFirst
<1>7. SubSeq(h, 1, Len(g)) = g
  BY <1>2, <1>3, <1>5, <1>6, TextEqual
<1> QED BY <1>1, <1>2, <1>3, <1>4, <1>7

LEMMA UpstreamAsks ==
    ASSUME NEW t, t.path \in Paths, Ended(t.hdr)
    PROVE  Upstream(t) \in Text /\ Asks(Upstream(t), t.path)
<1> DEFINE get == GetLine(t.path)
           name == IF HostLine[1] \in Range(t.hdr) THEN <<>> ELSE Line(<<"name">>)
<1>1. PICK g \in Text : Plain(g) /\ t.hdr = g \o <<NL>>
  BY DEF Ended
<1>3. SubSeq(t.hdr, 1, Len(t.hdr) - 1) = g
  BY <1>1, EndedFront
<1>4. get \in Text /\ Len(get) = 2 /\ get[1] = <<"get", t.path>> /\ get[2] = NL /\ Plain(get)
  <2>1. <<"get", t.path>> \in Token /\ NL \in Token /\ <<"get", t.path>> # NL
    BY TokenFacts
  <2> QED BY <2>1, PlainText, LineTyped DEF GetLine, Text
<1>5. name \in Text /\ Plain(name)
  <2>1. <<"name">> # NL
    BY DEF NL
  <2> QED BY <2>1, LinesTyped, PlainText
<1>6. AgentLine \in Text /\ Plain(AgentLine) /\ Len(AgentLine) = 2 /\ AgentLine[2] = NL
  <2>1. <<"agent">> \in Token /\ NL \in Token /\ <<"agent">> # NL
    <3>1. "agent" \in Plains
      BY DEF Plains
    <3> QED BY <3>1, TokenFacts
  <2> QED BY <2>1, PlainText, LineTyped DEF AgentLine, Text
<1> HIDE DEF get, name
<1>7. PICK s \in Text : /\ s = get \o g \o name \o AgentLine
                       /\ Plain(s) /\ Len(s) >= 4
                       /\ s[1] = get[1] /\ s[2] = get[2] /\ s[Len(s)] = NL
  <2>1. Len(get) >= 2 /\ Plain(g)
    BY <1>1, <1>4
  <2>2. /\ get \o g \in Text /\ Plain(get \o g) /\ Len(get \o g) >= 2
        /\ (get \o g)[1] = get[1] /\ (get \o g)[2] = get[2]
    BY <1>4, <2>1, Behind
  <2>3. PICK x \in Text : x = get \o g
    BY <2>2
  <2>4. /\ x \o name \in Text /\ Plain(x \o name) /\ Len(x \o name) >= 2
        /\ (x \o name)[1] = x[1] /\ (x \o name)[2] = x[2]
    BY <1>5, <2>2, <2>3, Behind
  <2>5. PICK y \in Text : y = x \o name
    BY <2>4
  <2>6. Plain(y) /\ Len(y) >= 2 /\ y[1] = get[1] /\ y[2] = get[2]
    BY <2>2, <2>3, <2>4, <2>5
  <2>7. /\ y \o AgentLine \in Text /\ Plain(y \o AgentLine)
        /\ (y \o AgentLine)[1] = y[1] /\ (y \o AgentLine)[2] = y[2]
    BY <1>6, <2>6, Behind
  <2>8. Len(y \o AgentLine) = Len(y) + 2 /\ (y \o AgentLine)[Len(y) + 2] = NL
    <3>1. 2 \in 1 .. Len(AgentLine)
      BY <1>6
    <3>2. (y \o AgentLine)[Len(y) + 2] = AgentLine[2]
      BY <1>6, <3>1, TextSecond
    <3>3. Len(y \o AgentLine) = Len(y) + Len(AgentLine)
      BY <1>6, TextConcat
    <3> QED BY <1>6, <3>2, <3>3
  <2>9. Len(y) \in Nat
    BY TextType
  <2>10. PICK z \in Text : z = y \o AgentLine
    BY <2>7
  <2>11. z = get \o g \o name \o AgentLine
    BY <2>3, <2>5, <2>10
  <2>12. /\ Plain(z) /\ Len(z) >= 4
         /\ z[1] = get[1] /\ z[2] = get[2] /\ z[Len(z)] = NL
    BY <2>6, <2>7, <2>8, <2>9, <2>10
  <2> QED BY <2>11, <2>12
<1>8. Upstream(t) = s \o <<NL>>
  BY <1>3, <1>7 DEF Upstream, get, name
<1>9. s # <<>>
  BY <1>7
<1>10. Closing(s \o <<NL>>)
  BY <1>7, <1>9, ClosingEnd
<1>11. /\ s \o <<NL>> \in Text /\ Len(s \o <<NL>>) = Len(s) + 1
       /\ (s \o <<NL>>)[1] = s[1] /\ (s \o <<NL>>)[2] = s[2]
  <2>1. Len(s) \in Nat /\ 1 \in 1 .. Len(s) /\ 2 \in 1 .. Len(s)
    BY <1>7, TextType
  <2> QED BY <2>1, EndedFront
<1>12. Len(s \o <<NL>>) >= 2
  BY <1>7, <1>11, TextType
<1> HIDE DEF Asks
<1> QED BY <1>4, <1>7, <1>8, <1>10, <1>11, <1>12 DEF Asks

(* What Tiny may answer to a worker.                                       *)
Answers(path) ==
    {ClientError("404"), ClientError("403")} \cup
        (IF path \in Files THEN {ServeStatic(path)} ELSE {})

(* The first line of an answer tells what it is, as parse_rsphdr takes it  *)
(* to.                                                                     *)
LEMMA AnswerHead ==
    ASSUME NEW path, NEW a \in Answers(path)
    PROVE  /\ a \in Text /\ Len(a) >= 3 /\ a[1] # NL /\ a[2] = NL /\ a[3] = NL
           /\ a[1][1] = "200" =>
                 /\ path \in Files /\ a = ServeStatic(path)
                 /\ a[1] = <<"200", path>>
<1>1. ASSUME NEW code \in {"404", "403"}, a = ClientError(code)
      PROVE  /\ a \in Text /\ Len(a) >= 3 /\ a[2] = NL /\ a[3] = NL
             /\ a[1] # NL /\ a[1][1] # "200"
  <2> DEFINE e == ErrorHeader(code)
             h == <<<<"html">>>>
  <2>0. code \in Plains /\ "html" \in Plains
    BY DEF Plains
  <2>1. e \in Text /\ Len(e) = 3 /\ e[1] = <<code>> /\ e[2] = NL /\ e[3] = NL
    <3>1. <<code>> \in Token /\ NL \in Token
      BY <2>0, TokenFacts
    <3> QED BY <3>1, TextThree DEF ErrorHeader
  <2>2. h \in Text
    <3>1. <<"html">> \in Token
      BY <2>0, TokenFacts
    <3> QED BY <3>1, TextOne
  <2>3. a = e \o h
    BY <1>1 DEF ClientError, ErrorBody
  <2>4. <<code>> # NL /\ <<code>>[1] # "200"
    BY <2>0, TokenFacts
  <2> HIDE DEF e, h
  <2>5. e \o h \in Text /\ Len(e \o h) = Len(e) + Len(h)
        /\ \A n \in 1 .. Len(e) : (e \o h)[n] = e[n]
    BY <2>1, <2>2, TextConcat, TextFirst, TextSecond
  <2>6. Len(h) \in Nat
    BY <2>2, TextType
  <2>7. a[1] = e[1] /\ a[2] = e[2] /\ a[3] = e[3]
    <3>1. 1 \in 1 .. Len(e) /\ 2 \in 1 .. Len(e) /\ 3 \in 1 .. Len(e)
      BY <2>1
    <3> QED BY <3>1, <2>3, <2>5
  <2>8. a \in Text /\ Len(a) >= 3
    BY <2>1, <2>3, <2>5, <2>6
  <2>9. a[1] = <<code>>
    BY <2>1, <2>7
  <2> QED BY <2>1, <2>4, <2>7, <2>8, <2>9
<1>2. ASSUME path \in Files, a = ServeStatic(path)
      PROVE  /\ a \in Text /\ Len(a) >= 3 /\ a[2] = NL /\ a[3] = NL
             /\ a[1] # NL /\ a[1] = <<"200", path>>
  <2>1. Header(path) \in Text /\ Len(Header(path)) = 3 /\ Body(path) \in Text
        /\ Header(path) = <<<<"200", path>>, NL, NL>>
    BY <1>2, BodyTyped
  <2>2. /\ a \in Text /\ Len(a) = 3 + Len(Body(path)) /\ Len(Body(path)) \in Nat
        /\ \A n \in 1 .. 3 : a[n] = Header(path)[n]
    BY <1>2, <2>1, TextConcat, TextFirst, TextSecond, TextEmpty, TextType DEF ServeStatic
  <2>3. <<"200", path>> # NL
    BY TokenFacts
  <2> QED BY <2>1, <2>2, <2>3
<1> QED BY <1>1, <1>2 DEF Answers

---------------------------------------------------------------------------
(* Rio: the functions of the buffered package, for any process.  The       *)
(* types, and what holds of a call and of a buffer whatever the program    *)
(* does.                                                                   *)
Link == [by : Process, to : Servers, in : [Sides -> Text],
         open : [Sides -> BOOLEAN], reset : BOOLEAN]
Buffer == [buf : Text, ptr : Nat, cnt : Nat]
Descriptor == [conn : Nat, side : Sides]
Calling == [op : {"line", "bytes", "write"}, fd : Descriptor, left : Nat, data : Text,
            ret : {"none", "ok", "eof", "error"}]

(* What holds of a call: a line ends where it was found to end, and what    *)
(* was written is gone.                                                     *)
LineRead(c) ==
    c.op = "line" =>
        /\ \A n \in 1 .. Len(c.data) : c.data[n] = NL => n = Len(c.data) /\ c.ret = "ok"
        /\ c.ret = "ok" => c.data # <<>>
Written(c) == c.op = "write" /\ c.ret = "ok" => c.data = <<>>
CallInv(c) ==
    c \in Calling /\ LineRead(c) /\ Written(c) /\ (c.fd # NoFd => c.fd.conn \in 1 .. Len(conn))

BufferInv(r) == r \in Buffer /\ r.ptr + r.cnt <= Len(r.buf) /\ Len(r.buf) <= RioSize
LinkInv(l) == l \in Link /\ \A s \in Sides : Len(l.in[s]) <= Capacity

(* A buffer holds what its pointer and its count say, and no more than     *)
(* RIO_BUFSIZE; a connection holds no more than its capacity.              *)
RioInv ==
    /\ conn \in Seq(Link) /\ \A i \in 1 .. Len(conn) : LinkInv(conn[i])
    /\ rio \in [Process -> Buffer] /\ \A p \in Process : BufferInv(rio[p])
    /\ call \in [Process -> Calling] /\ \A p \in Process : CallInv(call[p])

LEMMA Ends ==
    /\ Sides = {"opener", "acceptor"}
    /\ Other("opener") = "acceptor" /\ Other("acceptor") = "opener"
    /\ \A s \in Sides : Other(s) \in Sides /\ Other(s) # s
<1>1. \A s \in Sides : Other(s) \in Sides /\ Other(s) # s
  <2> SUFFICES ASSUME NEW s \in Sides PROVE Other(s) \in Sides /\ Other(s) # s
    OBVIOUS
  <2>1. \E t \in Sides : t # s
    BY DEF Sides
  <2> QED BY <2>1 DEF Other
<1>2. "opener" \in Sides /\ "acceptor" \in Sides
  BY DEF Sides
<1> QED BY <1>1, <1>2 DEF Sides

LEMMA DescriptorFacts ==
    /\ NoFd \in Descriptor /\ NoFd.conn = 0
    /\ \A i \in Nat, s \in Sides :
          /\ Fd(i, s) \in Descriptor /\ Fd(i, s).conn = i /\ Fd(i, s).side = s
          /\ i # 0 => Fd(i, s) # NoFd
    /\ \A fd \in Descriptor : fd.conn \in Nat /\ fd.side \in Sides /\ fd = Fd(fd.conn, fd.side)
    /\ \A fd : Peer(fd).conn = fd.conn /\ Peer(fd).side = Other(fd.side)
<1>1. "opener" \in Sides
  BY Ends
<1>2. NoFd \in Descriptor /\ NoFd.conn = 0
  BY <1>1 DEF NoFd, Descriptor
<1>3. ASSUME NEW i \in Nat, NEW s \in Sides
      PROVE  /\ Fd(i, s) \in Descriptor /\ Fd(i, s).conn = i /\ Fd(i, s).side = s
             /\ i # 0 => Fd(i, s) # NoFd
  BY <1>2 DEF Fd, Descriptor
<1>4. ASSUME NEW fd \in Descriptor
      PROVE  fd.conn \in Nat /\ fd.side \in Sides /\ fd = Fd(fd.conn, fd.side)
  BY DEF Fd, Descriptor
<1>5. ASSUME NEW fd PROVE Peer(fd).conn = fd.conn /\ Peer(fd).side = Other(fd.side)
  BY DEF Peer, Fd
<1> QED BY <1>2, <1>3, <1>4, <1>5

(* The fields of what has a type.                                          *)
LEMMA LinkFields ==
    \A l \in Link : /\ l.by \in Process /\ l.to \in Servers /\ l.reset \in BOOLEAN
                    /\ l.in \in [Sides -> Text] /\ l.open \in [Sides -> BOOLEAN]
                    /\ \A s \in Sides : l.in[s] \in Text /\ l.open[s] \in BOOLEAN
BY DEF Link

LEMMA CallFields ==
    \A c \in Calling : /\ c.op \in {"line", "bytes", "write"} /\ c.fd \in Descriptor
                       /\ c.left \in Nat /\ c.data \in Text
                       /\ c.ret \in {"none", "ok", "eof", "error"}
BY DEF Calling

LEMMA BufferFields ==
    \A r \in Buffer : r.buf \in Text /\ r.ptr \in Nat /\ r.cnt \in Nat
BY DEF Buffer

(* One direction of one connection is changed.                             *)
PutInto(k, i, s, v) == [k EXCEPT ![i].in[s] = v]
PutReset(k, i) == [k EXCEPT ![i].reset = TRUE]

(* l is k but for that.                                                    *)
IsPut(k, l, i, s, v) ==
    /\ l \in Seq(Link) /\ Len(l) = Len(k)
    /\ \A j \in 1 .. Len(k) :
          /\ l[j].by = k[j].by /\ l[j].to = k[j].to
          /\ l[j].open = k[j].open /\ l[j].reset = k[j].reset
          /\ \A t \in Sides : l[j].in[t] = IF j = i /\ t = s THEN v ELSE k[j].in[t]
    /\ \A j \in (1 .. Len(k)) \ {i} : l[j] = k[j]
IsReset(k, l, i) ==
    /\ l \in Seq(Link) /\ Len(l) = Len(k)
    /\ \A j \in 1 .. Len(k) :
          /\ l[j].by = k[j].by /\ l[j].to = k[j].to
          /\ l[j].open = k[j].open /\ l[j].in = k[j].in
    /\ \A j \in (1 .. Len(k)) \ {i} : l[j] = k[j]

LEMMA PutInFacts ==
    ASSUME NEW k \in Seq(Link), NEW i \in 1 .. Len(k), NEW s \in Sides, NEW v \in Text
    PROVE  IsPut(k, PutInto(k, i, s, v), i, s, v)
<1> DEFINE l == PutInto(k, i, s, v)
           r == [k[i] EXCEPT !.in = [k[i].in EXCEPT ![s] = v]]
<1>1. k[i] \in Link
  BY ElementOfSeq
<1>2. k[i].in \in [Sides -> Text]
  BY <1>1, LinkFields
<1>3. [k[i].in EXCEPT ![s] = v] \in [Sides -> Text]
  BY <1>2
<1>4. /\ r \in Link
      /\ r.by = k[i].by /\ r.to = k[i].to /\ r.open = k[i].open /\ r.reset = k[i].reset
      /\ r.in = [k[i].in EXCEPT ![s] = v]
  BY <1>1, <1>3 DEF Link
<1>5. \A t \in Sides : r.in[t] = IF t = s THEN v ELSE k[i].in[t]
  BY <1>2, <1>4
<1>6. l = [k EXCEPT ![i] = r]
  BY DEF PutInto, l
<1> HIDE DEF r, l
<1>7. /\ l \in Seq(Link) /\ Len(l) = Len(k)
      /\ \A j \in 1 .. Len(k) : l[j] = IF j = i THEN r ELSE k[j]
  <2>1. r \in Link
    BY <1>4
  <2>2. /\ [k EXCEPT ![i] = r] \in Seq(Link) /\ Len([k EXCEPT ![i] = r]) = Len(k)
        /\ \A j \in 1 .. Len(k) : [k EXCEPT ![i] = r][j] = IF j = i THEN r ELSE k[j]
    BY <2>1, ExceptSeq
  <2> QED BY <2>2, <1>6
<1>8. ASSUME NEW j \in 1 .. Len(k)
      PROVE  /\ l[j].by = k[j].by /\ l[j].to = k[j].to
             /\ l[j].open = k[j].open /\ l[j].reset = k[j].reset
             /\ \A t \in Sides : l[j].in[t] = IF j = i /\ t = s THEN v ELSE k[j].in[t]
             /\ j # i => l[j] = k[j]
  <2>1. CASE j = i
    <3>1. l[j] = r
      BY <1>7, <2>1
    <3> QED BY <2>1, <3>1, <1>4, <1>5
  <2>2. CASE j # i
    <3>1. l[j] = k[j]
      BY <1>7, <2>2
    <3> QED BY <2>2, <3>1
  <2> QED BY <2>1, <2>2
<1> QED BY <1>7, <1>8 DEF l, IsPut

LEMMA PutResetFacts ==
    ASSUME NEW k \in Seq(Link), NEW i \in 1 .. Len(k)
    PROVE  IsReset(k, PutReset(k, i), i)
<1> DEFINE l == PutReset(k, i)
           r == [k[i] EXCEPT !.reset = TRUE]
<1>1. k[i] \in Link
  BY ElementOfSeq
<1>2. /\ r \in Link
      /\ r.by = k[i].by /\ r.to = k[i].to /\ r.open = k[i].open /\ r.in = k[i].in
  BY <1>1 DEF Link
<1>3. l = [k EXCEPT ![i] = r]
  BY DEF PutReset, l
<1> HIDE DEF r, l
<1>4. /\ l \in Seq(Link) /\ Len(l) = Len(k)
      /\ \A j \in 1 .. Len(k) : l[j] = IF j = i THEN r ELSE k[j]
  <2>1. r \in Link
    BY <1>2
  <2>2. /\ [k EXCEPT ![i] = r] \in Seq(Link) /\ Len([k EXCEPT ![i] = r]) = Len(k)
        /\ \A j \in 1 .. Len(k) : [k EXCEPT ![i] = r][j] = IF j = i THEN r ELSE k[j]
    BY <2>1, ExceptSeq
  <2> QED BY <2>2, <1>3
<1> QED BY <1>2, <1>4 DEF l, IsReset

(* The same of the connections there are.                                  *)
PutInView(i, s, v) == IsPut(conn, conn', i, s, v)

LEMMA PutIn ==
    ASSUME conn \in Seq(Link), NEW i \in 1 .. Len(conn), NEW s \in Sides, NEW v \in Text,
           conn' = PutInto(conn, i, s, v)
    PROVE  PutInView(i, s, v)
BY PutInFacts DEF PutInView

PutResetView(i) == IsReset(conn, conn', i)

LEMMA PutResetSeen ==
    ASSUME conn \in Seq(Link), NEW i \in 1 .. Len(conn), conn' = PutReset(conn, i)
    PROVE  PutResetView(i)
BY PutResetFacts DEF PutResetView

(* What is in the buffer and was not taken yet.                             *)
LEMMA UnreadFacts ==
    ASSUME NEW r, BufferInv(r)
    PROVE  /\ Unread(r) \in Text /\ Len(Unread(r)) = r.cnt
           /\ \A k \in 1 .. r.cnt : Unread(r)[k] = r.buf[r.ptr + k]
           /\ r.cnt = 0 <=> Unread(r) = <<>>
<1>1. r.buf \in Text /\ r.ptr \in Nat /\ r.cnt \in Nat /\ r.ptr + r.cnt <= Len(r.buf)
  BY BufferFields DEF BufferInv
<1>2. /\ SubSeq(r.buf, r.ptr + 1, r.ptr + r.cnt) \in Text
      /\ Len(SubSeq(r.buf, r.ptr + 1, r.ptr + r.cnt)) = r.cnt
      /\ \A k \in 1 .. r.cnt : SubSeq(r.buf, r.ptr + 1, r.ptr + r.cnt)[k] = r.buf[r.ptr + k]
  BY <1>1, Middle
<1>3. Unread(r) \in Text /\ Len(Unread(r)) = r.cnt
      /\ \A k \in 1 .. r.cnt : Unread(r)[k] = r.buf[r.ptr + k]
  BY <1>2 DEF Unread
<1>4. r.cnt = 0 <=> Unread(r) = <<>>
  BY <1>3, TextType
<1> QED BY <1>3, <1>4

LEMMA RefilledFacts ==
    ASSUME NEW r, BufferInv(r), NEW read \in Text, Len(read) <= RioSize
    PROVE  BufferInv(Refilled(r, read)) /\ Unread(Refilled(r, read)) = read
<1> DEFINE tail == SubSeq(r.buf, Len(read) + 1, Len(r.buf))
           s == Refilled(r, read)
<1>1. r.buf \in Text /\ Len(r.buf) \in Nat /\ Len(read) \in Nat /\ Len(r.buf) <= RioSize
  BY BufferFields, TextType DEF BufferInv
<1>2. /\ tail \in Text
      /\ Len(tail) = IF Len(read) <= Len(r.buf) THEN Len(r.buf) - Len(read) ELSE 0
  <2>1. CASE Len(read) <= Len(r.buf)
    <3>1. Len(read) \in 0 .. Len(r.buf)
      BY <1>1, <2>1
    <3> QED BY <1>1, <2>1, <3>1, Cut
  <2>2. CASE ~(Len(read) <= Len(r.buf))
    <3>1. tail = <<>>
      BY <1>1, <2>2, SubSeqEmpty
    <3> QED BY <2>2, <3>1, TextType
  <2> QED BY <2>1, <2>2
<1> HIDE DEF tail
<1>3. /\ read \o tail \in Text /\ Len(read \o tail) = Len(read) + Len(tail)
      /\ Len(tail) \in Nat
  BY <1>2, TextConcat, TextType
<1>4. s = [buf |-> read \o tail, ptr |-> 0, cnt |-> Len(read)]
  BY DEF Refilled, tail
<1>5. s.buf = read \o tail /\ s.ptr = 0 /\ s.cnt = Len(read) /\ s \in Buffer
  <2>1. s \in Buffer
    BY <1>1, <1>3, <1>4 DEF Buffer
  <2> QED BY <1>4, <2>1
<1> HIDE DEF s
<1>6. Len(s.buf) <= RioSize /\ s.ptr + s.cnt <= Len(s.buf)
  <2>1. Len(s.buf) = Len(read) + Len(tail)
    BY <1>3, <1>5
  <2>2. Len(read) + Len(tail) <= RioSize
    BY <1>1, <1>2, <1>3, SizesAssumption
  <2> QED BY <1>1, <1>3, <1>5, <2>1, <2>2
<1>7. BufferInv(s)
  BY <1>5, <1>6 DEF BufferInv
<1>8. /\ Unread(s) \in Text /\ Len(Unread(s)) = s.cnt
      /\ \A k \in 1 .. s.cnt : Unread(s)[k] = s.buf[s.ptr + k]
  BY <1>7, UnreadFacts
<1>9. \A k \in 1 .. Len(Unread(s)) : Unread(s)[k] = read[k]
  <2> SUFFICES ASSUME NEW k \in 1 .. Len(Unread(s)) PROVE Unread(s)[k] = read[k]
    OBVIOUS
  <2>1. k \in 1 .. s.cnt /\ s.ptr + k = k /\ k \in 1 .. Len(read)
    BY <1>5, <1>8
  <2>2. Unread(s)[k] = (read \o tail)[k]
    BY <1>5, <1>8, <2>1
  <2>3. (read \o tail)[k] = read[k]
    BY <1>2, <2>1, TextFirst
  <2> QED BY <2>2, <2>3
<1>10. Unread(s) = read
  BY <1>5, <1>8, <1>9, TextEqual
<1> QED BY <1>7, <1>10 DEF s

(* The first n tokens are taken.                                           *)
LEMMA TakeFacts ==
    ASSUME NEW r, BufferInv(r), NEW n \in 0 .. r.cnt
    PROVE  /\ BufferInv([r EXCEPT !.ptr = @ + n, !.cnt = @ - n])
           /\ [r EXCEPT !.ptr = @ + n, !.cnt = @ - n].cnt = r.cnt - n
           /\ SubSeq(Unread(r), 1, n) \o Unread([r EXCEPT !.ptr = @ + n, !.cnt = @ - n]) = Unread(r)
<1> DEFINE q == [r EXCEPT !.ptr = @ + n, !.cnt = @ - n]
           u == Unread(r)
<1>1. r.buf \in Text /\ r.ptr \in Nat /\ r.cnt \in Nat /\ r \in Buffer
      /\ r.ptr + r.cnt <= Len(r.buf) /\ Len(r.buf) <= RioSize
  BY BufferFields DEF BufferInv
<1>2. q.buf = r.buf /\ q.ptr = r.ptr + n /\ q.cnt = r.cnt - n /\ q \in Buffer
  <2>1. r.cnt - n \in Nat /\ r.ptr + n \in Nat
    BY <1>1
  <2>2. q.buf = r.buf /\ q.ptr = r.ptr + n /\ q.cnt = r.cnt - n
    BY <1>1 DEF Buffer
  <2>3. q \in Buffer
    BY <1>1, <2>1 DEF Buffer
  <2> QED BY <2>2, <2>3
<1>3. q.cnt \in Nat /\ q.ptr + q.cnt = r.ptr + r.cnt
  BY <1>1, <1>2
<1> HIDE DEF q
<1>4. BufferInv(q)
  BY <1>1, <1>2, <1>3 DEF BufferInv
<1>5. /\ u \in Text /\ Len(u) = r.cnt
      /\ \A k \in 1 .. r.cnt : u[k] = r.buf[r.ptr + k]
  BY UnreadFacts
<1>6. /\ Unread(q) \in Text /\ Len(Unread(q)) = q.cnt
      /\ \A k \in 1 .. q.cnt : Unread(q)[k] = q.buf[q.ptr + k]
  BY <1>4, UnreadFacts
<1> HIDE DEF u
<1>7. n \in 0 .. Len(u)
  BY <1>5
<1>8. SubSeq(u, 1, n) \in Text /\ Len(SubSeq(u, 1, n)) = n
  BY <1>5, <1>7, Cut
<1> DEFINE f == SubSeq(u, 1, n)
<1>9. \A k \in 1 .. n : f[k] = u[k]
  BY <1>5, <1>7, CutFirst
<1> HIDE DEF f
<1>10. f \o Unread(q) \in Text /\ Len(f \o Unread(q)) = Len(u)
  <2>1. f \in Text /\ Len(f) = n
    BY <1>8 DEF f
  <2>2. f \o Unread(q) \in Text /\ Len(f \o Unread(q)) = Len(f) + Len(Unread(q))
    BY <2>1, <1>6, TextConcat
  <2>3. n + (r.cnt - n) = r.cnt
    BY <1>1
  <2> QED BY <1>2, <1>5, <1>6, <2>1, <2>2, <2>3
<1>11. \A k \in 1 .. Len(u) : (f \o Unread(q))[k] = u[k]
  <2> SUFFICES ASSUME NEW k \in 1 .. Len(u) PROVE (f \o Unread(q))[k] = u[k]
    OBVIOUS
  <2>1. CASE k <= n
    <3>1. k \in 1 .. n /\ k \in 1 .. Len(f) /\ f \in Text
      BY <2>1, <1>8 DEF f
    <3> QED BY <3>1, <1>6, <1>9, TextFirst
  <2>2. CASE ~(k <= n)
    <3>1. k - n \in 1 .. q.cnt /\ k \in 1 .. r.cnt
      BY <1>1, <1>2, <1>5, <2>2
    <3>2. k - n \in 1 .. Len(Unread(q)) /\ f \in Text /\ Len(f) + (k - n) = k
      BY <3>1, <1>6, <1>8 DEF f
    <3>3. (f \o Unread(q))[Len(f) + (k - n)] = Unread(q)[k - n]
      BY <3>2, <1>6, TextSecond
    <3>4. Unread(q)[k - n] = r.buf[q.ptr + (k - n)]
      BY <3>1, <1>2, <1>6
    <3>5. q.ptr + (k - n) = r.ptr + k
      BY <1>1, <1>2
    <3>6. u[k] = r.buf[r.ptr + k]
      BY <3>1, <1>5
    <3> QED BY <3>2, <3>3, <3>4, <3>5, <3>6
  <2> QED BY <2>1, <2>2
<1>12. f \o Unread(q) = u
  BY <1>5, <1>10, <1>11, TextEqual
<1> QED BY <1>2, <1>4, <1>12 DEF q, u, f

(* What a loop takes: the line up to its end, or what is left of the count. *)
LEMMA TakenFacts ==
    ASSUME NEW r, BufferInv(r), r.cnt > 0, NEW c \in Calling
    PROVE  /\ Len(Taken(c, r)) \in 0 .. r.cnt /\ Taken(c, r) \in Text
           /\ Taken(c, r) = SubSeq(Unread(r), 1, Len(Taken(c, r)))
           /\ c.op = "line" => IsLine(Taken(c, r))
           /\ c.op # "line" => Len(Taken(c, r)) = Least2(c.left, r.cnt)
<1> DEFINE u == Unread(r)
<1>1. u \in Text /\ Len(u) = r.cnt /\ r.cnt \in Nat
  BY UnreadFacts, BufferFields DEF BufferInv
<1>2. ASSUME NEW n \in 0 .. r.cnt, Taken(c, r) = SubSeq(u, 1, n)
      PROVE  /\ Len(Taken(c, r)) = n /\ Taken(c, r) \in Text
             /\ Taken(c, r) = SubSeq(u, 1, Len(Taken(c, r)))
             /\ \A k \in 1 .. n : Taken(c, r)[k] = u[k]
  <2>1. SubSeq(u, 1, n) \in Text /\ Len(SubSeq(u, 1, n)) = n
    BY <1>1, Cut
  <2>2. \A k \in 1 .. n : SubSeq(u, 1, n)[k] = u[k]
    BY <1>1, CutFirst
  <2> QED BY <1>2, <2>1, <2>2
<1>3. CASE c.op # "line"
  <2> DEFINE n == Least2(c.left, r.cnt)
  <2>1. c.left \in Nat
    BY CallFields
  <2>2. n \in 0 .. r.cnt
    BY <1>1, <2>1 DEF Least2
  <2>3. Taken(c, r) = SubSeq(u, 1, n)
    BY <1>3 DEF Taken
  <2> HIDE DEF n
  <2>4. Len(Taken(c, r)) = n /\ Taken(c, r) \in Text
        /\ Taken(c, r) = SubSeq(u, 1, Len(Taken(c, r)))
    BY <1>2, <2>2, <2>3
  <2> QED BY <1>3, <2>2, <2>4 DEF n
<1>4. CASE c.op = "line"
  <2> HIDE DEF u
  <2>1. Taken(c, r) = LineIn(u)
    BY <1>4 DEF Taken, u
  <2>2. DOMAIN u = 1 .. r.cnt
    BY <1>1, TextType
  <2>3. CASE NL \in Range(u)
    <3> DEFINE ends == {n \in 1 .. r.cnt : u[n] = NL}
    <3>1. ends # {} /\ ends \subseteq Nat
      BY <2>2, <2>3, <1>1 DEF Range
    <3>2. PICK n \in ends : \A m \in ends : n <= m
      BY <3>1, LeastMember
    <3>3. \E k \in DOMAIN u : u[k] = NL /\ \A m \in 1 .. k - 1 : u[m] # NL
      <4>1. n \in DOMAIN u /\ u[n] = NL
        BY <2>2, <3>2
      <4>2. ASSUME NEW m \in 1 .. n - 1 PROVE u[m] # NL
        <5>1. m \in 1 .. r.cnt /\ ~(n <= m)
          BY <1>1, <3>2
        <5> QED BY <5>1, <3>2
      <4> QED BY <4>1, <4>2
    <3> DEFINE k == CHOOSE l \in DOMAIN u : u[l] = NL /\ \A m \in 1 .. l - 1 : u[m] # NL
    <3>4. k \in 1 .. r.cnt /\ u[k] = NL /\ \A m \in 1 .. k - 1 : u[m] # NL
      BY <2>2, <3>3
    <3>5. Taken(c, r) = SubSeq(u, 1, k)
      BY <2>1, <2>3 DEF LineIn
    <3> HIDE DEF k
    <3>6. k \in 0 .. r.cnt
      BY <3>4
    <3>7. /\ Len(Taken(c, r)) = k /\ Taken(c, r) \in Text
          /\ Taken(c, r) = SubSeq(u, 1, Len(Taken(c, r)))
          /\ \A m \in 1 .. k : Taken(c, r)[m] = u[m]
      BY <1>2, <3>5, <3>6
    <3>8. IsLine(Taken(c, r))
      <4>1. Taken(c, r) # <<>>
        BY <3>4, <3>7, TextType
      <4>2. ASSUME NEW m \in 1 .. Len(Taken(c, r)), Taken(c, r)[m] = NL
            PROVE  m = Len(Taken(c, r))
        <5>1. m \in 1 .. k /\ u[m] = NL
          BY <4>2, <3>7
        <5>2. m \notin 1 .. k - 1
          BY <5>1, <3>4
        <5> QED BY <5>1, <5>2, <3>4, <3>7
      <4> QED BY <4>1, <4>2 DEF IsLine
    <3> QED BY <1>4, <3>6, <3>7, <3>8 DEF u
  <2>4. CASE NL \notin Range(u)
    <3>1. Taken(c, r) = u
      BY <2>1, <2>4 DEF LineIn
    <3>2. SubSeq(u, 1, Len(u)) = u
      BY <1>1, SubSeqFull DEF Text
    <3>3. \A m \in 1 .. Len(u) : u[m] # NL
      BY <1>1, <2>2, <2>4 DEF Range
    <3>4. u # <<>>
      BY <1>1, TextType
    <3>5. IsLine(u)
      BY <3>3, <3>4 DEF IsLine
    <3> QED BY <1>1, <1>4, <3>1, <3>2, <3>5 DEF u
  <2> QED BY <2>3, <2>4
<1> QED BY <1>3, <1>4

(* What a process has read with this call, what is in its buffer, and what  *)
(* is in its socket, in the order of the stream.                           *)
Ahead(p) == (Data(p) \o Unread(rio[p])) \o Incoming(call[p].fd)

(* What no step of the functions of rio does: touch another process, or    *)
(* another connection than that of its descriptor.                         *)
Frame(p) ==
    /\ Len(conn') = Len(conn)
    /\ \A q \in Process \ {p} : rio'[q] = rio[q] /\ call'[q] = call[q]
    /\ call'[p].fd = call[p].fd /\ call'[p].op = call[p].op
    /\ \A i \in 1 .. Len(conn) :
          /\ conn'[i].by = conn[i].by /\ conn'[i].to = conn[i].to
          /\ conn'[i].open = conn[i].open
          /\ i # call[p].fd.conn => conn'[i] = conn[i]

(* The parts of the invariant, for one process and one connection.         *)
LEMMA RioParts ==
    ASSUME RioInv, NEW p \in Process
    PROVE  /\ BufferInv(rio[p]) /\ CallInv(call[p]) /\ call[p] \in Calling
           /\ call[p].op \in {"line", "bytes", "write"} /\ call[p].fd \in Descriptor
           /\ call[p].left \in Nat /\ call[p].data \in Text
           /\ call[p].ret \in {"none", "ok", "eof", "error"}
           /\ rio[p].buf \in Text /\ rio[p].ptr \in Nat /\ rio[p].cnt \in Nat
           /\ Unread(rio[p]) \in Text
           /\ call[p].fd # NoFd => /\ call[p].fd.conn \in 1 .. Len(conn)
                                   /\ call[p].fd.side \in Sides
                                   /\ Incoming(call[p].fd) \in Text
                                   /\ Incoming(Peer(call[p].fd)) \in Text
           /\ call[p].fd = NoFd => call[p].fd.conn = 0
<1>1. BufferInv(rio[p]) /\ CallInv(call[p])
  BY DEF RioInv
<1>2. call[p] \in Calling /\ (call[p].fd # NoFd => call[p].fd.conn \in 1 .. Len(conn))
  BY <1>1 DEF CallInv
<1>3. /\ call[p].op \in {"line", "bytes", "write"} /\ call[p].fd \in Descriptor
      /\ call[p].left \in Nat /\ call[p].data \in Text
      /\ call[p].ret \in {"none", "ok", "eof", "error"}
  BY <1>2, CallFields
<1>4. rio[p].buf \in Text /\ rio[p].ptr \in Nat /\ rio[p].cnt \in Nat
  BY <1>1, BufferFields DEF BufferInv
<1>5. Unread(rio[p]) \in Text
  BY <1>1, UnreadFacts
<1>6. ASSUME call[p].fd # NoFd
      PROVE  /\ call[p].fd.side \in Sides /\ Incoming(call[p].fd) \in Text
             /\ Incoming(Peer(call[p].fd)) \in Text
  <2>1. call[p].fd.side \in Sides /\ Other(call[p].fd.side) \in Sides
    BY <1>3, DescriptorFacts, Ends
  <2>2. conn[call[p].fd.conn] \in Link
    BY <1>2, <1>6, ElementOfSeq DEF RioInv
  <2>3. Peer(call[p].fd).conn = call[p].fd.conn /\ Peer(call[p].fd).side = Other(call[p].fd.side)
    BY DescriptorFacts
  <2> QED BY <2>1, <2>2, <2>3, LinkFields DEF Incoming
<1> QED BY <1>1, <1>2, <1>3, <1>4, <1>5, <1>6, DescriptorFacts

LEMMA LinkParts ==
    ASSUME RioInv, NEW i \in 1 .. Len(conn)
    PROVE  /\ conn[i] \in Link /\ LinkInv(conn[i])
           /\ conn[i].by \in Process /\ conn[i].to \in Servers /\ conn[i].reset \in BOOLEAN
           /\ conn[i].in \in [Sides -> Text] /\ conn[i].open \in [Sides -> BOOLEAN]
           /\ \A s \in Sides : /\ conn[i].in[s] \in Text /\ conn[i].open[s] \in BOOLEAN
                               /\ Len(conn[i].in[s]) <= Capacity
<1>1. conn[i] \in Link /\ LinkInv(conn[i])
  BY DEF RioInv, LinkInv
<1> QED BY <1>1, LinkFields DEF LinkInv

(* The invariant again, after a step that kept the number of connections.   *)
LEMMA RioInvAgain ==
    ASSUME RioInv, NEW p \in Process, Frame(p),
           conn' \in Seq(Link), \A i \in 1 .. Len(conn) : LinkInv(conn'[i]),
           rio' \in [Process -> Buffer], BufferInv(rio'[p]),
           call' \in [Process -> Calling], LineRead(call'[p]), Written(call'[p])
    PROVE  RioInv'
<1>1. ASSUME NEW q \in Process PROVE BufferInv(rio'[q])
  <2>1. BufferInv(rio[q])
    BY DEF RioInv
  <2> QED BY <2>1 DEF Frame
<1>2. ASSUME NEW q \in Process PROVE CallInv(call[q])'
  <2>1. CASE q = p
    <3>1. CallInv(call[p])
      BY DEF RioInv
    <3>2. call'[p] \in Calling /\ call'[p].fd = call[p].fd /\ Len(conn') = Len(conn)
      BY DEF Frame
    <3> QED BY <2>1, <3>1, <3>2 DEF CallInv
  <2>2. CASE q # p
    <3>1. call'[q] = call[q] /\ Len(conn') = Len(conn)
      BY <2>2 DEF Frame
    <3>2. CallInv(call[q])
      BY DEF RioInv
    <3> QED BY <3>1, <3>2 DEF CallInv
  <2> QED BY <2>1, <2>2
<1>3. \A i \in 1 .. Len(conn') : LinkInv(conn'[i])
  BY DEF Frame
<1> QED BY <1>1, <1>2, <1>3 DEF RioInv

(* A refill takes from the socket what it puts into the buffer.            *)
LEMMA RefillView ==
    ASSUME RioInv, NEW p \in Process, Refill(p)
    PROVE  /\ RioInv' /\ Frame(p) /\ call' = call
           /\ Reading(p) /\ call[p].fd # NoFd /\ Incoming(call[p].fd) # <<>> /\ rio[p].cnt = 0
           /\ \A i \in 1 .. Len(conn) :
                 /\ conn'[i].reset = conn[i].reset
                 /\ \A s \in Sides : s # call[p].fd.side => conn'[i].in[s] = conn[i].in[s]
           /\ Ahead(p)' = Ahead(p)
<1> DEFINE fd == call[p].fd
           in == Incoming(fd)
<1>1. Reading(p) /\ rio[p].cnt = 0 /\ fd # NoFd /\ in # <<>> /\ call' = call
  BY Zenon DEF Refill
<1>2. PICK n \in Amounts(p, Least2(RioSize, Len(in))) :
          /\ rio' = [rio EXCEPT ![p] = Refilled(rio[p], SubSeq(in, 1, n))]
          /\ conn' = [conn EXCEPT ![fd.conn].in[fd.side] =
                         SubSeq(conn[fd.conn].in[fd.side], n + 1, Len(conn[fd.conn].in[fd.side]))]
  BY Zenon DEF Refill
<1>3. /\ BufferInv(rio[p]) /\ fd \in Descriptor /\ fd.conn \in 1 .. Len(conn) /\ fd.side \in Sides
      /\ in \in Text /\ call[p].data \in Text /\ Unread(rio[p]) \in Text
      /\ LineRead(call[p]) /\ Written(call[p])
  BY <1>1, RioParts DEF CallInv
<1>4. n \in 0 .. Len(in) /\ n <= RioSize
  <2>1. Len(in) \in Nat /\ Len(in) >= 1
    BY <1>1, <1>3, TextType
  <2> HIDE DEF in
  <2>2. n \in {1, Least2(RioSize, Len(in))}
    BY <1>2, Zenon DEF Amounts
  <2> QED BY <2>1, <2>2, SizesAssumption DEF Least2
<1> DEFINE read == SubSeq(in, 1, n)
           rest == SubSeq(in, n + 1, Len(in))
<1>5. read \in Text /\ Len(read) = n /\ rest \in Text /\ Len(rest) = Len(in) - n /\ read \o rest = in
  BY <1>3, <1>4, Cut, Zenon
<1>6. conn' = [conn EXCEPT ![fd.conn].in[fd.side] = rest]
  BY <1>2, Zenon DEF Incoming
<1> HIDE DEF read, rest
<1>7. conn \in Seq(Link)
  BY DEF RioInv
<1>8. /\ conn' \in Seq(Link) /\ Len(conn') = Len(conn)
      /\ \A j \in 1 .. Len(conn) :
            /\ conn'[j].by = conn[j].by /\ conn'[j].to = conn[j].to
            /\ conn'[j].open = conn[j].open /\ conn'[j].reset = conn[j].reset
            /\ \A t \in Sides :
                  conn'[j].in[t] = IF j = fd.conn /\ t = fd.side THEN rest ELSE conn[j].in[t]
      /\ \A j \in (1 .. Len(conn)) \ {fd.conn} : conn'[j] = conn[j]
  <2>1. PICK i \in 1 .. Len(conn), s \in Sides : i = fd.conn /\ s = fd.side
    BY <1>3
  <2>2. conn' = PutInto(conn, i, s, rest)
    BY <1>6, <2>1 DEF PutInto
  <2>3. PutInView(i, s, rest)
    BY <1>5, <1>7, <2>2, PutIn
  <2> QED BY <2>1, <2>3 DEF PutInView, IsPut
<1>9. BufferInv(Refilled(rio[p], read)) /\ Unread(Refilled(rio[p], read)) = read
  BY <1>3, <1>4, <1>5, RefilledFacts
<1>10. /\ rio' \in [Process -> Buffer] /\ rio'[p] = Refilled(rio[p], read)
       /\ \A q \in Process \ {p} : rio'[q] = rio[q]
  <2>1. rio \in [Process -> Buffer] /\ Refilled(rio[p], read) \in Buffer
    BY <1>9 DEF RioInv, BufferInv
  <2>2. rio' = [rio EXCEPT ![p] = Refilled(rio[p], read)]
    BY <1>2, Zenon DEF read
  <2> QED BY <2>1, <2>2
<1>11. Frame(p)
  BY <1>1, <1>8, <1>10 DEF Frame
<1>12. \A i \in 1 .. Len(conn) : LinkInv(conn'[i])
  <2> SUFFICES ASSUME NEW i \in 1 .. Len(conn) PROVE LinkInv(conn'[i])
    OBVIOUS
  <2>1. conn'[i] \in Link
    BY <1>8, ElementOfSeq
  <2>2. ASSUME NEW s \in Sides PROVE Len(conn'[i].in[s]) <= Capacity
    <3>1. Len(conn[i].in[s]) <= Capacity /\ Len(conn[i].in[s]) \in Nat
      BY LinkParts, TextType
    <3>2. CASE i = fd.conn /\ s = fd.side
      <4>1. conn'[i].in[s] = rest /\ in = conn[i].in[s]
        BY <1>8, <3>2 DEF Incoming
      <4> QED BY <4>1, <3>1, <1>4, <1>5, SizesAssumption
    <3>3. CASE ~(i = fd.conn /\ s = fd.side)
      BY <3>1, <3>3, <1>8
    <3> QED BY <3>2, <3>3
  <2> QED BY <2>1, <2>2 DEF LinkInv
<1>13. RioInv'
  <2>1. call' \in [Process -> Calling]
    BY <1>1 DEF RioInv
  <2> QED BY <2>1, <1>1, <1>3, <1>8, <1>9, <1>10, <1>11, <1>12, RioInvAgain
<1>14. Ahead(p)' = Ahead(p)
  <2>1. Unread(rio[p]) = <<>>
    BY <1>1, <1>3, UnreadFacts
  <2>2. Ahead(p) = Data(p) \o in
    BY <2>1, <1>3, TextEmpty DEF Ahead, Data
  <2>3. Incoming(fd)' = rest
    BY <1>1, <1>3, <1>8 DEF Incoming
  <2>4. Ahead(p)' = (Data(p) \o read) \o rest
    BY <1>1, <1>9, <1>10, <2>3 DEF Ahead, Data
  <2>5. (Data(p) \o read) \o rest = Data(p) \o (read \o rest)
    BY <1>3, <1>5, TextGroup DEF Data
  <2> QED BY <1>5, <2>2, <2>4, <2>5
<1> QED BY <1>1, <1>8, <1>11, <1>13, <1>14

(* Steps that change the record of the call only.                          *)
LEMMA OnlyCall ==
    ASSUME RioInv, NEW p \in Process, NEW c \in Calling,
           call' = [call EXCEPT ![p] = c], conn' = conn, rio' = rio,
           c.fd = call[p].fd, c.op = call[p].op, LineRead(c), Written(c)
    PROVE  RioInv' /\ Frame(p) /\ call'[p] = c
<1>1. call \in [Process -> Calling] /\ rio \in [Process -> Buffer] /\ conn \in Seq(Link)
  BY DEF RioInv
<1>2. call' \in [Process -> Calling] /\ call'[p] = c
      /\ \A q \in Process \ {p} : call'[q] = call[q]
  BY <1>1
<1>3. Frame(p)
  BY <1>2 DEF Frame
<1>4. BufferInv(rio'[p]) /\ \A i \in 1 .. Len(conn) : LinkInv(conn'[i])
  BY DEF RioInv
<1>5. rio' \in [Process -> Buffer] /\ conn' \in Seq(Link)
  BY <1>1
<1>6. LineRead(call'[p]) /\ Written(call'[p])
  BY <1>2
<1> QED BY <1>2, <1>3, <1>4, <1>5, <1>6, RioInvAgain

(* A call record with another ret.                                         *)
LEMMA RetFacts ==
    ASSUME NEW c \in Calling, NEW ret \in {"none", "ok", "eof", "error"}
    PROVE  /\ [c EXCEPT !.ret = ret] \in Calling
           /\ [c EXCEPT !.ret = ret].op = c.op /\ [c EXCEPT !.ret = ret].fd = c.fd
           /\ [c EXCEPT !.ret = ret].left = c.left /\ [c EXCEPT !.ret = ret].data = c.data
           /\ [c EXCEPT !.ret = ret].ret = ret
BY DEF Calling

WithRet(c, ret) == [c EXCEPT !.ret = ret]

LEMMA WithRetFacts ==
    \A c \in Calling : \A ret \in {"none", "ok", "eof", "error"} :
        /\ WithRet(c, ret) \in Calling
        /\ WithRet(c, ret).op = c.op /\ WithRet(c, ret).fd = c.fd
        /\ WithRet(c, ret).left = c.left /\ WithRet(c, ret).data = c.data
        /\ WithRet(c, ret).ret = ret
BY DEF Calling, WithRet

LEMMA ReadEndView ==
    ASSUME RioInv, NEW p \in Process, ReadEnd(p)
    PROVE  /\ RioInv' /\ Frame(p) /\ conn' = conn /\ rio' = rio
           /\ Reading(p) /\ rio[p].cnt = 0
           /\ call'[p].data = call[p].data /\ call'[p].left = call[p].left
           /\ call'[p].ret # "none"
           /\ \/ /\ call[p].fd # NoFd /\ Incoming(call[p].fd) = <<>> /\ ~IsOpen(Peer(call[p].fd))
                 /\ call'[p].ret = (IF call[p].op = "line" /\ call[p].data = <<>> THEN "eof" ELSE "ok")
              \/ Broken(call[p].fd) /\ call'[p].ret = "error"
<1> DEFINE c(ret) == WithRet(call[p], ret)
<1>1. Reading(p) /\ rio[p].cnt = 0 /\ conn' = conn /\ rio' = rio
  BY DEF ReadEnd
<1>2. call[p] \in Calling /\ LineRead(call[p]) /\ Written(call[p])
  BY RioParts DEF CallInv
<1>3. call[p].op # "write" /\ call[p].ret = "none"
  BY <1>1 DEF Reading, Returned
<1>4. PICK ret \in {"ok", "eof", "error"} :
          /\ call' = [call EXCEPT ![p].ret = ret]
          /\ \/ /\ call[p].fd # NoFd /\ Incoming(call[p].fd) = <<>> /\ ~IsOpen(Peer(call[p].fd))
                /\ ret = (IF call[p].op = "line" /\ call[p].data = <<>> THEN "eof" ELSE "ok")
             \/ Broken(call[p].fd) /\ ret = "error"
  BY DEF ReadEnd, Return
<1>5. /\ c(ret) \in Calling /\ c(ret).op = call[p].op /\ c(ret).fd = call[p].fd
      /\ c(ret).left = call[p].left /\ c(ret).data = call[p].data /\ c(ret).ret = ret
  BY <1>2, WithRetFacts
<1>6. call' = [call EXCEPT ![p] = c(ret)]
  BY <1>4 DEF WithRet
<1> HIDE DEF c
<1>7. LineRead(c(ret))
  <2>1. \A n \in 1 .. Len(call[p].data) : call[p].op = "line" => call[p].data[n] # NL
    BY <1>2, <1>3 DEF LineRead
  <2>2. call[p].op = "line" /\ ret = "ok" => call[p].data # <<>>
    BY <1>4
  <2> QED BY <1>5, <2>1, <2>2 DEF LineRead
<1>8. Written(c(ret))
  BY <1>3, <1>5 DEF Written
<1>9. RioInv' /\ Frame(p) /\ call'[p] = c(ret)
  BY <1>1, <1>5, <1>6, <1>7, <1>8, OnlyCall
<1> QED BY <1>1, <1>4, <1>5, <1>9

LEMMA WriteFailsView ==
    ASSUME RioInv, NEW p \in Process, WriteFails(p)
    PROVE  /\ RioInv' /\ Frame(p) /\ conn' = conn /\ rio' = rio
           /\ Writing(p) /\ Broken(call[p].fd)
           /\ call'[p].data = call[p].data /\ call'[p].left = call[p].left
           /\ call'[p].ret = "error"
<1> DEFINE c == [call[p] EXCEPT !.ret = "error"]
<1>1. Writing(p) /\ Broken(call[p].fd) /\ conn' = conn /\ rio' = rio
      /\ call' = [call EXCEPT ![p].ret = "error"]
  BY DEF WriteFails, Return
<1>2. call[p] \in Calling /\ call[p].op = "write"
  BY <1>1, RioParts DEF Writing
<1>3. /\ c \in Calling /\ c.op = call[p].op /\ c.fd = call[p].fd
      /\ c.left = call[p].left /\ c.data = call[p].data /\ c.ret = "error"
  BY <1>2, RetFacts
<1>4. call' = [call EXCEPT ![p] = c]
  BY <1>1
<1> HIDE DEF c
<1>5. LineRead(c) /\ Written(c)
  BY <1>2, <1>3 DEF LineRead, Written
<1>6. RioInv' /\ Frame(p) /\ call'[p] = c
  BY <1>1, <1>3, <1>4, <1>5, OnlyCall
<1> QED BY <1>1, <1>3, <1>6

(* Copying moves tokens from the buffer to what was read, in their order.   *)
LEMMA CopyView ==
    ASSUME RioInv, NEW p \in Process, Copy(p)
    PROVE  /\ RioInv' /\ Frame(p) /\ conn' = conn
           /\ Reading(p) /\ rio[p].cnt > 0
           /\ call'[p].ret \in {"none", "ok"}
           /\ call[p].op = "line" => /\ call'[p].data # <<>>
                                     /\ call'[p].ret = "ok" => Last(call'[p].data) = NL
           /\ call[p].op = "bytes" =>
                 /\ call'[p].left + Len(call'[p].data) = call[p].left + Len(call[p].data)
                 /\ call'[p].ret = "ok" => call'[p].left = 0
           /\ call[p].fd # NoFd => Ahead(p)' = Ahead(p)
<1> DEFINE t == Taken(call[p], rio[p])
           n == Len(t)
           r == [rio[p] EXCEPT !.ptr = @ + n, !.cnt = @ - n]
           left == IF call[p].op = "line" THEN call[p].left ELSE call[p].left - n
           ret == IF Complete(call[p], t) THEN "ok" ELSE call[p].ret
           c == [call[p] EXCEPT !.data = @ \o t,
                                !.left = IF call[p].op = "line" THEN @ ELSE @ - n,
                                !.ret = IF Complete(call[p], t) THEN "ok" ELSE @]
<1>1. /\ Reading(p) /\ rio[p].cnt > 0 /\ conn' = conn
      /\ call' = [call EXCEPT ![p] = c]
      /\ rio' = [rio EXCEPT ![p].ptr = @ + n, ![p].cnt = @ - n]
  <2>1. Reading(p) /\ rio[p].cnt > 0 /\ conn' = conn
    BY DEF Copy
  <2>2. call' = [call EXCEPT ![p] = c]
    <3>1. call' = [call EXCEPT ![p].data = @ \o t,
                               ![p].left = IF call[p].op = "line" THEN @ ELSE @ - n,
                               ![p].ret = IF Complete(call[p], t) THEN "ok" ELSE @]
      BY Zenon DEF Copy
    <3>2. call \in [Process -> Calling] /\ call[p] \in Calling
      BY RioParts DEF RioInv
    <3> HIDE DEF t, n
    <3> QED BY <3>1, <3>2 DEF Calling
  <2>3. rio' = [rio EXCEPT ![p].ptr = @ + n, ![p].cnt = @ - n]
    BY Zenon DEF Copy
  <2> QED BY <2>1, <2>2, <2>3
<1>2. /\ call[p] \in Calling /\ LineRead(call[p]) /\ Written(call[p]) /\ BufferInv(rio[p])
      /\ call[p].data \in Text /\ call[p].left \in Nat /\ rio[p].cnt \in Nat
      /\ call[p].op \in {"line", "bytes", "write"} /\ Unread(rio[p]) \in Text
  BY RioParts DEF CallInv
<1>3. call[p].op # "write" /\ call[p].ret = "none"
  BY <1>1 DEF Reading, Returned
<1>4. /\ n \in 0 .. rio[p].cnt /\ t \in Text
      /\ t = SubSeq(Unread(rio[p]), 1, n)
      /\ call[p].op = "line" => IsLine(t)
      /\ call[p].op # "line" => n = Least2(call[p].left, rio[p].cnt)
  BY <1>1, <1>2, TakenFacts
<1> HIDE DEF t
<1>5. n \in Nat /\ (call[p].op # "line" => n <= call[p].left)
  BY <1>2, <1>4 DEF Least2
<1>6. left \in Nat
  BY <1>2, <1>5
<1>7. call[p].data \o t \in Text /\ Len(call[p].data \o t) = Len(call[p].data) + n
  BY <1>2, <1>4, TextConcat
<1>8. /\ c.op = call[p].op /\ c.fd = call[p].fd /\ c.data = call[p].data \o t
      /\ c.left = left /\ c.ret = ret
  BY <1>2 DEF Calling
<1>9. ret \in {"none", "ok"}
  BY <1>3
<1>10. c \in Calling
  BY <1>2, <1>6, <1>7, <1>9 DEF Calling
<1>11. BufferInv(r) /\ SubSeq(Unread(rio[p]), 1, n) \o Unread(r) = Unread(rio[p])
  BY <1>2, <1>4, TakeFacts, Zenon
<1>12. rio' = [rio EXCEPT ![p] = r]
  BY <1>1
<1>13. /\ rio' \in [Process -> Buffer] /\ rio'[p] = r
       /\ \A q \in Process \ {p} : rio'[q] = rio[q]
  <2>1. rio \in [Process -> Buffer] /\ r \in Buffer
    BY <1>11 DEF RioInv, BufferInv
  <2> HIDE DEF r
  <2> QED BY <1>12, <2>1
<1>14. /\ call' \in [Process -> Calling] /\ call'[p] = c
       /\ \A q \in Process \ {p} : call'[q] = call[q]
  <2>1. call \in [Process -> Calling]
    BY DEF RioInv
  <2> HIDE DEF c
  <2> QED BY <1>1, <1>10, <2>1
<1>15. Complete(call[p], t) = (IF call[p].op = "line" THEN Last(t) = NL ELSE n = call[p].left)
  BY DEF Complete
<1> HIDE DEF c, r, left
<1>16. Frame(p)
  BY <1>1, <1>8, <1>13, <1>14 DEF Frame
<1>17. call[p].op = "line" =>
           /\ c.data # <<>> /\ (c.ret = "ok" <=> Last(t) = NL)
           /\ Last(c.data) = Last(t)
           /\ \A k \in 1 .. Len(c.data) : c.data[k] = NL => k = Len(c.data) /\ c.ret = "ok"
  <2> SUFFICES ASSUME call[p].op = "line"
               PROVE  /\ c.data # <<>> /\ (c.ret = "ok" <=> Last(t) = NL)
                      /\ Last(c.data) = Last(t)
                      /\ \A k \in 1 .. Len(c.data) :
                            c.data[k] = NL => k = Len(c.data) /\ c.ret = "ok"
    OBVIOUS
  <2> DEFINE d == call[p].data
  <2>0. IsLine(t) /\ t # <<>>
    BY <1>4, Zenon DEF IsLine
  <2>1. IsLine(t) /\ t # <<>> /\ n >= 1 /\ Len(d) \in Nat
    <3>1. n # 0
      BY <1>4, <2>0, TextType
    <3> QED BY <3>1, <2>0, <1>2, <1>5, TextType
  <2>2. c.ret = "ok" <=> Last(t) = NL
    BY <1>3, <1>8, <1>15
  <2>3. Len(c.data) = Len(d) + n /\ c.data \in Text /\ c.data # <<>>
    BY <1>7, <1>8, <2>1, TextType
  <2>4. c.data[Len(d) + n] = t[n]
    <3>1. n \in 1 .. Len(t)
      BY <2>1, <1>5
    <3> QED BY <3>1, <1>2, <1>4, <1>8, TextSecond
  <2>5. Last(c.data) = t[n] /\ Last(t) = t[n]
    BY <2>3, <2>4 DEF Last
  <2>6. ASSUME NEW k \in 1 .. Len(c.data), c.data[k] = NL
        PROVE  k = Len(c.data) /\ c.ret = "ok"
    <3>1. CASE k <= Len(d)
      <4>1. k \in 1 .. Len(d)
        BY <3>1, <2>1
      <4>2. d[k] = NL
        BY <4>1, <1>2, <1>4, <1>8, <2>6, TextFirst
      <4> QED BY <4>1, <4>2, <1>2, <1>3 DEF LineRead
    <3>2. CASE ~(k <= Len(d))
      <4>1. k - Len(d) \in 1 .. Len(t) /\ Len(d) + (k - Len(d)) = k
        BY <3>2, <2>1, <2>3, <1>5
      <4>2. c.data[Len(d) + (k - Len(d))] = t[k - Len(d)]
        BY <4>1, <1>2, <1>4, <1>8, TextSecond
      <4>3. k - Len(d) = Len(t)
        BY <2>1, <2>6, <4>1, <4>2 DEF IsLine
      <4>4. k = Len(c.data)
        BY <2>1, <2>3, <4>1, <4>3
      <4>5. t[n] = NL
        BY <2>6, <4>1, <4>2, <4>3
      <4> QED BY <4>4, <4>5, <2>2, <2>5
    <3> QED BY <3>1, <3>2
  <2> QED BY <2>2, <2>3, <2>5, <2>6
<1>18. LineRead(c) /\ Written(c)
  BY <1>3, <1>8, <1>17 DEF LineRead, Written
<1>19. RioInv'
  <2>1. conn' \in Seq(Link) /\ \A i \in 1 .. Len(conn) : LinkInv(conn'[i])
    BY <1>1 DEF RioInv
  <2> QED BY <2>1, <1>11, <1>13, <1>14, <1>16, <1>18, RioInvAgain
<1>20. call[p].op = "bytes" => /\ c.left + Len(c.data) = call[p].left + Len(call[p].data)
                               /\ c.ret = "ok" => c.left = 0
  <2> SUFFICES ASSUME call[p].op = "bytes"
               PROVE  /\ c.left + Len(c.data) = call[p].left + Len(call[p].data)
                      /\ c.ret = "ok" => c.left = 0
    OBVIOUS
  <2>1. c.left = call[p].left - n
    BY <1>8 DEF left
  <2>2. c.ret = "ok" => n = call[p].left
    BY <1>3, <1>8, <1>15
  <2>3. Len(call[p].data) \in Nat
    BY <1>2, TextType
  <2> QED BY <1>2, <1>5, <1>7, <1>8, <2>1, <2>2, <2>3
<1>21. ASSUME call[p].fd # NoFd PROVE Ahead(p)' = Ahead(p)
  <2> DEFINE in == Incoming(call[p].fd)
  <2>1. in \in Text
    BY <1>21, RioParts
  <2>2. Incoming(call[p].fd)' = in
    BY <1>1, <1>8, <1>14 DEF Incoming
  <2>3. Ahead(p)' = ((Data(p) \o t) \o Unread(r)) \o in
    BY <1>8, <1>13, <1>14, <2>2 DEF Ahead, Data
  <2>4. Unread(r) \in Text
    BY <1>11, UnreadFacts
  <2>5. (Data(p) \o t) \o Unread(r) = Data(p) \o (t \o Unread(r))
    BY <1>2, <1>4, <2>4, TextGroup DEF Data
  <2>6. t \o Unread(r) = Unread(rio[p])
    BY <1>4, <1>11
  <2> QED BY <2>3, <2>5, <2>6 DEF Ahead
<1> QED BY <1>1, <1>8, <1>9, <1>14, <1>16, <1>17, <1>19, <1>20, <1>21

(* A call record after n tokens were sent.                                 *)
Less(c, n) == [c EXCEPT !.data = Unsent(@, n), !.ret = IF n = Len(c.data) THEN "ok" ELSE @]

LEMMA LessFacts ==
    ASSUME NEW c \in Calling, NEW n \in 0 .. Len(c.data), c.ret = "none", c.op = "write"
    PROVE  /\ Less(c, n) \in Calling /\ LineRead(Less(c, n)) /\ Written(Less(c, n))
           /\ Less(c, n).op = c.op /\ Less(c, n).fd = c.fd /\ Less(c, n).left = c.left
           /\ SubSeq(c.data, 1, n) \in Text /\ Len(SubSeq(c.data, 1, n)) = n
           /\ SubSeq(c.data, 1, n) \o Less(c, n).data = c.data
           /\ Less(c, n).ret \in {"none", "ok"}
           /\ Less(c, n).ret = "none" => Less(c, n).data # <<>>
<1> DEFINE rest == SubSeq(c.data, n + 1, Len(c.data))
           ret == IF n = Len(c.data) THEN "ok" ELSE c.ret
<1>1. c.data \in Text /\ Len(c.data) \in Nat
  BY CallFields, TextType
<1>2. /\ SubSeq(c.data, 1, n) \in Text /\ Len(SubSeq(c.data, 1, n)) = n
      /\ rest \in Text /\ Len(rest) = Len(c.data) - n
      /\ SubSeq(c.data, 1, n) \o rest = c.data
  BY <1>1, Cut
<1>3. Less(c, n) = [c EXCEPT !.data = rest, !.ret = ret]
  BY DEF Less, Unsent
<1> HIDE DEF rest
<1>4. ret \in {"none", "ok"}
  OBVIOUS
<1>5. /\ Less(c, n) \in Calling
      /\ Less(c, n).op = c.op /\ Less(c, n).fd = c.fd /\ Less(c, n).left = c.left
      /\ Less(c, n).data = rest /\ Less(c, n).ret = ret
  BY <1>2, <1>3, <1>4 DEF Calling
<1>6. ret = "ok" <=> n = Len(c.data)
  OBVIOUS
<1>7. rest = <<>> <=> n = Len(c.data)
  BY <1>1, <1>2, TextType
<1> HIDE DEF ret
<1> QED BY <1>2, <1>4, <1>5, <1>6, <1>7 DEF LineRead, Written

LEMMA WriteView ==
    ASSUME RioInv, NEW p \in Process, Write(p)
    PROVE  /\ RioInv' /\ Frame(p) /\ rio' = rio
           /\ Writing(p) /\ call[p].fd # NoFd /\ ~conn[call[p].fd.conn].reset
           /\ call'[p].left = call[p].left /\ call'[p].ret \in {"none", "ok"}
           /\ call'[p].ret = "none" => call'[p].data # <<>>
           /\ \/ /\ IsOpen(Peer(call[p].fd))
                 /\ \A i \in 1 .. Len(conn) : conn'[i].reset = conn[i].reset
                 /\ conn'[call[p].fd.conn].in[call[p].fd.side] = Incoming(call[p].fd)
                 /\ conn'[call[p].fd.conn].in[Other(call[p].fd.side)] \o call'[p].data
                       = Incoming(Peer(call[p].fd)) \o call[p].data
              \/ /\ ~IsOpen(Peer(call[p].fd))
                 /\ \A i \in 1 .. Len(conn) : conn'[i].in = conn[i].in
<1> DEFINE fd == call[p].fd
           to == Peer(fd)
           data == call[p].data
<1>1. Writing(p) /\ ~Broken(fd) /\ rio' = rio
  BY Zenon DEF Write
<1>2. fd # NoFd /\ ~conn[fd.conn].reset /\ call[p].op = "write"
  BY <1>1 DEF Broken, Writing
<1>2a. call[p].ret = "none"
  BY <1>1 DEF Writing, Returned
<1>3. /\ call[p] \in Calling /\ data \in Text /\ Len(data) \in Nat
      /\ fd.conn \in 1 .. Len(conn) /\ fd.side \in Sides
      /\ Incoming(fd) \in Text /\ Incoming(to) \in Text
      /\ to.conn = fd.conn /\ to.side = Other(fd.side) /\ to.side \in Sides /\ to.side # fd.side
  BY <1>2, RioParts, TextType, DescriptorFacts, Ends
<1>4. conn \in Seq(Link) /\ call \in [Process -> Calling] /\ rio \in [Process -> Buffer]
  BY DEF RioInv
<1>5. ASSUME NEW n \in 0 .. Len(data), Sent(p, n)
      PROVE  /\ call' \in [Process -> Calling] /\ call'[p] = Less(call[p], n)
             /\ \A q \in Process \ {p} : call'[q] = call[q]
             /\ call'[p].fd = fd /\ call'[p].op = call[p].op
             /\ call'[p].left = call[p].left /\ call'[p].ret \in {"none", "ok"}
             /\ call'[p].ret = "none" => call'[p].data # <<>>
             /\ LineRead(call'[p]) /\ Written(call'[p])
             /\ SubSeq(data, 1, n) \in Text /\ Len(SubSeq(data, 1, n)) = n
             /\ SubSeq(data, 1, n) \o call'[p].data = data /\ call'[p].data \in Text
  <2>1. /\ Less(call[p], n) \in Calling /\ LineRead(Less(call[p], n)) /\ Written(Less(call[p], n))
        /\ Less(call[p], n).op = call[p].op /\ Less(call[p], n).fd = fd
        /\ Less(call[p], n).left = call[p].left
        /\ SubSeq(data, 1, n) \in Text /\ Len(SubSeq(data, 1, n)) = n
        /\ SubSeq(data, 1, n) \o Less(call[p], n).data = data
        /\ Less(call[p], n).ret \in {"none", "ok"}
        /\ Less(call[p], n).ret = "none" => Less(call[p], n).data # <<>>
    <3>1. PICK c \in Calling : c = call[p]
      BY <1>3
    <3>2. PICK m \in 0 .. Len(c.data) : m = n
      BY <3>1
    <3>3. c.ret = "none" /\ c.op = "write"
      BY <3>1, <1>2, <1>2a
    <3> QED BY <3>1, <3>2, <3>3, LessFacts
  <2>2. call' = [call EXCEPT ![p] = Less(call[p], n)]
    <3>1. call' = [call EXCEPT ![p].data = Unsent(@, n),
                               ![p].ret = IF n = Len(call[p].data) THEN "ok" ELSE @]
      BY <1>5 DEF Sent
    <3> QED BY <3>1, <1>3, <1>4 DEF Less, Calling
  <2>3. /\ call' \in [Process -> Calling] /\ call'[p] = Less(call[p], n)
        /\ \A q \in Process \ {p} : call'[q] = call[q]
    BY <1>4, <2>1, <2>2
  <2>4. Less(call[p], n).data \in Text
    BY <2>1, CallFields
  <2> QED BY <2>1, <2>3, <2>4
<1>6. BufferInv(rio'[p]) /\ rio' \in [Process -> Buffer]
  BY <1>1, <1>4 DEF RioInv
<1>7. CASE /\ IsOpen(to) /\ Capacity - Len(Incoming(to)) > 0
           /\ LET n == Least2(Capacity - Len(Incoming(to)), Len(data)) IN
              /\ conn' = [conn EXCEPT ![to.conn].in[to.side] = @ \o SubSeq(data, 1, n)]
              /\ Sent(p, n)
  <2> DEFINE n == Least2(Capacity - Len(Incoming(to)), Len(data))
             more == Incoming(to) \o SubSeq(data, 1, n)
  <2>1. Len(Incoming(to)) \in Nat
    BY <1>3, TextType
  <2>2. n \in 0 .. Len(data) /\ n <= Capacity - Len(Incoming(to))
    <3>1. Capacity - Len(Incoming(to)) > 0
      BY <1>7, Zenon
    <3>2. n = IF Capacity - Len(Incoming(to)) < Len(data)
              THEN Capacity - Len(Incoming(to)) ELSE Len(data)
      BY DEF Least2
    <3>3. Len(data) \in Nat
      BY <1>3
    <3> HIDE DEF n, to, data
    <3> QED BY <2>1, <3>1, <3>2, <3>3, SizesAssumption
  <2>3. Sent(p, n) /\ conn' = [conn EXCEPT ![to.conn].in[to.side] = more]
    BY <1>7, Zenon DEF Incoming
  <2> HIDE DEF n
  <2>4. /\ call' \in [Process -> Calling] /\ call'[p] = Less(call[p], n)
        /\ \A q \in Process \ {p} : call'[q] = call[q]
        /\ call'[p].fd = fd /\ call'[p].op = call[p].op
        /\ call'[p].left = call[p].left /\ call'[p].ret \in {"none", "ok"}
        /\ call'[p].ret = "none" => call'[p].data # <<>>
        /\ LineRead(call'[p]) /\ Written(call'[p])
        /\ SubSeq(data, 1, n) \in Text /\ Len(SubSeq(data, 1, n)) = n
        /\ SubSeq(data, 1, n) \o call'[p].data = data /\ call'[p].data \in Text
    BY <1>5, <2>2, <2>3
  <2>5. more \in Text /\ Len(more) = Len(Incoming(to)) + n
    BY <1>3, <2>4, TextConcat
  <2>6. PutInView(to.conn, to.side, more)
    <3>1. PICK i \in 1 .. Len(conn), s \in Sides, v \in Text :
             i = to.conn /\ s = to.side /\ v = more
      BY <1>3, <2>5
    <3>2. conn' = PutInto(conn, i, s, v)
      BY <2>3, <3>1 DEF PutInto
    <3>3. PutInView(i, s, v)
      BY <1>4, <3>2, PutIn
    <3> QED BY <3>1, <3>3
  <2> HIDE DEF more
  <2>7. /\ conn' \in Seq(Link) /\ Len(conn') = Len(conn)
        /\ \A j \in 1 .. Len(conn) :
              /\ conn'[j].by = conn[j].by /\ conn'[j].to = conn[j].to
              /\ conn'[j].open = conn[j].open /\ conn'[j].reset = conn[j].reset
              /\ \A t \in Sides :
                    conn'[j].in[t] = IF j = to.conn /\ t = to.side THEN more ELSE conn[j].in[t]
        /\ \A j \in (1 .. Len(conn)) \ {to.conn} : conn'[j] = conn[j]
    BY <2>6 DEF PutInView, IsPut
  <2>8. Frame(p)
    BY <1>1, <1>3, <2>4, <2>7 DEF Frame
  <2>9. \A i \in 1 .. Len(conn) : LinkInv(conn'[i])
    <3> SUFFICES ASSUME NEW i \in 1 .. Len(conn) PROVE LinkInv(conn'[i])
      OBVIOUS
    <3>1. conn'[i] \in Link
      BY <2>7, ElementOfSeq
    <3>2. ASSUME NEW s \in Sides PROVE Len(conn'[i].in[s]) <= Capacity
      <4>1. Len(conn[i].in[s]) <= Capacity
        BY LinkParts
      <4>2. Len(more) <= Capacity
        BY <2>1, <2>2, <2>5, SizesAssumption
      <4> QED BY <4>1, <4>2, <2>7
    <3> QED BY <3>1, <3>2 DEF LinkInv
  <2>10. RioInv'
    BY <1>6, <2>4, <2>7, <2>8, <2>9, RioInvAgain
  <2>11. /\ conn'[fd.conn].in[fd.side] = Incoming(fd)
         /\ conn'[fd.conn].in[to.side] = more
    BY <1>3, <2>7 DEF Incoming
  <2>12. more \o call'[p].data = Incoming(to) \o data
    <3>1. (Incoming(to) \o SubSeq(data, 1, n)) \o call'[p].data
             = Incoming(to) \o (SubSeq(data, 1, n) \o call'[p].data)
      BY <1>3, <2>4, TextGroup, Zenon
    <3> QED BY <3>1, <2>4 DEF more
  <2> QED BY <1>1, <1>2, <1>3, <1>7, <2>4, <2>7, <2>8, <2>10, <2>11, <2>12, Zenon
<1>8. CASE /\ ~IsOpen(to)
           /\ conn' = [conn EXCEPT ![fd.conn].reset = TRUE]
           /\ Sent(p, Len(data))
  <2>1. /\ call' \in [Process -> Calling] /\ call'[p] = Less(call[p], Len(data))
        /\ \A q \in Process \ {p} : call'[q] = call[q]
        /\ call'[p].fd = fd /\ call'[p].op = call[p].op
        /\ call'[p].left = call[p].left /\ call'[p].ret \in {"none", "ok"}
        /\ call'[p].ret = "none" => call'[p].data # <<>>
        /\ LineRead(call'[p]) /\ Written(call'[p])
    <3>1. Len(data) \in 0 .. Len(data)
      BY <1>3
    <3> QED BY <1>5, <1>8, <3>1
  <2>2. PutResetView(fd.conn)
    <3>1. PICK i \in 1 .. Len(conn) : i = fd.conn
      BY <1>3
    <3>2. conn' = PutReset(conn, i)
      BY <1>8, <3>1 DEF PutReset
    <3>3. PutResetView(i)
      BY <1>4, <3>2, PutResetSeen
    <3> QED BY <3>1, <3>3
  <2>3. /\ conn' \in Seq(Link) /\ Len(conn') = Len(conn)
        /\ \A j \in 1 .. Len(conn) :
              /\ conn'[j].by = conn[j].by /\ conn'[j].to = conn[j].to
              /\ conn'[j].open = conn[j].open /\ conn'[j].in = conn[j].in
        /\ \A j \in (1 .. Len(conn)) \ {fd.conn} : conn'[j] = conn[j]
    BY <2>2 DEF PutResetView, IsReset
  <2>4. Frame(p)
    BY <1>1, <2>1, <2>3 DEF Frame
  <2>5. \A i \in 1 .. Len(conn) : LinkInv(conn'[i])
    <3> SUFFICES ASSUME NEW i \in 1 .. Len(conn) PROVE LinkInv(conn'[i])
      OBVIOUS
    <3>1. conn'[i] \in Link /\ conn'[i].in = conn[i].in
      BY <2>3, ElementOfSeq
    <3> QED BY <3>1, LinkParts DEF LinkInv
  <2>6. RioInv'
    BY <1>6, <2>1, <2>3, <2>4, <2>5, RioInvAgain
  <2> QED BY <1>1, <1>2, <1>8, <2>1, <2>3, <2>4, <2>6, Zenon
<1> QED
  <2>1. \/ /\ IsOpen(to) /\ Capacity - Len(Incoming(to)) > 0
           /\ LET n == Least2(Capacity - Len(Incoming(to)), Len(data)) IN
              /\ conn' = [conn EXCEPT ![to.conn].in[to.side] = @ \o SubSeq(data, 1, n)]
              /\ Sent(p, n)
        \/ /\ ~IsOpen(to)
           /\ conn' = [conn EXCEPT ![fd.conn].reset = TRUE]
           /\ Sent(p, Len(data))
    BY Zenon DEF Write
  <2> HIDE DEF fd, to, data
  <2> QED BY <2>1, <1>7, <1>8, Zenon

(* What close leaves of a connection.                                      *)
Shut(l, closed, lost) ==
    [l EXCEPT !.in = [s \in Sides |-> IF s \in closed \/ lost THEN <<>> ELSE @[s]],
              !.open = [s \in Sides |-> @[s] /\ s \notin closed],
              !.reset = @ \/ \E s \in closed : l.in[s] # <<>>]

LEMMA ShutFacts ==
    ASSUME NEW l \in Link, LinkInv(l), NEW closed \in SUBSET Sides, NEW lost \in BOOLEAN
    PROVE  /\ LinkInv(Shut(l, closed, lost))
           /\ Shut(l, closed, lost).by = l.by /\ Shut(l, closed, lost).to = l.to
           /\ Shut(l, closed, lost).reset = (l.reset \/ \E s \in closed : l.in[s] # <<>>)
           /\ \A s \in Sides :
                 /\ Shut(l, closed, lost).open[s] = (l.open[s] /\ s \notin closed)
                 /\ Shut(l, closed, lost).in[s] =
                       IF s \in closed \/ lost THEN <<>> ELSE l.in[s]
           /\ closed = {} /\ ~lost => Shut(l, closed, lost) = l
<1> DEFINE in == [s \in Sides |-> IF s \in closed \/ lost THEN <<>> ELSE l.in[s]]
           open == [s \in Sides |-> l.open[s] /\ s \notin closed]
           reset == l.reset \/ \E s \in closed : l.in[s] # <<>>
           r == [l EXCEPT !.in = in, !.open = open, !.reset = reset]
<1>1. Shut(l, closed, lost) = r
  BY DEF Shut
<1>2. /\ l.in \in [Sides -> Text] /\ l.open \in [Sides -> BOOLEAN] /\ l.reset \in BOOLEAN
      /\ \A s \in Sides : l.in[s] \in Text /\ l.open[s] \in BOOLEAN
  BY LinkFields
<1>3. in \in [Sides -> Text] /\ \A s \in Sides : in[s] = IF s \in closed \/ lost THEN <<>> ELSE l.in[s]
  BY <1>2, TextType
<1>4. open \in [Sides -> BOOLEAN] /\ \A s \in Sides : open[s] = (l.open[s] /\ s \notin closed)
  BY <1>2, Zenon
<1>5. reset \in BOOLEAN
  BY <1>2
<1>6. closed = {} /\ ~lost => in = l.in /\ open = l.open /\ reset = l.reset
  <2> SUFFICES ASSUME closed = {}, ~lost PROVE in = l.in /\ open = l.open /\ reset = l.reset
    OBVIOUS
  <2>1. in = l.in
    BY <1>2, <1>3
  <2>2. \A s \in Sides : open[s] = l.open[s]
    BY <1>2, <1>4
  <2>3. open = l.open
    BY <1>2, <1>4, <2>2
  <2>4. reset = l.reset
    BY <1>2
  <2> QED BY <2>1, <2>3, <2>4
<1> HIDE DEF in, open, reset
<1>7. /\ r \in Link /\ r.by = l.by /\ r.to = l.to
      /\ r.in = in /\ r.open = open /\ r.reset = reset
  BY <1>3, <1>4, <1>5 DEF Link
<1>8. \A s \in Sides : Len(r.in[s]) <= Capacity
  <2> SUFFICES ASSUME NEW s \in Sides PROVE Len(r.in[s]) <= Capacity
    OBVIOUS
  <2>1. Len(l.in[s]) <= Capacity /\ Len(<<>>) = 0
    BY TextType DEF LinkInv
  <2>2. r.in[s] = <<>> \/ r.in[s] = l.in[s]
    BY <1>3, <1>7
  <2> QED BY <2>1, <2>2, SizesAssumption
<1>9. closed = {} /\ ~lost => r = l
  BY <1>6, <1>7 DEF Link
<1>10. reset = (l.reset \/ \E s \in closed : l.in[s] # <<>>)
  BY DEF reset
<1> QED BY <1>1, <1>3, <1>4, <1>7, <1>8, <1>9, <1>10 DEF LinkInv

(* All connections after a close.                                          *)
CloseView(fds) ==
    /\ conn' \in Seq(Link) /\ Len(conn') = Len(conn)
    /\ \A i \in 1 .. Len(conn) :
          /\ LinkInv(conn'[i])
          /\ conn'[i].by = conn[i].by /\ conn'[i].to = conn[i].to
          /\ \A s \in Sides :
                /\ conn'[i].open[s] = (conn[i].open[s] /\ Fd(i, s) \notin fds)
                /\ conn'[i].in[s] \in {conn[i].in[s], <<>>}
          /\ (\A s \in Sides : Fd(i, s) \notin fds) => conn'[i] = conn[i]
          /\ (\A s \in Sides : Fd(i, s) \in fds => conn[i].in[s] = <<>>) =>
                /\ conn'[i].reset = conn[i].reset
                /\ \A s \in Sides : conn'[i].in[s] = conn[i].in[s]

LEMMA ClosedSeen ==
    ASSUME conn \in Seq(Link), \A i \in 1 .. Len(conn) : LinkInv(conn[i]),
           NEW fds, conn' \in AfterClose(fds)
    PROVE  CloseView(fds)
<1> DEFINE closed(i) == {s \in Sides : Fd(i, s) \in fds}
           unread(i) == \E s \in closed(i) : conn[i].in[s] # <<>>
           after(i, lost) == Shut(conn[i], closed(i), unread(i) /\ lost)
<1>1. PICK lost \in BOOLEAN : conn' = [i \in DOMAIN conn |-> after(i, lost)]
  BY Zenon DEF AfterClose, Shut
<1>2. DOMAIN conn = 1 .. Len(conn) /\ Len(conn) \in Nat
  BY LenProperties
<1>3. ASSUME NEW i \in 1 .. Len(conn)
      PROVE  /\ conn[i] \in Link /\ LinkInv(conn[i]) /\ closed(i) \in SUBSET Sides
             /\ (unread(i) /\ lost) \in BOOLEAN
             /\ \A s \in Sides : s \in closed(i) <=> Fd(i, s) \in fds
  BY ElementOfSeq
<1> HIDE DEF closed
<1>4. ASSUME NEW i \in 1 .. Len(conn)
      PROVE  /\ LinkInv(after(i, lost))
             /\ after(i, lost).by = conn[i].by /\ after(i, lost).to = conn[i].to
             /\ after(i, lost).reset = (conn[i].reset \/ unread(i))
             /\ \A s \in Sides :
                   /\ after(i, lost).open[s] = (conn[i].open[s] /\ s \notin closed(i))
                   /\ after(i, lost).in[s] =
                         IF s \in closed(i) \/ (unread(i) /\ lost) THEN <<>> ELSE conn[i].in[s]
             /\ closed(i) = {} /\ ~(unread(i) /\ lost) => after(i, lost) = conn[i]
  <2>1. PICK l \in Link, c \in SUBSET Sides, b \in BOOLEAN :
           l = conn[i] /\ c = closed(i) /\ b = (unread(i) /\ lost)
    BY <1>3
  <2>2. LinkInv(l)
    BY <2>1, <1>3
  <2>3. /\ LinkInv(Shut(l, c, b))
        /\ Shut(l, c, b).by = l.by /\ Shut(l, c, b).to = l.to
        /\ Shut(l, c, b).reset = (l.reset \/ \E s \in c : l.in[s] # <<>>)
        /\ \A s \in Sides :
              /\ Shut(l, c, b).open[s] = (l.open[s] /\ s \notin c)
              /\ Shut(l, c, b).in[s] = IF s \in c \/ b THEN <<>> ELSE l.in[s]
        /\ c = {} /\ ~b => Shut(l, c, b) = l
    BY <2>2, ShutFacts
  <2>4. after(i, lost) = Shut(l, c, b)
    BY <2>1
  <2>5. unread(i) <=> \E s \in c : l.in[s] # <<>>
    BY <2>1
  <2> HIDE DEF unread, after
  <2>6. after(i, lost).reset = (conn[i].reset \/ unread(i))
    BY <2>1, <2>3, <2>4, <2>5
  <2> QED BY <2>1, <2>3, <2>4, <2>6
<1> HIDE DEF after
<1>5. \A i \in 1 .. Len(conn) : conn'[i] = after(i, lost)
  BY <1>1, <1>2
<1>6. conn' \in Seq(Link) /\ Len(conn') = Len(conn)
  <2>1. \A i \in 1 .. Len(conn) : after(i, lost) \in Link
    BY <1>4 DEF LinkInv
  <2>2. conn' \in [1 .. Len(conn) -> Link]
    BY <1>1, <1>2, <2>1
  <2> QED BY <1>2, <2>2
<1>7. ASSUME NEW i \in 1 .. Len(conn)
      PROVE  /\ LinkInv(conn'[i])
             /\ conn'[i].by = conn[i].by /\ conn'[i].to = conn[i].to
             /\ \A s \in Sides :
                   /\ conn'[i].open[s] = (conn[i].open[s] /\ Fd(i, s) \notin fds)
                   /\ conn'[i].in[s] \in {conn[i].in[s], <<>>}
             /\ (\A s \in Sides : Fd(i, s) \notin fds) => conn'[i] = conn[i]
             /\ (\A s \in Sides : Fd(i, s) \in fds => conn[i].in[s] = <<>>) =>
                   /\ conn'[i].reset = conn[i].reset
                   /\ \A s \in Sides : conn'[i].in[s] = conn[i].in[s]
  <2>1. conn'[i] = after(i, lost)
    BY <1>5
  <2>2. (\A s \in Sides : Fd(i, s) \notin fds) => closed(i) = {} /\ ~unread(i)
    BY <1>3
  <2>3. (\A s \in Sides : Fd(i, s) \in fds => conn[i].in[s] = <<>>) =>
            ~unread(i) /\ \A s \in closed(i) : conn[i].in[s] = <<>>
    BY <1>3
  <2>4. \A s \in Sides :
            /\ conn'[i].open[s] = (conn[i].open[s] /\ Fd(i, s) \notin fds)
            /\ conn'[i].in[s] \in {conn[i].in[s], <<>>}
    BY <1>3, <1>4, <2>1
  <2>5. conn[i].reset \in BOOLEAN
    BY <1>3, LinkFields
  <2> HIDE DEF unread
  <2>6. (\A s \in Sides : Fd(i, s) \in fds => conn[i].in[s] = <<>>) =>
            /\ conn'[i].reset = conn[i].reset
            /\ \A s \in Sides : conn'[i].in[s] = conn[i].in[s]
    BY <1>4, <2>1, <2>3, <2>5
  <2> QED BY <1>4, <2>1, <2>2, <2>4, <2>6
<1> QED BY <1>6, <1>7 DEF CloseView

(* A new connection.                                                       *)
LEMMA FreshFacts ==
    ASSUME NEW by \in Process, NEW to \in Servers
    PROVE  /\ Fresh(by, to) \in Link /\ LinkInv(Fresh(by, to))
           /\ Fresh(by, to).by = by /\ Fresh(by, to).to = to /\ ~Fresh(by, to).reset
           /\ \A s \in Sides : Fresh(by, to).in[s] = <<>> /\ Fresh(by, to).open[s]
<1>1. [s \in Sides |-> <<>>] \in [Sides -> Text] /\ [s \in Sides |-> TRUE] \in [Sides -> BOOLEAN]
  BY TextType
<1>2. Fresh(by, to) \in Link
  BY <1>1 DEF Fresh, Link
<1>3. /\ Fresh(by, to).by = by /\ Fresh(by, to).to = to /\ ~Fresh(by, to).reset
      /\ \A s \in Sides : Fresh(by, to).in[s] = <<>> /\ Fresh(by, to).open[s]
  BY DEF Fresh
<1> QED BY <1>2, <1>3, TextType, SizesAssumption DEF LinkInv

(* All connections after one more was opened.                              *)
OpenView(by, to) ==
    /\ conn' \in Seq(Link) /\ Len(conn') = Len(conn) + 1
    /\ \A i \in 1 .. Len(conn) : conn'[i] = conn[i]
    /\ conn'[Len(conn) + 1] = Fresh(by, to)
    /\ \A i \in 1 .. Len(conn') : LinkInv(conn'[i])

LEMMA OpenSeen ==
    ASSUME conn \in Seq(Link), \A i \in 1 .. Len(conn) : LinkInv(conn[i]),
           NEW by \in Process, NEW to \in Servers, conn' = Append(conn, Fresh(by, to))
    PROVE  OpenView(by, to)
<1>1. Fresh(by, to) \in Link /\ LinkInv(Fresh(by, to))
  BY FreshFacts
<1>2. /\ Append(conn, Fresh(by, to)) \in Seq(Link)
      /\ Len(Append(conn, Fresh(by, to))) = Len(conn) + 1
      /\ \A i \in 1 .. Len(conn) : Append(conn, Fresh(by, to))[i] = conn[i]
      /\ Append(conn, Fresh(by, to))[Len(conn) + 1] = Fresh(by, to)
  BY <1>1, AppendProperties
<1>3. Len(conn) \in Nat
  BY LenProperties
<1>4. \A i \in 1 .. Len(conn) + 1 : i \in 1 .. Len(conn) \/ i = Len(conn) + 1
  BY <1>3
<1> QED BY <1>1, <1>2, <1>4 DEF OpenView

(* The calls processes begin.                                              *)
Starts(c) == c \in Calling /\ LineRead(c) /\ Written(c)

LEMMA CallFacts ==
    /\ \A fd \in Descriptor :
          /\ Starts(ReadLine(fd)) /\ ReadLine(fd).op = "line" /\ ReadLine(fd).fd = fd
          /\ ReadLine(fd).data = <<>> /\ ReadLine(fd).ret = "none"
    /\ \A fd \in Descriptor, n \in Nat :
          /\ Starts(ReadN(fd, n)) /\ ReadN(fd, n).op = "bytes" /\ ReadN(fd, n).fd = fd
          /\ ReadN(fd, n).data = <<>> /\ ReadN(fd, n).left = n
          /\ ReadN(fd, n).ret = IF n = 0 THEN "ok" ELSE "none"
    /\ \A fd \in Descriptor, data \in Text :
          /\ Starts(WriteN(fd, data)) /\ WriteN(fd, data).op = "write" /\ WriteN(fd, data).fd = fd
          /\ WriteN(fd, data).data = data /\ WriteN(fd, data).ret = "none"
    /\ Starts(NoCall) /\ NoCall.fd = NoFd /\ NoCall.ret = "ok"
<1>1. <<>> \in Text /\ Len(<<>>) = 0 /\ NoFd \in Descriptor
  BY TextType, DescriptorFacts
<1>2. ASSUME NEW op \in {"line", "bytes", "write"}, NEW fd \in Descriptor, NEW n \in Nat,
             NEW data \in Text, op = "line" => data = <<>>
      PROVE  /\ Call(op, fd, n, data).op = op /\ Call(op, fd, n, data).fd = fd
             /\ Call(op, fd, n, data).left = n /\ Call(op, fd, n, data).data = data
             /\ Call(op, fd, n, data).ret = "none" /\ Starts(Call(op, fd, n, data))
  <2>1. /\ Call(op, fd, n, data).op = op /\ Call(op, fd, n, data).fd = fd
        /\ Call(op, fd, n, data).left = n /\ Call(op, fd, n, data).data = data
        /\ Call(op, fd, n, data).ret = "none"
    BY DEF Call
  <2>2. Call(op, fd, n, data) \in Calling
    BY DEF Call, Calling
  <2>3. LineRead(Call(op, fd, n, data)) /\ Written(Call(op, fd, n, data))
    BY <1>1, <1>2, <2>1 DEF LineRead, Written
  <2> QED BY <2>1, <2>2, <2>3 DEF Starts
<1>3. Starts(NoCall) /\ NoCall.fd = NoFd /\ NoCall.ret = "ok"
  <2>1. /\ NoCall \in Calling /\ NoCall.op = "write" /\ NoCall.fd = NoFd
        /\ NoCall.data = <<>> /\ NoCall.ret = "ok"
    BY <1>1 DEF NoCall, Call, Calling
  <2> QED BY <2>1 DEF Starts, LineRead, Written
<1>4. ASSUME NEW fd \in Descriptor, NEW n \in Nat
      PROVE  /\ Starts(ReadN(fd, n)) /\ ReadN(fd, n).op = "bytes" /\ ReadN(fd, n).fd = fd
             /\ ReadN(fd, n).data = <<>> /\ ReadN(fd, n).left = n
             /\ ReadN(fd, n).ret = IF n = 0 THEN "ok" ELSE "none"
  <2>1. PICK c \in Calling : c = Call("bytes", fd, n, <<>>)
    BY <1>1, <1>2 DEF Starts
  <2>2. /\ c.op = "bytes" /\ c.fd = fd /\ c.left = n /\ c.data = <<>> /\ c.ret = "none"
        /\ Starts(c)
    BY <1>1, <1>2, <2>1
  <2>3. PICK d : d = [c EXCEPT !.ret = IF n = 0 THEN "ok" ELSE "none"]
    OBVIOUS
  <2>4. /\ d \in Calling /\ d.op = c.op /\ d.fd = c.fd /\ d.left = c.left /\ d.data = c.data
        /\ d.ret = IF n = 0 THEN "ok" ELSE "none"
    BY <2>3 DEF Calling
  <2>5. LineRead(d) /\ Written(d)
    BY <2>2, <2>4 DEF LineRead, Written
  <2>6. ReadN(fd, n) = d
    BY <2>1, <2>3 DEF ReadN
  <2> QED BY <2>2, <2>4, <2>5, <2>6 DEF Starts
<1> QED BY <1>1, <1>2, <1>3, <1>4 DEF ReadLine, WriteN

LEMMA EmptyRioFacts ==
    /\ BufferInv(EmptyRio) /\ EmptyRio \in Buffer /\ EmptyRio.cnt = 0 /\ Unread(EmptyRio) = <<>>
<1>1. EmptyRio \in Buffer /\ EmptyRio.cnt = 0 /\ EmptyRio.ptr = 0 /\ EmptyRio.buf = <<>>
  BY TextType DEF EmptyRio, Buffer
<1>2. BufferInv(EmptyRio)
  BY <1>1, TextType, SizesAssumption DEF BufferInv
<1> QED BY <1>1, <1>2, UnreadFacts

---------------------------------------------------------------------------
(* The processes.  What holds of each at each of its places, as a          *)
(* predicate of its own part of the state, so that a step of one process   *)
(* has to be looked at for that process only.                              *)
Labels == {"start", "sent", "receive", "ended", "idle", "request", "headers", "find",
           "connect", "send", "reply", "body", "last", "endless", "dead", "accept",
           "serve", "error", "status", "open", "fork", "wait", "none", "running"}
Task == [conn : Nat, path : Paths, hdr : Text, line : Text]

(* The two kinds of connections a worker reads from, and what it keeps.     *)
Linked(at, c) == at \in {"send", "reply", "body"} /\ c.fd # NoFd
Static(path) == ~(path \in Files /\ Dynamic(path))

(* A client has the end of a connection that it opened itself.             *)
ClientIs(p, c, k) == c.fd # NoFd => c.fd.side = "opener" /\ k[c.fd.conn].by = p

(* A worker reads the request from the connection it accepted; in send,    *)
(* reply and body it has one to Tiny that it opened, and has not closed.   *)
WorkerIs(w, at, c, t, k) ==
    /\ at \in {"idle", "request", "headers", "find", "connect", "send", "reply", "body",
               "last", "endless", "dead"}
    /\ at \in {"idle", "dead"} => c.fd = NoFd
    /\ at \in {"request", "headers", "find", "connect", "send", "reply", "body", "last"} =>
          t.conn \in 1 .. Len(k) /\ k[t.conn].to = "proxy"
    /\ at \in {"request", "headers", "find", "connect", "last"} => c.fd = Fd(t.conn, "acceptor")
    /\ at \in {"request", "headers", "reply"} => c.op = "line"
    /\ at = "body" => c.op = "bytes"
    /\ at \in {"send", "last"} => c.op = "write"
    /\ at = "send" /\ c.ret = "none" => c.data # <<>>
    /\ at \in {"request", "headers"} => Plain(t.hdr)
    /\ at \in {"find", "connect"} => Ended(t.hdr)
    /\ at \in {"headers", "find", "connect", "send", "reply", "body"} => Static(t.path)
    /\ Linked(at, c) => /\ c.fd.side = "opener"
                        /\ k[c.fd.conn].by = w /\ k[c.fd.conn].to = "tiny"
                        /\ k[c.fd.conn].open["opener"]

(* Connection i is in a backlog.                                           *)
Waits(b, i) == \E n \in 1 .. Len(b) : b[n] = i

(* Tiny has one accepted connection, not in the backlog any more, and its  *)
(* buffer is new for each connection.                                      *)
TinyIs(at, c, t, r, k, running, b) ==
    /\ at \in {"accept", "request", "headers", "serve", "error", "status", "open", "fork",
               "last", "wait", "endless", "dead"}
    /\ running <=> at # "dead"
    /\ at \notin {"accept", "dead"} =>
          /\ c.fd # NoFd /\ c.fd.side = "acceptor" /\ k[c.fd.conn].to = "tiny"
          /\ ~Waits(b, c.fd.conn)
    /\ at \in {"request", "headers"} => c.op = "line"
    /\ at \in {"error", "status", "open", "fork", "last"} => c.op = "write"
    /\ at \in {"status", "open", "fork"} => t.path \in Files
    /\ at = "accept" => r = EmptyRio
    /\ at \in {"accept", "dead", "serve", "wait", "endless"} => c.ret # "none"

(* The program writes to the connection Tiny had when it forked.           *)
CgiIs(at, c, k) ==
    /\ at \in {"none", "running"}
    /\ at = "running" =>
          c.fd # NoFd /\ c.fd.side = "acceptor" /\ k[c.fd.conn].to = "tiny" /\ c.op = "write"

(* The program answers no worker: they ask for files only.                 *)
AloneIs(w, at, c, atcgi, ccgi) ==
    Linked(at, c) /\ atcgi = "running" => c.fd.conn # ccgi.fd.conn

(* A backlog holds connections to its server, each once.                   *)
Queued(s, b, k) ==
    \A n \in 1 .. Len(b) : /\ b[n] \in 1 .. Len(k) /\ k[b[n]].to = s
                           /\ \A m \in 1 .. Len(b) : b[m] = b[n] => m = n

Types ==
    /\ scenario \in Scenarios /\ up \in SUBSET Servers /\ files \in SUBSET Files
    /\ pc \in [Process -> Labels]
    /\ task \in [Workers \cup {"tiny"} -> Task]
    /\ backlog \in [Servers -> Seq(Nat)]

(* The invariant, without what concerns the contents of the messages.      *)
StaticInv ==
    /\ RioInv /\ Types
    /\ \A s \in Servers : Queued(s, backlog[s], conn)
    /\ \A p \in Clients : ClientIs(p, call[p], conn)
    /\ \A w \in Workers : /\ WorkerIs(w, pc[w], call[w], task[w], conn)
                          /\ AloneIs(w, pc[w], call[w], pc["cgi"], call["cgi"])
    /\ TinyIs(pc["tiny"], call["tiny"], task["tiny"], rio["tiny"], conn, "tiny" \in up, backlog["tiny"])
    /\ CgiIs(pc["cgi"], call["cgi"], conn)

(* Connections are added, and keep their ends.                             *)
Grown(k, l) ==
    /\ Len(k) \in Nat /\ Len(l) \in Nat /\ Len(k) <= Len(l)
    /\ \A i \in 1 .. Len(k) : l[i].by = k[i].by /\ l[i].to = k[i].to

(* The descriptor of a call is that of a connection.                       *)
InRange(c, k) == c.fd # NoFd => c.fd.conn \in 1 .. Len(k)

LEMMA ClientKept ==
    ASSUME NEW p, NEW c, NEW k, NEW l, ClientIs(p, c, k), Grown(k, l), InRange(c, k)
    PROVE  ClientIs(p, c, l)
BY DEF ClientIs, Grown, InRange

LEMMA WorkerKept ==
    ASSUME NEW w, NEW at, NEW c, NEW t, NEW k, NEW l, WorkerIs(w, at, c, t, k),
           Grown(k, l), InRange(c, k), Linked(at, c) => l[c.fd.conn].open["opener"]
    PROVE  WorkerIs(w, at, c, t, l)
<1>1. at \in {"request", "headers", "find", "connect", "send", "reply", "body", "last"} =>
          t.conn \in 1 .. Len(l) /\ l[t.conn].to = "proxy"
  BY DEF WorkerIs, Grown
<1>2. Linked(at, c) => c.fd.conn \in 1 .. Len(k)
  BY DEF Linked, InRange
<1>3. Linked(at, c) => /\ c.fd.side = "opener"
                       /\ l[c.fd.conn].by = w /\ l[c.fd.conn].to = "tiny"
                       /\ l[c.fd.conn].open["opener"]
  BY <1>2 DEF WorkerIs, Grown
<1> QED BY <1>1, <1>3 DEF WorkerIs

LEMMA TinyKept ==
    ASSUME NEW at, NEW c, NEW t, NEW r, NEW k, NEW l, NEW running, NEW b, NEW d,
           TinyIs(at, c, t, r, k, running, b), Grown(k, l), InRange(c, k),
           \A i \in 1 .. Len(k) : Waits(d, i) => Waits(b, i)
    PROVE  TinyIs(at, c, t, r, l, running, d)
<1>1. at \notin {"accept", "dead"} =>
          /\ c.fd # NoFd /\ c.fd.side = "acceptor" /\ l[c.fd.conn].to = "tiny"
          /\ ~Waits(d, c.fd.conn)
  BY DEF TinyIs, Grown, InRange
<1> QED BY <1>1 DEF TinyIs

LEMMA CgiKept ==
    ASSUME NEW at, NEW c, NEW k, NEW l, CgiIs(at, c, k), Grown(k, l), InRange(c, k)
    PROVE  CgiIs(at, c, l)
BY DEF CgiIs, Grown, InRange

LEMMA QueuedKept ==
    ASSUME NEW s, NEW b, NEW k, NEW l, Queued(s, b, k), Grown(k, l)
    PROVE  Queued(s, b, l)
<1> SUFFICES ASSUME NEW n \in 1 .. Len(b)
             PROVE  /\ b[n] \in 1 .. Len(l) /\ l[b[n]].to = s
                    /\ \A m \in 1 .. Len(b) : b[m] = b[n] => m = n
  BY DEF Queued
<1>1. b[n] \in 1 .. Len(k) /\ k[b[n]].to = s /\ \A m \in 1 .. Len(b) : b[m] = b[n] => m = n
  BY DEF Queued
<1>2. b[n] \in 1 .. Len(l) /\ l[b[n]].to = k[b[n]].to
  BY <1>1 DEF Grown
<1> QED BY <1>1, <1>2

(* A step of one process.                                                  *)
StepBy(p) ==
    /\ Grown(conn, conn')
    /\ \A i \in 1 .. Len(conn) : i # call[p].fd.conn => conn'[i] = conn[i]
    /\ \A q \in Process \ {p} : pc'[q] = pc[q] /\ call'[q] = call[q] /\ rio'[q] = rio[q]
    /\ \A q \in (Workers \cup {"tiny"}) \ {p} : task'[q] = task[q]
    /\ up' = up
    /\ \A i \in 1 .. Len(conn) : Waits(backlog'["tiny"], i) => Waits(backlog["tiny"], i)

LEMMA Kinds ==
    /\ \A w \in Workers : w \in Process /\ w # "tiny" /\ w # "cgi" /\ w \notin Clients
    /\ \A c \in Clients : c \in Process /\ c # "tiny" /\ c # "cgi" /\ c \notin Workers
    /\ "tiny" \in Process /\ "cgi" \in Process /\ "tiny" # "cgi"
    /\ "tiny" \notin Workers /\ "tiny" \notin Clients /\ "cgi" \notin Workers /\ "cgi" \notin Clients
    /\ "proxy" \in Servers /\ "tiny" \in Servers /\ Servers = {"proxy", "tiny"}
BY ProcessAssumption DEF Servers

LEMMA StaticRange ==
    ASSUME StaticInv, NEW p \in Process
    PROVE  InRange(call[p], conn)
BY DEF StaticInv, RioInv, CallInv, InRange

LEMMA StaticAgain ==
    ASSUME StaticInv, NEW p \in Process, StepBy(p), RioInv', Types',
           \A s \in Servers : Queued(s, backlog'[s], conn'),
           \A w \in Workers \ {p} : Linked(pc[w], call[w]) => conn'[call[w].fd.conn].open["opener"],
           p \in Clients => ClientIs(p, call'[p], conn'),
           p \in Workers =>
              /\ WorkerIs(p, pc'[p], call'[p], task'[p], conn')
              /\ Linked(pc'[p], call'[p]) =>
                    \/ Linked(pc[p], call[p]) /\ call'[p].fd = call[p].fd
                    \/ call'[p].fd.conn > Len(conn),
           p = "tiny" => TinyIs(pc'[p], call'[p], task'[p], rio'[p], conn', "tiny" \in up, backlog'["tiny"]),
           p = "cgi" => /\ CgiIs(pc'[p], call'[p], conn')
                        /\ pc'[p] = "running" => pc[p] = "running" /\ call'[p].fd = call[p].fd
    PROVE  StaticInv'
<1>1. Grown(conn, conn') /\ up' = up
      /\ \A i \in 1 .. Len(conn) : Waits(backlog'["tiny"], i) => Waits(backlog["tiny"], i)
  BY DEF StepBy
<1>2. ASSUME NEW c \in Clients PROVE ClientIs(c, call'[c], conn')
  <2>1. CASE c = p
    BY <2>1
  <2>2. CASE c # p
    <3>1. c \in Process \ {p}
      BY <2>2, Kinds
    <3>2. call'[c] = call[c] /\ InRange(call[c], conn) /\ ClientIs(c, call[c], conn)
      BY <3>1, StaticRange DEF StepBy, StaticInv
    <3>3. ClientIs(c, call[c], conn')
      BY <1>1, <3>2, ClientKept
    <3> QED BY <3>2, <3>3
  <2> QED BY <2>1, <2>2
<1>3. ASSUME NEW w \in Workers PROVE WorkerIs(w, pc'[w], call'[w], task'[w], conn')
  <2>1. CASE w = p
    BY <2>1
  <2>2. CASE w # p
    <3>1. w \in Process \ {p} /\ w \in (Workers \cup {"tiny"}) \ {p} /\ w \in Workers \ {p}
      BY <2>2, Kinds
    <3>2. /\ pc'[w] = pc[w] /\ call'[w] = call[w] /\ task'[w] = task[w]
          /\ InRange(call[w], conn) /\ WorkerIs(w, pc[w], call[w], task[w], conn)
      BY <3>1, StaticRange DEF StepBy, StaticInv
    <3>3. WorkerIs(w, pc[w], call[w], task[w], conn')
      BY <1>1, <3>1, <3>2, WorkerKept
    <3> QED BY <3>2, <3>3
  <2> QED BY <2>1, <2>2
<1>4. TinyIs(pc'["tiny"], call'["tiny"], task'["tiny"], rio'["tiny"], conn', "tiny" \in up',
             backlog'["tiny"])
  <2>1. CASE p = "tiny"
    BY <2>1, <1>1
  <2>2. CASE p # "tiny"
    <3>1. "tiny" \in Process \ {p} /\ "tiny" \in (Workers \cup {"tiny"}) \ {p}
      BY <2>2, Kinds
    <3>2. /\ pc'["tiny"] = pc["tiny"] /\ call'["tiny"] = call["tiny"]
          /\ task'["tiny"] = task["tiny"] /\ rio'["tiny"] = rio["tiny"]
      BY <3>1 DEF StepBy
    <3>3. /\ InRange(call["tiny"], conn)
          /\ TinyIs(pc["tiny"], call["tiny"], task["tiny"], rio["tiny"], conn, "tiny" \in up, backlog["tiny"])
      BY <3>1, StaticRange DEF StaticInv
    <3>4. TinyIs(pc["tiny"], call["tiny"], task["tiny"], rio["tiny"], conn', "tiny" \in up, backlog'["tiny"])
      BY <1>1, <3>3, TinyKept
    <3> QED BY <1>1, <3>2, <3>4
  <2> QED BY <2>1, <2>2
<1>5. CgiIs(pc'["cgi"], call'["cgi"], conn')
  <2>1. CASE p = "cgi"
    BY <2>1
  <2>2. CASE p # "cgi"
    <3>1. "cgi" \in Process \ {p}
      BY <2>2, Kinds
    <3>2. pc'["cgi"] = pc["cgi"] /\ call'["cgi"] = call["cgi"]
      BY <3>1 DEF StepBy
    <3>3. InRange(call["cgi"], conn) /\ CgiIs(pc["cgi"], call["cgi"], conn)
      BY <3>1, StaticRange DEF StaticInv
    <3>4. CgiIs(pc["cgi"], call["cgi"], conn')
      BY <1>1, <3>3, CgiKept
    <3> QED BY <3>2, <3>4
  <2> QED BY <2>1, <2>2
<1>6. ASSUME NEW w \in Workers PROVE AloneIs(w, pc'[w], call'[w], pc'["cgi"], call'["cgi"])
  <2> SUFFICES ASSUME Linked(pc'[w], call'[w]), pc'["cgi"] = "running"
               PROVE  call'[w].fd.conn # call'["cgi"].fd.conn
    BY DEF AloneIs
  <2>0. w \in Process /\ w # "cgi" /\ "cgi" \in Process
    BY Kinds
  <2>1. pc["cgi"] = "running" /\ call'["cgi"].fd = call["cgi"].fd
    <3>1. CASE p = "cgi"
      BY <3>1
    <3>2. CASE p # "cgi"
      BY <2>0, <3>2 DEF StepBy
    <3> QED BY <3>1, <3>2
  <2>2. \/ Linked(pc[w], call[w]) /\ call'[w].fd = call[w].fd
        \/ call'[w].fd.conn > Len(conn)
    <3>1. CASE w = p
      BY <3>1
    <3>2. CASE w # p
      BY <2>0, <3>2 DEF StepBy
    <3> QED BY <3>1, <3>2
  <2>3. Linked(pc[w], call[w]) => call[w].fd.conn # call["cgi"].fd.conn
    BY <2>1 DEF StaticInv, AloneIs
  <2>4. call["cgi"].fd.conn \in 1 .. Len(conn)
    BY <2>0, <2>1, StaticRange DEF StaticInv, CgiIs, InRange
  <2>5. Len(conn) \in Nat
    BY <1>1 DEF Grown
  <2> QED BY <2>1, <2>2, <2>3, <2>4, <2>5
<1> QED BY <1>2, <1>3, <1>4, <1>5, <1>6 DEF StaticInv

(* The connections of other processes are not that of a worker to Tiny.     *)
LEMMA Apart ==
    ASSUME StaticInv, NEW w \in Workers, Linked(pc[w], call[w]),
           NEW p \in Process \ {w, "tiny"},
           p \in Workers => pc[p] # "endless", p = "cgi" => pc[p] = "running"
    PROVE  call[p].fd.conn # call[w].fd.conn
<1>1. /\ call[w].fd # NoFd /\ call[w].fd.conn \in 1 .. Len(conn)
      /\ conn[call[w].fd.conn].by = w /\ conn[call[w].fd.conn].to = "tiny"
  BY Kinds, StaticRange DEF StaticInv, WorkerIs, Linked, InRange
<1>2. CASE call[p].fd = NoFd
  BY <1>1, <1>2, DescriptorFacts
<1>3. CASE call[p].fd # NoFd /\ p \in Clients
  <2>1. conn[call[p].fd.conn].by = p
    BY <1>3 DEF StaticInv, ClientIs
  <2> QED BY <1>1, <2>1
<1>4. CASE call[p].fd # NoFd /\ p \in Workers
  <2>1. WorkerIs(p, pc[p], call[p], task[p], conn)
    BY <1>4 DEF StaticInv
  <2>2. CASE Linked(pc[p], call[p])
    <3>1. conn[call[p].fd.conn].by = p
      BY <2>1, <2>2 DEF WorkerIs
    <3> QED BY <1>1, <3>1
  <2>3. CASE ~Linked(pc[p], call[p])
    <3>1. pc[p] \in {"request", "headers", "find", "connect", "last"}
      BY <1>4, <2>1, <2>3 DEF WorkerIs, Linked
    <3>2. conn[task[p].conn].to = "proxy" /\ call[p].fd = Fd(task[p].conn, "acceptor")
          /\ task[p].conn \in 1 .. Len(conn)
      BY <2>1, <3>1 DEF WorkerIs
    <3>3. call[p].fd.conn = task[p].conn
      BY <3>2 DEF Fd
    <3> QED BY <1>1, <3>2, <3>3
  <2> QED BY <2>2, <2>3
<1>5. CASE p = "cgi"
  BY <1>5 DEF StaticInv, AloneIs
<1> QED BY <1>2, <1>3, <1>4, <1>5, ProcessAssumption

LEMMA RioView ==
    ASSUME RioInv, NEW p \in Process, RioStep(p)
    PROVE  /\ RioInv' /\ Frame(p) /\ call[p].ret = "none"
           /\ call[p].op = "write" /\ call'[p].ret = "none" => call'[p].data # <<>>
<1>1. CASE Refill(p)
  BY <1>1, RefillView DEF Reading, Returned
<1>2. CASE ReadEnd(p)
  BY <1>2, ReadEndView DEF Reading, Returned
<1>3. CASE Copy(p)
  BY <1>3, CopyView DEF Reading, Returned
<1>4. CASE Write(p)
  BY <1>4, WriteView, Zenon DEF Writing, Returned
<1>5. CASE WriteFails(p)
  BY <1>5, WriteFailsView DEF Writing, Returned
<1> QED BY <1>1, <1>2, <1>3, <1>4, <1>5 DEF RioStep

LEMMA FrameGrown ==
    ASSUME RioInv, NEW p \in Process, Frame(p)
    PROVE  Grown(conn, conn')
<1>1. Len(conn) \in Nat
  BY LenProperties DEF RioInv
<1> QED BY <1>1 DEF Frame, Grown

(* A worker's part does not tell apart calls with the same descriptor.      *)
LEMMA SameWorker ==
    ASSUME NEW w, NEW at, NEW c, NEW d, NEW t, NEW k, WorkerIs(w, at, c, t, k),
           d.fd = c.fd, d.op = c.op,
           c.op = "write" /\ d.ret = "none" => d.data # <<>>
    PROVE  WorkerIs(w, at, d, t, k) /\ (Linked(at, d) <=> Linked(at, c))
<1>1. Linked(at, d) <=> Linked(at, c)
  BY DEF Linked
<1>2. at = "send" /\ d.ret = "none" => d.data # <<>>
  BY DEF WorkerIs
<1> QED BY <1>1, <1>2 DEF WorkerIs

LEMMA RioStatic ==
    ASSUME StaticInv, NEW p \in Process, RioStep(p), UNCHANGED wvars,
           p \in Workers => pc[p] \notin {"idle", "dead", "endless"},
           p = "cgi" => pc[p] = "running"
    PROVE  StaticInv' /\ StepBy(p)
<1>0. RioInv
  BY DEF StaticInv
<1>1. /\ RioInv' /\ Frame(p) /\ call[p].ret = "none"
      /\ call[p].op = "write" /\ call'[p].ret = "none" => call'[p].data # <<>>
  BY <1>0, RioView
<1>2. /\ pc' = pc /\ task' = task /\ scenario' = scenario /\ up' = up
      /\ backlog' = backlog /\ cache' = cache /\ files' = files
  BY DEF wvars, shared
<1>3. Grown(conn, conn')
  BY <1>0, <1>1, FrameGrown
<1>4. StepBy(p)
  BY <1>1, <1>2, <1>3 DEF Frame, StepBy
<1>5. Types'
  BY <1>2 DEF StaticInv, Types
<1>6. call'[p].fd = call[p].fd /\ call'[p].op = call[p].op /\ InRange(call[p], conn)
  BY <1>1, StaticRange DEF Frame
<1>7. ASSUME NEW s \in Servers PROVE Queued(s, backlog'[s], conn')
  BY <1>2, <1>3, QueuedKept DEF StaticInv
<1>8. ASSUME NEW w \in Workers, Linked(pc[w], call[w])
      PROVE  conn'[call[w].fd.conn].open["opener"]
  <2>1. conn[call[w].fd.conn].open["opener"] /\ call[w].fd.conn \in 1 .. Len(conn)
    BY <1>8, StaticRange, Kinds DEF StaticInv, WorkerIs, InRange, Linked
  <2> QED BY <2>1, <1>1 DEF Frame
<1>9. ASSUME p \in Clients PROVE ClientIs(p, call'[p], conn')
  <2>1. ClientIs(p, call[p], conn')
    BY <1>3, <1>6, <1>9, ClientKept DEF StaticInv
  <2> QED BY <2>1, <1>6 DEF ClientIs
<1>10. ASSUME p \in Workers
       PROVE  /\ WorkerIs(p, pc'[p], call'[p], task'[p], conn')
              /\ Linked(pc'[p], call'[p]) => Linked(pc[p], call[p]) /\ call'[p].fd = call[p].fd
  <2>1. WorkerIs(p, pc[p], call[p], task[p], conn)
    BY <1>10 DEF StaticInv
  <2>2. WorkerIs(p, pc[p], call[p], task[p], conn')
    BY <1>3, <1>6, <1>8, <1>10, <2>1, WorkerKept
  <2>3. WorkerIs(p, pc[p], call'[p], task[p], conn') /\ (Linked(pc[p], call'[p]) <=> Linked(pc[p], call[p]))
    BY <1>1, <1>6, <2>2, SameWorker
  <2> QED BY <1>2, <1>6, <2>3
<1>11. ASSUME p = "tiny"
       PROVE  TinyIs(pc'[p], call'[p], task'[p], rio'[p], conn', "tiny" \in up, backlog'["tiny"])
  <2>1. TinyIs(pc[p], call[p], task[p], rio[p], conn, "tiny" \in up, backlog["tiny"])
    BY <1>11 DEF StaticInv
  <2>2. TinyIs(pc[p], call[p], task[p], rio[p], conn', "tiny" \in up, backlog["tiny"])
    BY <1>3, <1>6, <2>1, TinyKept
  <2> QED BY <1>1, <1>2, <1>6, <2>2 DEF TinyIs
<1>12. ASSUME p = "cgi"
       PROVE  CgiIs(pc'[p], call'[p], conn')
  <2>1. CgiIs(pc[p], call[p], conn')
    BY <1>3, <1>6, <1>12, CgiKept DEF StaticInv
  <2> QED BY <1>2, <1>6, <2>1 DEF CgiIs
<1>13. \A w \in Workers \ {p} : Linked(pc[w], call[w]) => conn'[call[w].fd.conn].open["opener"]
  BY <1>8
<1> QED BY <1>1, <1>2, <1>4, <1>5, <1>6, <1>7, <1>9, <1>10, <1>11, <1>12, <1>13, StaticAgain

(* A process goes on with another call.                                    *)
Goes(p, at, c) ==
    /\ pc' = [pc EXCEPT ![p] = at] /\ call' = [call EXCEPT ![p] = c]
    /\ rio' = rio \/ rio' = [rio EXCEPT ![p] = EmptyRio]
Tasks(p) ==
    /\ task' \in [Workers \cup {"tiny"} -> Task]
    /\ \A q \in (Workers \cup {"tiny"}) \ {p} : task'[q] = task[q]
Serving == scenario' = scenario /\ up' = up /\ files' = files

LEMMA GoesFacts ==
    ASSUME StaticInv, NEW p \in Process, NEW at \in Labels, NEW c, Starts(c), Goes(p, at, c)
    PROVE  /\ pc' \in [Process -> Labels] /\ call' \in [Process -> Calling] /\ rio' \in [Process -> Buffer]
           /\ pc'[p] = at /\ call'[p] = c /\ rio'[p] \in {rio[p], EmptyRio}
           /\ \A q \in Process \ {p} : pc'[q] = pc[q] /\ call'[q] = call[q] /\ rio'[q] = rio[q]
           /\ \A q \in Process : BufferInv(rio'[q]) /\ Starts(call'[q])
<1>1. /\ pc \in [Process -> Labels] /\ call \in [Process -> Calling] /\ rio \in [Process -> Buffer]
      /\ \A q \in Process : BufferInv(rio[q]) /\ CallInv(call[q])
  BY DEF StaticInv, Types, RioInv
<1>2. c \in Calling /\ EmptyRio \in Buffer /\ BufferInv(EmptyRio)
  BY EmptyRioFacts DEF Starts
<1>3. /\ pc' \in [Process -> Labels] /\ pc'[p] = at /\ \A q \in Process \ {p} : pc'[q] = pc[q]
  BY <1>1 DEF Goes
<1>4. /\ call' \in [Process -> Calling] /\ call'[p] = c /\ \A q \in Process \ {p} : call'[q] = call[q]
  BY <1>1, <1>2 DEF Goes
<1>5. /\ rio' \in [Process -> Buffer] /\ rio'[p] \in {rio[p], EmptyRio}
      /\ \A q \in Process \ {p} : rio'[q] = rio[q]
  <2>1. CASE rio' = rio
    BY <1>1, <2>1
  <2>2. CASE rio' = [rio EXCEPT ![p] = EmptyRio]
    BY <1>1, <1>2, <2>2
  <2> QED BY <2>1, <2>2 DEF Goes
<1>6. ASSUME NEW q \in Process PROVE BufferInv(rio'[q]) /\ Starts(call'[q])
  <2>1. CASE q = p
    BY <2>1, <1>1, <1>2, <1>4, <1>5
  <2>2. CASE q # p
    <3>1. q \in Process \ {p}
      BY <2>2
    <3> QED BY <3>1, <1>1, <1>4, <1>5 DEF CallInv, Starts
  <2> QED BY <2>1, <2>2
<1> QED BY <1>3, <1>4, <1>5, <1>6

LEMMA RioInvGrown ==
    ASSUME StaticInv, NEW p \in Process, NEW at \in Labels, NEW c, Starts(c), Goes(p, at, c),
           Grown(conn, conn'), InRange(c, conn'),
           conn' \in Seq(Link), \A i \in 1 .. Len(conn') : LinkInv(conn'[i])
    PROVE  RioInv'
<1>1. /\ call' \in [Process -> Calling] /\ rio' \in [Process -> Buffer]
      /\ call'[p] = c /\ \A q \in Process \ {p} : call'[q] = call[q]
      /\ \A q \in Process : BufferInv(rio'[q]) /\ Starts(call'[q])
  BY GoesFacts
<1>2. ASSUME NEW q \in Process PROVE CallInv(call[q])'
  <2>1. InRange(call'[q], conn')
    <3>1. CASE q = p
      BY <3>1, <1>1
    <3>2. CASE q # p
      <4>1. call'[q] = call[q] /\ InRange(call[q], conn)
        BY <3>2, <1>1, StaticRange
      <4> QED BY <4>1 DEF Grown, InRange
    <3> QED BY <3>1, <3>2
  <2>2. Starts(call'[q])
    BY <1>1
  <2> QED BY <2>1, <2>2 DEF CallInv, Starts, InRange
<1> QED BY <1>1, <1>2 DEF RioInv

LEMMA Local ==
    ASSUME StaticInv, NEW p \in Process, NEW at \in Labels, NEW c, Starts(c), InRange(c, conn),
           Goes(p, at, c), Tasks(p), Serving, conn' = conn,
           backlog' \in [Servers -> Seq(Nat)], \A s \in Servers : Queued(s, backlog'[s], conn),
           \A i \in 1 .. Len(conn) : Waits(backlog'["tiny"], i) => Waits(backlog["tiny"], i),
           p \in Clients => ClientIs(p, c, conn),
           p \in Workers =>
              /\ WorkerIs(p, at, c, task'[p], conn)
              /\ Linked(at, c) => Linked(pc[p], call[p]) /\ c.fd = call[p].fd,
           p = "tiny" => TinyIs(at, c, task'[p], rio'[p], conn, "tiny" \in up, backlog'["tiny"]),
           p = "cgi" => CgiIs(at, c, conn) /\ at # "running"
    PROVE  /\ StaticInv' /\ StepBy(p) /\ pc'[p] = at /\ call'[p] = c
           /\ rio'[p] \in {rio[p], EmptyRio}
<1>1. conn \in Seq(Link) /\ Len(conn) \in Nat /\ \A i \in 1 .. Len(conn) : LinkInv(conn[i])
  BY LenProperties DEF StaticInv, RioInv
<1>2. Grown(conn, conn')
  BY <1>1 DEF Grown
<1>3. /\ pc' \in [Process -> Labels]
      /\ pc'[p] = at /\ call'[p] = c /\ rio'[p] \in {rio[p], EmptyRio}
      /\ \A q \in Process \ {p} : pc'[q] = pc[q] /\ call'[q] = call[q] /\ rio'[q] = rio[q]
  BY GoesFacts
<1>4. RioInv'
  BY <1>1, <1>2, RioInvGrown
<1>5. StepBy(p)
  BY <1>2, <1>3 DEF StepBy, Tasks, Serving
<1>6. Types'
  BY <1>3 DEF StaticInv, Types, Tasks, Serving
<1>7. \A w \in Workers : Linked(pc[w], call[w]) => conn'[call[w].fd.conn].open["opener"]
  BY DEF StaticInv, WorkerIs
<1>8. \A s \in Servers : Queued(s, backlog'[s], conn')
  OBVIOUS
<1>9. StaticInv'
  BY <1>3, <1>4, <1>5, <1>6, <1>7, <1>8, StaticAgain
<1> QED BY <1>3, <1>5, <1>9

LEMMA CloseStep ==
    ASSUME StaticInv, NEW p \in Process, NEW at \in Labels, NEW c, Starts(c), InRange(c, conn),
           Goes(p, at, c), Tasks(p), Serving, backlog' = backlog,
           conn' \in AfterClose({call[p].fd}),
           p \in Workers => pc[p] # "endless", p = "cgi" => pc[p] = "running",
           p \in Clients => ClientIs(p, c, conn),
           p \in Workers => WorkerIs(p, at, c, task'[p], conn) /\ ~Linked(at, c),
           p = "tiny" => /\ TinyIs(at, c, task'[p], rio'[p], conn, "tiny" \in up, backlog["tiny"])
                         /\ call[p].fd.side = "acceptor",
           p = "cgi" => CgiIs(at, c, conn) /\ at # "running"
    PROVE  /\ StaticInv' /\ StepBy(p) /\ pc'[p] = at /\ call'[p] = c
           /\ rio'[p] \in {rio[p], EmptyRio} /\ CloseView({call[p].fd})
<1>1. conn \in Seq(Link) /\ Len(conn) \in Nat /\ \A i \in 1 .. Len(conn) : LinkInv(conn[i])
  BY LenProperties DEF StaticInv, RioInv
<1>2. CloseView({call[p].fd})
  BY <1>1, ClosedSeen
<1>3. /\ conn' \in Seq(Link) /\ Len(conn') = Len(conn)
      /\ \A i \in 1 .. Len(conn) :
            /\ LinkInv(conn'[i])
            /\ conn'[i].by = conn[i].by /\ conn'[i].to = conn[i].to
            /\ \A s \in Sides : conn'[i].open[s] = (conn[i].open[s] /\ Fd(i, s) \notin {call[p].fd})
            /\ (\A s \in Sides : Fd(i, s) \notin {call[p].fd}) => conn'[i] = conn[i]
  BY <1>2 DEF CloseView
<1>4. Grown(conn, conn')
  BY <1>1, <1>3 DEF Grown
<1>5. /\ pc' \in [Process -> Labels]
      /\ pc'[p] = at /\ call'[p] = c /\ rio'[p] \in {rio[p], EmptyRio}
      /\ \A q \in Process \ {p} : pc'[q] = pc[q] /\ call'[q] = call[q] /\ rio'[q] = rio[q]
  BY GoesFacts
<1>6. InRange(c, conn') /\ InRange(call[p], conn)
  BY <1>3, StaticRange DEF InRange
<1>7. RioInv'
  BY <1>3, <1>4, <1>6, RioInvGrown
<1>8. \A i \in 1 .. Len(conn) : i # call[p].fd.conn => conn'[i] = conn[i]
  <2> SUFFICES ASSUME NEW i \in 1 .. Len(conn), i # call[p].fd.conn PROVE conn'[i] = conn[i]
    OBVIOUS
  <2>1. \A s \in Sides : Fd(i, s) \notin {call[p].fd}
    BY DescriptorFacts
  <2> QED BY <2>1, <1>3
<1>9. StepBy(p)
  BY <1>4, <1>5, <1>8 DEF StepBy, Tasks, Serving
<1>10. Types'
  BY <1>5 DEF StaticInv, Types, Tasks, Serving
<1>11. ASSUME NEW w \in Workers \ {p}, Linked(pc[w], call[w])
       PROVE  conn'[call[w].fd.conn].open["opener"]
  <2>1. /\ conn[call[w].fd.conn].open["opener"] /\ call[w].fd.conn \in 1 .. Len(conn)
        /\ "opener" \in Sides
    BY <1>11, StaticRange, Kinds, Ends DEF StaticInv, WorkerIs, InRange, Linked
  <2>2. CASE p = "tiny"
    <3>1. Fd(call[w].fd.conn, "opener") \notin {call[p].fd}
      BY <2>1, <2>2, DescriptorFacts
    <3> QED BY <2>1, <3>1, <1>3
  <2>3. CASE p # "tiny"
    <3>1. call[p].fd.conn # call[w].fd.conn
      BY <1>11, <2>3, Apart
    <3> QED BY <2>1, <3>1, <1>8
  <2> QED BY <2>2, <2>3
<1>12. ASSUME NEW s \in Servers PROVE Queued(s, backlog'[s], conn')
  BY <1>4, QueuedKept DEF StaticInv
<1>13. p \in Clients => ClientIs(p, call'[p], conn')
  BY <1>4, <1>5, ClientKept
<1>14. p \in Workers => WorkerIs(p, pc'[p], call'[p], task'[p], conn') /\ ~Linked(pc'[p], call'[p])
  BY <1>4, <1>5, WorkerKept
<1>15. p = "tiny" => TinyIs(pc'[p], call'[p], task'[p], rio'[p], conn', "tiny" \in up, backlog'["tiny"])
  <2> SUFFICES ASSUME p = "tiny"
               PROVE  TinyIs(pc'[p], call'[p], task'[p], rio'[p], conn', "tiny" \in up, backlog'["tiny"])
    OBVIOUS
  <2>1. TinyIs(at, c, task'[p], rio'[p], conn, "tiny" \in up, backlog["tiny"])
    OBVIOUS
  <2>2. TinyIs(at, c, task'[p], rio'[p], conn', "tiny" \in up, backlog["tiny"])
    BY <1>4, <2>1, TinyKept
  <2> QED BY <1>5, <2>2
<1>16. p = "cgi" => CgiIs(pc'[p], call'[p], conn') /\ pc'[p] # "running"
  BY <1>4, <1>5, CgiKept
<1>17. StaticInv'
  BY <1>7, <1>9, <1>10, <1>11, <1>12, <1>13, <1>14, <1>15, <1>16, StaticAgain
<1> QED BY <1>2, <1>5, <1>9, <1>17

(* The backlog after a connection was asked for.                           *)
LEMMA WaitsOneMore ==
    ASSUME NEW b \in Seq(Nat), NEW j \in Nat
    PROVE  /\ Append(b, j) \in Seq(Nat)
           /\ \A i : Waits(Append(b, j), i) <=> Waits(b, i) \/ i = j
           /\ \A n \in 1 .. Len(b) : Append(b, j)[n] = b[n]
           /\ Len(Append(b, j)) = Len(b) + 1 /\ Append(b, j)[Len(b) + 1] = j
<1>1. /\ Append(b, j) \in Seq(Nat) /\ Len(Append(b, j)) = Len(b) + 1
      /\ \A n \in 1 .. Len(b) : Append(b, j)[n] = b[n]
      /\ Append(b, j)[Len(b) + 1] = j /\ Len(b) \in Nat
  BY AppendProperties, LenProperties
<1>2. \A n \in 1 .. Len(b) + 1 : n \in 1 .. Len(b) \/ n = Len(b) + 1
  BY <1>1
<1>3. Len(b) + 1 \in 1 .. Len(b) + 1 /\ \A n \in 1 .. Len(b) : n \in 1 .. Len(b) + 1
  BY <1>1
<1> QED BY <1>1, <1>2, <1>3 DEF Waits

LEMMA QueuedOneMore ==
    ASSUME NEW s \in Servers, NEW b \in Seq(Nat), NEW k, NEW l, NEW by,
           Queued(s, b, k), Grown(k, l), Len(l) = Len(k) + 1, l[Len(k) + 1].to = s
    PROVE  Queued(s, Append(b, Len(k) + 1), l)
<1> DEFINE j == Len(k) + 1
           a == Append(b, Len(k) + 1)
<1>1. Len(k) \in Nat /\ j \in Nat
  BY DEF Grown
<1>2. /\ Len(a) = Len(b) + 1 /\ \A n \in 1 .. Len(b) : a[n] = b[n]
      /\ a[Len(b) + 1] = j /\ Len(b) \in Nat
  BY <1>1, WaitsOneMore, LenProperties
<1>3. Queued(s, b, l)
  BY QueuedKept
<1>4. \A n \in 1 .. Len(b) : b[n] \in 1 .. Len(k) /\ b[n] # j
  BY <1>1 DEF Queued
<1>5. \A n \in 1 .. Len(b) + 1 : n \in 1 .. Len(b) \/ n = Len(b) + 1
  BY <1>2
<1> HIDE DEF a
<1>6. ASSUME NEW n \in 1 .. Len(a)
      PROVE  /\ a[n] \in 1 .. Len(l) /\ l[a[n]].to = s
             /\ \A m \in 1 .. Len(a) : a[m] = a[n] => m = n
  <2>1. CASE n \in 1 .. Len(b)
    <3>1. a[n] = b[n] /\ a[n] # j /\ b[n] \in 1 .. Len(l) /\ l[b[n]].to = s
      BY <2>1, <1>2, <1>3, <1>4 DEF Queued
    <3>2. \A m \in 1 .. Len(b) : b[m] = b[n] => m = n
      BY <2>1, <1>3 DEF Queued
    <3>3. \A m \in 1 .. Len(a) : a[m] = a[n] => m = n
      BY <1>2, <1>5, <3>1, <3>2
    <3> QED BY <3>1, <3>3
  <2>2. CASE n = Len(b) + 1
    <3>1. a[n] = j /\ j \in 1 .. Len(l)
      BY <1>1, <1>2, <2>2
    <3>2. \A m \in 1 .. Len(b) : a[m] # j
      BY <1>2, <1>4
    <3>3. \A m \in 1 .. Len(a) : a[m] = a[n] => m = n
      BY <1>2, <1>5, <2>2, <3>1, <3>2
    <3> QED BY <3>1, <3>3
  <2> QED BY <1>2, <1>5, <2>1, <2>2
<1> QED BY <1>6 DEF Queued, a

(* The backlogs with the next connection in one of them.                   *)
Joined(server) == [backlog EXCEPT ![server] = Append(@, Len(conn) + 1)]

LEMMA OpenStep ==
    ASSUME StaticInv, NEW p \in Clients \cup Workers, NEW server \in Servers, NEW at \in Labels,
           NEW c, Starts(c), c.fd = Fd(Len(conn) + 1, "opener"),
           Goes(p, at, c), task' = task, Serving,
           conn' = Append(conn, Fresh(p, server)),
           backlog' = Joined(server),
           p \in Workers =>
              server = "tiny" /\ pc[p] = "connect" /\ at = "send" /\ c.op = "write" /\ c.data # <<>>
    PROVE  /\ StaticInv' /\ StepBy(p) /\ pc'[p] = at /\ call'[p] = c
           /\ OpenView(p, server)
           /\ backlog'["tiny"] = IF server = "tiny" THEN Append(backlog["tiny"], Len(conn) + 1)
                                                    ELSE backlog["tiny"]
<1>0. p \in Process /\ p # "tiny" /\ p # "cgi"
  BY Kinds
<1>1. conn \in Seq(Link) /\ Len(conn) \in Nat /\ \A i \in 1 .. Len(conn) : LinkInv(conn[i])
  BY LenProperties DEF StaticInv, RioInv
<1>2. OpenView(p, server)
  BY <1>0, <1>1, OpenSeen
<1>3. /\ conn' \in Seq(Link) /\ Len(conn') = Len(conn) + 1
      /\ \A i \in 1 .. Len(conn) : conn'[i] = conn[i]
      /\ conn'[Len(conn) + 1] = Fresh(p, server)
      /\ \A i \in 1 .. Len(conn') : LinkInv(conn'[i])
  BY <1>2 DEF OpenView
<1>4. Grown(conn, conn')
  BY <1>1, <1>3 DEF Grown
<1>5. /\ pc' \in [Process -> Labels] /\ pc'[p] = at /\ call'[p] = c
      /\ \A q \in Process \ {p} : pc'[q] = pc[q] /\ call'[q] = call[q] /\ rio'[q] = rio[q]
  BY <1>0, GoesFacts
<1>6. c.fd.conn = Len(conn) + 1 /\ c.fd.side = "opener" /\ InRange(c, conn')
  BY <1>1, <1>3 DEF Fd, InRange
<1>7. RioInv'
  BY <1>0, <1>3, <1>4, <1>6, RioInvGrown
<1>8. backlog \in [Servers -> Seq(Nat)]
  BY DEF StaticInv, Types
<1>9. /\ backlog' \in [Servers -> Seq(Nat)]
      /\ \A s \in Servers :
            backlog'[s] = IF s = server THEN Append(backlog[s], Len(conn) + 1) ELSE backlog[s]
  <2>1. Append(backlog[server], Len(conn) + 1) \in Seq(Nat)
    BY <1>1, <1>8, WaitsOneMore
  <2> QED BY <1>8, <2>1 DEF Joined
<1>10. ASSUME NEW s \in Servers PROVE Queued(s, backlog'[s], conn')
  <2>1. Queued(s, backlog[s], conn) /\ backlog[s] \in Seq(Nat)
    BY <1>8 DEF StaticInv
  <2>2. CASE s = server
    <3>1. conn'[Len(conn) + 1].to = s
      BY <1>0, <1>3, <2>2, FreshFacts
    <3>2. Queued(s, Append(backlog[s], Len(conn) + 1), conn')
      BY <1>3, <1>4, <2>1, <3>1, QueuedOneMore
    <3> QED BY <1>9, <2>2, <3>2
  <2>3. CASE s # server
    <3>1. Queued(s, backlog[s], conn')
      BY <1>4, <2>1, QueuedKept
    <3> QED BY <1>9, <2>3, <3>1
  <2> QED BY <2>2, <2>3
<1>11. /\ backlog'["tiny"] = IF server = "tiny" THEN Append(backlog["tiny"], Len(conn) + 1)
                                                ELSE backlog["tiny"]
       /\ \A i \in 1 .. Len(conn) : Waits(backlog'["tiny"], i) => Waits(backlog["tiny"], i)
  <2>1. backlog'["tiny"] = IF server = "tiny" THEN Append(backlog["tiny"], Len(conn) + 1)
                                              ELSE backlog["tiny"]
    BY <1>9, Kinds
  <2>2. backlog["tiny"] \in Seq(Nat) /\ Len(conn) + 1 \in Nat
    BY <1>1, <1>8, Kinds
  <2>3. \A i \in 1 .. Len(conn) : i # Len(conn) + 1
    BY <1>1
  <2>4. \A i : Waits(Append(backlog["tiny"], Len(conn) + 1), i)
                  => Waits(backlog["tiny"], i) \/ i = Len(conn) + 1
    BY <2>2, WaitsOneMore
  <2> QED BY <2>1, <2>3, <2>4
<1>12. StepBy(p)
  BY <1>3, <1>4, <1>5, <1>11 DEF StepBy, Serving
<1>13. Types'
  BY <1>5, <1>9 DEF StaticInv, Types, Serving
<1>14. ASSUME NEW w \in Workers \ {p}, Linked(pc[w], call[w])
       PROVE  conn'[call[w].fd.conn].open["opener"]
  <2>1. conn[call[w].fd.conn].open["opener"] /\ call[w].fd.conn \in 1 .. Len(conn)
    BY <1>14, StaticRange, Kinds DEF StaticInv, WorkerIs, InRange, Linked
  <2> QED BY <2>1, <1>3
<1>15. p \in Clients => ClientIs(p, call'[p], conn')
  BY <1>0, <1>3, <1>5, <1>6, FreshFacts DEF ClientIs
<1>16. p \in Workers => WorkerIs(p, pc'[p], call'[p], task'[p], conn') /\ call'[p].fd.conn > Len(conn)
  <2> SUFFICES ASSUME p \in Workers
               PROVE  WorkerIs(p, pc'[p], call'[p], task'[p], conn') /\ call'[p].fd.conn > Len(conn)
    OBVIOUS
  <2>1. WorkerIs(p, "connect", call[p], task[p], conn)
    BY DEF StaticInv
  <2>2. task[p].conn \in 1 .. Len(conn) /\ conn[task[p].conn].to = "proxy" /\ Static(task[p].path)
    BY <2>1 DEF WorkerIs
  <2>3. task[p].conn \in 1 .. Len(conn') /\ conn'[task[p].conn].to = "proxy"
    BY <1>1, <1>3, <2>2
  <2>4. /\ conn'[c.fd.conn].by = p /\ conn'[c.fd.conn].to = "tiny"
        /\ conn'[c.fd.conn].open["opener"]
    BY <1>0, <1>3, <1>6, FreshFacts, Ends
  <2>5. WorkerIs(p, "send", c, task[p], conn')
    BY <1>6, <2>2, <2>3, <2>4 DEF WorkerIs
  <2> QED BY <1>1, <1>5, <1>6, <2>5
<1>17. StaticInv'
  BY <1>0, <1>7, <1>10, <1>12, <1>13, <1>14, <1>15, <1>16, StaticAgain
<1> QED BY <1>2, <1>5, <1>11, <1>12, <1>17

---------------------------------------------------------------------------
(* A worker that talks to Tiny: the connection it opened, what it has yet  *)
(* to send (Pending) and has received of the answer (Received, which the   *)
(* code has in the header, in rio's buffer, in the call and in the         *)
(* socket), and what Tiny has yet to read (Asking).                        *)
Opener(w) == call[w].fd.conn
Live(w) == Linked(pc[w], call[w])
Pending(w) == IF pc[w] = "send" THEN Data(w) ELSE <<>>
Received(w) ==
    IF pc[w] = "send" THEN conn[Opener(w)].in["opener"] ELSE task[w].hdr \o Ahead(w)
Asking(w) == conn[Opener(w)].in["acceptor"] \o Pending(w)
Answering(w) == conn[Opener(w)].open["acceptor"]
Serves(w) == pc["tiny"] \notin {"accept", "dead"} /\ call["tiny"].fd.conn = Opener(w)

(* What Tiny has done of the request it serves.                            *)
Talks(w) ==
    /\ pc["tiny"] \in {"request", "headers", "serve", "error", "open", "last"}
    /\ call["tiny"].ret \in {"none", "ok"}
    /\ pc["tiny"] \in {"request", "headers"} /\ call["tiny"].ret = "ok" => Last(Data("tiny")) = NL
    /\ pc["tiny"] \in {"request", "headers", "serve"} => Received(w) = <<>>
    /\ pc["tiny"] = "request" => Asks(Ahead("tiny") \o Pending(w), task[w].path)
    /\ pc["tiny"] = "headers" => Closing(Ahead("tiny") \o Pending(w))
    /\ pc["tiny"] \in {"serve", "error", "open", "last"} => Unread(rio["tiny"]) = <<>> /\ Asking(w) = <<>>
    /\ pc["tiny"] \in {"headers", "serve", "open"} => task["tiny"].path = task[w].path
    /\ pc["tiny"] = "error" =>
          \E code \in {"404", "403"} : Received(w) \o Data("tiny") = ErrorHeader(code)
    /\ pc["tiny"] = "open" => Received(w) \o Data("tiny") = Header(task[w].path)
    /\ pc["tiny"] = "last" => Received(w) \o Data("tiny") \in Answers(task[w].path)

(* Tiny has the request before it, is answering it, or has answered it.    *)
InBacklog(w) ==
    /\ Waits(backlog["tiny"], Opener(w)) /\ Answering(w)
    /\ Asks(Asking(w), task[w].path) /\ Received(w) = <<>>
InService(w) == Serves(w) /\ Answering(w) /\ Talks(w)
Answered0(w) ==
    /\ ~Waits(backlog["tiny"], Opener(w)) /\ ~Serves(w) /\ ~Answering(w)
    /\ Pending(w) = <<>> /\ Received(w) \in Answers(task[w].path)

(* What the worker received is the beginning of an answer to what it asks, *)
(* and of all of one when Tiny has closed the connection: unless Tiny      *)
(* ended.                                                                  *)
UpIs(w) ==
    /\ \E a \in Answers(task[w].path) : Begins(Received(w), a)
    /\ "tiny" \notin up => ~Answering(w)
    /\ "tiny" \in up => /\ ~conn[Opener(w)].reset
                        /\ pc[w] = "send" => call[w].ret \in {"none", "ok"}
                        /\ InBacklog(w) \/ InService(w) \/ Answered0(w)

(* How far the worker is with the reply.                                   *)
ReadIs(w) ==
    /\ pc[w] = "reply" /\ call[w].fd = NoFd => rio[w].cnt = 0 /\ call[w].ret # "ok"
    /\ pc[w] = "reply" /\ call[w].fd # NoFd =>
          /\ Len(task[w].hdr) \in {0, 2} \/ (Len(task[w].hdr) = 1 /\ ~Answering(w) /\ Ahead(w) = <<>>)
          /\ call[w].ret = "ok" /\ Last(Data(w)) # NL => ~Answering(w) /\ Ahead(w) = Data(w)
    /\ pc[w] = "body" =>
          /\ call[w].fd # NoFd
          /\ task[w].path \in Files /\ task[w].hdr = Header(task[w].path)
          /\ call[w].left + Len(Data(w)) = Size[task[w].path]
          /\ call[w].ret # "none" /\ "tiny" \in up => Len(Data(w)) = Size[task[w].path]

(* What is cached is a file with its header, in full, or filled up behind  *)
(* its beginning: the latter only after Tiny ended.                        *)
CacheInv ==
    \A path \in DOMAIN cache :
        /\ path \in Files /\ cache[path] \in Padded(path)
        /\ "tiny" \in up => cache[path] = ServeStatic(path)

(* The inductive invariant.  The cache is filled with what a worker read,  *)
(* so the whole way of the answer is in it, from Tiny to the cache.        *)
WebInv ==
    /\ StaticInv /\ CacheInv
    /\ \A w \in Workers : (Live(w) => UpIs(w)) /\ ReadIs(w)

(* Nothing that concerns a worker's request has changed.                   *)
Unmoved(w) ==
    /\ \A p \in {w, "tiny"} :
          pc'[p] = pc[p] /\ call'[p] = call[p] /\ rio'[p] = rio[p] /\ task'[p] = task[p]
    /\ up' = up
    /\ Live(w) => /\ conn'[Opener(w)] = conn[Opener(w)]
                  /\ Waits(backlog'["tiny"], Opener(w)) <=> Waits(backlog["tiny"], Opener(w))

LEMMA LiveFacts ==
    ASSUME StaticInv, NEW w \in Workers, Live(w)
    PROVE  /\ w \in Process /\ w # "tiny" /\ Opener(w) \in 1 .. Len(conn)
           /\ pc[w] \in {"send", "reply", "body"} /\ call[w].fd # NoFd
           /\ call[w].fd.side = "opener" /\ call[w].fd = Fd(Opener(w), "opener")
           /\ conn[Opener(w)].by = w /\ conn[Opener(w)].to = "tiny"
           /\ conn[Opener(w)].open["opener"] = TRUE
           /\ conn[Opener(w)].in["opener"] \in Text /\ conn[Opener(w)].in["acceptor"] \in Text
           /\ Incoming(call[w].fd) = conn[Opener(w)].in["opener"]
           /\ Incoming(Peer(call[w].fd)) = conn[Opener(w)].in["acceptor"]
           /\ IsOpen(Peer(call[w].fd)) = Answering(w)
           /\ Data(w) \in Text /\ Unread(rio[w]) \in Text /\ Ahead(w) \in Text
           /\ task[w].hdr \in Text /\ task[w].path \in Paths /\ Received(w) \in Text
           /\ Pending(w) \in Text /\ Asking(w) \in Text
           /\ RioInv /\ WorkerIs(w, pc[w], call[w], task[w], conn)
<1>1. w \in Process /\ w # "tiny" /\ RioInv
  BY Kinds DEF StaticInv
<1>2. WorkerIs(w, pc[w], call[w], task[w], conn)
  BY DEF StaticInv
<1>3. /\ pc[w] \in {"send", "reply", "body"} /\ call[w].fd # NoFd
      /\ call[w].fd.side = "opener"
      /\ conn[Opener(w)].by = w /\ conn[Opener(w)].to = "tiny"
      /\ conn[Opener(w)].open["opener"]
  BY <1>2 DEF Live, Linked, WorkerIs, Opener
<1>4. /\ Opener(w) \in 1 .. Len(conn) /\ call[w].fd \in Descriptor
      /\ Data(w) \in Text /\ Unread(rio[w]) \in Text
      /\ Incoming(call[w].fd) \in Text /\ Incoming(Peer(call[w].fd)) \in Text
  BY <1>1, <1>3, RioParts DEF Opener, Data
<1>5. call[w].fd = Fd(Opener(w), "opener")
  BY <1>3, <1>4, DescriptorFacts DEF Opener
<1>6. /\ Incoming(call[w].fd) = conn[Opener(w)].in["opener"]
      /\ Incoming(Peer(call[w].fd)) = conn[Opener(w)].in["acceptor"]
      /\ IsOpen(Peer(call[w].fd)) = Answering(w)
  BY <1>3, Ends, DescriptorFacts DEF Incoming, IsOpen, Answering, Opener
<1>7. task[w] \in Task
  BY DEF StaticInv, Types
<1>8. task[w].hdr \in Text /\ task[w].path \in Paths
  BY <1>7 DEF Task
<1>9. Ahead(w) \in Text
  BY <1>4, TextConcat DEF Ahead
<1>10. Received(w) \in Text /\ Pending(w) \in Text /\ Asking(w) \in Text
  BY <1>4, <1>6, <1>8, <1>9, TextConcat, TextType DEF Received, Pending, Asking
<1>11. conn[Opener(w)].open["opener"] = TRUE
  <2>1. conn[Opener(w)].open["opener"] \in BOOLEAN
    BY <1>1, <1>4, LinkParts, Ends
  <2> QED BY <2>1, <1>3
<1> QED BY <1>1, <1>2, <1>3, <1>4, <1>5, <1>6, <1>8, <1>9, <1>10, <1>11

LEMMA UnmovedKept ==
    ASSUME StaticInv, NEW w \in Workers, Unmoved(w), Live(w) => UpIs(w), ReadIs(w)
    PROVE  (Live(w) => UpIs(w))' /\ ReadIs(w)'
<1>1. /\ pc'[w] = pc[w] /\ call'[w] = call[w] /\ rio'[w] = rio[w] /\ task'[w] = task[w]
      /\ pc'["tiny"] = pc["tiny"] /\ call'["tiny"] = call["tiny"] /\ rio'["tiny"] = rio["tiny"]
      /\ task'["tiny"] = task["tiny"] /\ up' = up
  BY DEF Unmoved
<1>2. /\ Live(w)' = Live(w) /\ Opener(w)' = Opener(w) /\ Data(w)' = Data(w)
      /\ Data("tiny")' = Data("tiny") /\ Pending(w)' = Pending(w) /\ Serves(w)' = Serves(w)
  BY <1>1 DEF Live, Opener, Data, Pending, Serves
<1>3. ASSUME Live(w) PROVE UpIs(w)' /\ Answering(w)' = Answering(w) /\ Ahead(w)' = Ahead(w)
  <2>1. /\ call[w].fd = Fd(Opener(w), "opener") /\ call[w].fd.side = "opener"
        /\ pc[w] \in {"send", "reply", "body"} /\ call[w].fd # NoFd
    BY <1>3, LiveFacts
  <2>2. /\ conn'[Opener(w)] = conn[Opener(w)]
        /\ Waits(backlog'["tiny"], Opener(w)) <=> Waits(backlog["tiny"], Opener(w))
    BY <1>3 DEF Unmoved
  <2>3. Ahead(w)' = Ahead(w) /\ Answering(w)' = Answering(w) /\ Asking(w)' = Asking(w)
    BY <1>1, <1>2, <2>2 DEF Ahead, Data, Incoming, Answering, Asking, Opener
  <2>4. Received(w)' = Received(w)
    BY <1>1, <1>2, <2>2, <2>3 DEF Received
  <2>5. Serves(w) => Ahead("tiny")' = Ahead("tiny")
    BY <1>1, <1>2, <2>2 DEF Serves, Ahead, Data, Incoming
  <2>6. InBacklog(w) => InBacklog(w)'
    BY <1>1, <1>2, <2>2, <2>3, <2>4 DEF InBacklog
  <2>7. InService(w) => InService(w)'
    BY <1>1, <1>2, <2>2, <2>3, <2>4, <2>5 DEF InService, Talks
  <2>8. Answered0(w) => Answered0(w)'
    BY <1>1, <1>2, <2>2, <2>3, <2>4 DEF Answered0
  <2>9. UpIs(w)
    BY <1>3
  <2> QED BY <1>1, <1>2, <2>2, <2>3, <2>4, <2>6, <2>7, <2>8, <2>9 DEF UpIs
<1>4. ReadIs(w)'
  <2>1. ASSUME Live(w) PROVE ReadIs(w)'
    BY <1>1, <1>2, <1>3, <2>1 DEF ReadIs
  <2>2. ASSUME ~Live(w) PROVE ReadIs(w)'
    BY <1>1, <2>2 DEF ReadIs, Live, Linked
  <2> QED BY <2>1, <2>2
<1> QED BY <1>2, <1>3, <1>4

(* Replies that were filled up behind their beginning.                     *)
LEMMA FilledFacts ==
    ASSUME NEW path \in Files, NEW d \in Text, Begins(d, Body(path))
    PROVE  /\ Filled(d, Size[path]) \in Text /\ Len(Filled(d, Size[path])) = Size[path]
           /\ Header(path) \o Filled(d, Size[path]) \in Padded(path)
           /\ Len(d) <= Size[path]
           /\ Len(d) = Size[path] => Filled(d, Size[path]) = Body(path)
<1>1. /\ Size[path] \in Nat /\ Body(path) \in Text /\ Len(Body(path)) = Size[path]
      /\ Len(d) \in Nat /\ Len(d) <= Size[path]
      /\ \A n \in 1 .. Len(d) : d[n] = Body(path)[n]
  BY BodyTyped, TextType DEF Begins
<1> DEFINE m == Size[path] - Len(d)
           junk == [k \in 1 .. m |-> <<"junk">>]
<1>2. m \in Nat
  BY <1>1
<1> HIDE DEF m
<1>3. junk \in Text /\ Len(junk) = m
  <2>1. <<"junk">> \in Token
    BY TokenFacts DEF Plains
  <2>2. junk \in [1 .. m -> Token]
    BY <2>1
  <2> QED BY <1>2, <2>2 DEF Text
<1>4. Filled(d, Size[path]) = d \o junk
  BY DEF Filled, Junk, m
<1> HIDE DEF junk
<1>5. Filled(d, Size[path]) \in Text /\ Len(Filled(d, Size[path])) = Size[path]
  <2>1. d \o junk \in Text /\ Len(d \o junk) = Len(d) + m
    BY <1>3, TextConcat
  <2> QED BY <1>1, <1>4, <2>1 DEF m
<1>6. d = SubSeq(Body(path), 1, Len(d))
  <2>1. Len(d) \in 0 .. Len(Body(path))
    BY <1>1
  <2>2. /\ SubSeq(Body(path), 1, Len(d)) \in Text
        /\ Len(SubSeq(Body(path), 1, Len(d))) = Len(d)
    BY <1>1, <2>1, Cut
  <2>3. \A n \in 1 .. Len(d) : SubSeq(Body(path), 1, Len(d))[n] = Body(path)[n]
    BY <1>1, <2>1, CutFirst
  <2> QED BY <1>1, <2>2, <2>3, TextEqual
<1>7. Header(path) \o Filled(d, Size[path]) \in Padded(path)
  <2>1. Len(d) \in 0 .. Size[path]
    BY <1>1
  <2> QED BY <1>6, <2>1 DEF Padded
<1>8. ASSUME Len(d) = Size[path] PROVE Filled(d, Size[path]) = Body(path)
  <2>1. junk = <<>>
    BY <1>1, <1>3, <1>8, TextType DEF m
  <2>2. d = Body(path)
    BY <1>1, <1>8, TextEqual
  <2> QED BY <1>4, <2>1, <2>2, TextEmpty
<1> QED BY <1>1, <1>5, <1>7, <1>8

LEMMA PaddedFacts ==
    ASSUME NEW path \in Files, NEW x \in Padded(path)
    PROVE  x \in Text /\ Len(x) = 3 + Size[path]
<1>1. PICK n \in 0 .. Size[path] : x = Header(path) \o Filled(SubSeq(Body(path), 1, n), Size[path])
  BY DEF Padded
<1>2. /\ Size[path] \in Nat /\ Body(path) \in Text /\ Len(Body(path)) = Size[path]
      /\ Header(path) \in Text /\ Len(Header(path)) = 3
  BY BodyTyped
<1> DEFINE d == SubSeq(Body(path), 1, n)
<1>3. d \in Text /\ Len(d) = n /\ Begins(d, Body(path))
  <2>1. n \in 0 .. Len(Body(path))
    BY <1>2
  <2>2. d \in Text /\ Len(d) = n
    BY <1>2, <2>1, Cut
  <2>3. \A m \in 1 .. n : d[m] = Body(path)[m]
    BY <1>2, <2>1, CutFirst
  <2> HIDE DEF d
  <2> QED BY <1>2, <2>2, <2>3 DEF Begins
<1> HIDE DEF d
<1>4. Filled(d, Size[path]) \in Text /\ Len(Filled(d, Size[path])) = Size[path]
  BY <1>3, FilledFacts
<1>5. x = Header(path) \o Filled(d, Size[path])
  BY <1>1 DEF d
<1> QED BY <1>2, <1>4, <1>5, TextConcat

(* The lines of a reply, as the worker reads them.                         *)
LEMMA ReplyRead ==
    ASSUME WebInv, NEW w \in Workers, pc[w] \in {"reply", "body"}, call[w].fd # NoFd
    PROVE  \E a \in Answers(task[w].path) :
              /\ Begins(task[w].hdr \o Ahead(w), a) /\ Begins(task[w].hdr \o Data(w), a)
<1>1. Live(w)
  BY DEF Live, Linked
<1>2. StaticInv /\ UpIs(w)
  BY <1>1 DEF WebInv
<1>3. /\ Data(w) \in Text /\ Unread(rio[w]) \in Text /\ task[w].hdr \in Text
      /\ Incoming(call[w].fd) \in Text
  <2>1. /\ Data(w) \in Text /\ Unread(rio[w]) \in Text /\ task[w].hdr \in Text
        /\ Incoming(call[w].fd) = conn[Opener(w)].in["opener"]
        /\ conn[Opener(w)].in["opener"] \in Text
    BY <1>1, <1>2, LiveFacts
  <2> QED BY <2>1
<1>4. PICK a \in Answers(task[w].path) : Begins(Received(w), a)
  BY <1>2 DEF UpIs
<1>5. Received(w) = task[w].hdr \o Ahead(w)
  BY DEF Received
<1> DEFINE h == task[w].hdr
           d == Data(w)
           u == Unread(rio[w])
           i == Incoming(call[w].fd)
<1>6. Received(w) = h \o ((d \o u) \o i)
  BY <1>5 DEF Ahead
<1>7. a \in Text
  BY AnswerHead
<1> HIDE DEF h, d, u, i
<1>8. h \in Text /\ d \in Text /\ u \in Text /\ i \in Text
  BY <1>3 DEF h, d, u, i
<1>9. h \o d \in Text /\ u \o i \in Text
  BY <1>8, TextConcat
<1>10. (h \o d) \o (u \o i) = Received(w)
  <2>1. (d \o u) \o i = d \o (u \o i)
    BY <1>8, TextGroup
  <2>2. PICK v \in Text : v = u \o i
    BY <1>9
  <2>3. (h \o d) \o v = h \o (d \o v)
    BY <1>8, TextGroup
  <2> QED BY <1>6, <2>1, <2>2, <2>3, Zenon
<1>11. Begins(h \o d, a)
  <2>1. Begins((h \o d) \o (u \o i), a)
    BY <1>4, <1>10
  <2> QED BY <1>7, <1>9, <2>1, BeginsConcat
<1> QED BY <1>4, <1>5, <1>11 DEF h, d

(* A line that ends where NL was found.                                    *)
LEMMA LineFacts ==
    ASSUME RioInv, NEW p \in Process, call[p].op = "line", call[p].ret = "ok"
    PROVE  IsLine(Data(p)) /\ Data(p) \in Text /\ Data(p) # <<>> /\ Len(Data(p)) >= 1
<1>1. LineRead(call[p]) /\ Data(p) \in Text
  BY RioParts DEF CallInv, Data
<1>2. IsLine(Data(p)) /\ Data(p) # <<>>
  BY <1>1 DEF LineRead, IsLine, Data
<1>3. Len(Data(p)) \in Nat /\ Len(Data(p)) # 0
  BY <1>1, <1>2, TextType
<1> QED BY <1>1, <1>2, <1>3

(* What has been read of the header when a line is complete.               *)
LEMMA HeaderRead ==
    ASSUME WebInv, NEW w \in Workers, pc[w] = "reply", call[w].ret = "ok"
    PROVE  /\ Live(w) /\ call[w].fd # NoFd
           /\ task[w].hdr \in Text /\ Data(w) \in Text /\ task[w].hdr \o Data(w) \in Text
           /\ Data(w) = <<NL>> =>
                 /\ Len(task[w].hdr \o Data(w)) = 3
                 /\ IsOk(task[w].hdr \o Data(w)) =>
                       /\ task[w].path \in Files
                       /\ task[w].hdr \o Data(w) = Header(task[w].path)
                       /\ ContentLen(task[w].hdr \o Data(w)) = Size[task[w].path]
           /\ Data(w) # <<NL>> =>
                 /\ Len(task[w].hdr) = 0
                 /\ \/ Len(Data(w)) = 2
                    \/ Len(Data(w)) = 1 /\ ~Answering(w) /\ Ahead(w) = Data(w)
<1>1. ReadIs(w) /\ StaticInv /\ RioInv /\ w \in Process
  BY Kinds DEF WebInv, StaticInv
<1>2. call[w].fd # NoFd
  BY <1>1 DEF ReadIs
<1>3. Live(w)
  BY <1>2 DEF Live, Linked
<1>4. /\ task[w].hdr \in Text /\ Data(w) \in Text /\ WorkerIs(w, pc[w], call[w], task[w], conn)
      /\ Unread(rio[w]) \in Text /\ Incoming(call[w].fd) \in Text
  BY <1>1, <1>3, LiveFacts, Zenon
<1>5. call[w].op = "line"
  BY <1>4 DEF WorkerIs
<1>6. IsLine(Data(w)) /\ Data(w) # <<>> /\ Len(Data(w)) >= 1
  BY <1>1, <1>5, LineFacts
<1>7. PICK a \in Answers(task[w].path) : Begins(task[w].hdr \o Data(w), a)
  BY <1>2, ReplyRead
<1>8. /\ a \in Text /\ Len(a) >= 3 /\ a[1] # NL /\ a[2] = NL /\ a[3] = NL
      /\ a[1][1] = "200" => /\ task[w].path \in Files /\ a = ServeStatic(task[w].path)
                            /\ a[1] = <<"200", task[w].path>>
  BY AnswerHead
<1> DEFINE h == task[w].hdr
           d == Data(w)
           s == h \o d
<1>9. /\ s \in Text /\ Len(s) = Len(h) + Len(d)
      /\ \A n \in 1 .. Len(h) : s[n] = h[n]
      /\ \A n \in 1 .. Len(d) : s[Len(h) + n] = d[n]
      /\ Len(h) \in Nat /\ Len(d) \in Nat
  BY <1>4, TextConcat, TextFirst, TextSecond, TextType
<1>10. Len(s) <= Len(a) /\ \A n \in 1 .. Len(s) : s[n] = a[n]
  BY <1>7 DEF Begins
<1>11. Len(h) \in {0, 2} \/ (Len(h) = 1 /\ Ahead(w) = <<>>)
  BY <1>1, <1>2 DEF ReadIs
<1>12. ~(Ahead(w) = <<>>)
  <2>1. Data(w) \o Unread(rio[w]) \in Text
    BY <1>4, TextConcat
  <2>2. Ahead(w) = <<>> => Data(w) \o Unread(rio[w]) = <<>>
    BY <1>4, <2>1, TextNone DEF Ahead
  <2>3. Data(w) \o Unread(rio[w]) = <<>> => Data(w) = <<>>
    BY <1>4, TextNone
  <2> QED BY <1>6, <2>2, <2>3
<1>13. Len(h) \in {0, 2}
  BY <1>11, <1>12
<1>14. d # <<>> /\ Len(d) >= 1 /\ \A n \in 1 .. Len(d) : d[n] = NL => n = Len(d)
  BY <1>6 DEF IsLine
<1>15. call[w].ret = "ok" /\ Last(d) # NL => ~Answering(w) /\ Ahead(w) = d
  BY <1>1, <1>2 DEF ReadIs
<1>16. d \in Text
  BY <1>4
<1> HIDE DEF h, d, s
<1>17. ASSUME d = <<NL>>
       PROVE  /\ Len(s) = 3
              /\ IsOk(s) => /\ task[w].path \in Files /\ s = Header(task[w].path)
                            /\ ContentLen(s) = Size[task[w].path]
  <2>1. Len(d) = 1 /\ d[1] = NL
    BY <1>17, BlankEnd
  <2>2. s[Len(h) + 1] = NL /\ Len(h) + 1 \in 1 .. Len(s)
    BY <1>9, <2>1
  <2>3. a[Len(h) + 1] = NL
    BY <1>10, <2>2
  <2>4. Len(h) = 2
    BY <1>8, <1>13, <2>3
  <2>5. Len(s) = 3
    BY <1>9, <2>1, <2>4
  <2>6. ASSUME IsOk(s)
        PROVE  /\ task[w].path \in Files /\ s = Header(task[w].path)
               /\ ContentLen(s) = Size[task[w].path]
    <3>1. s[1] = a[1] /\ s[2] = a[2] /\ s[3] = a[3]
      BY <1>10, <2>5
    <3>2. a[1][1] = "200"
      BY <2>6, <3>1 DEF IsOk
    <3>3. task[w].path \in Files /\ a[1] = <<"200", task[w].path>>
      BY <1>8, <3>2
    <3>4. /\ Header(task[w].path) \in Text /\ Len(Header(task[w].path)) = 3
          /\ Header(task[w].path) = <<<<"200", task[w].path>>, NL, NL>>
      BY <3>3, BodyTyped
    <3>5. /\ Header(task[w].path)[1] = <<"200", task[w].path>>
          /\ Header(task[w].path)[2] = NL /\ Header(task[w].path)[3] = NL
      BY <3>4
    <3>6. \A n \in 1 .. 3 : s[n] = Header(task[w].path)[n]
      BY <1>8, <3>1, <3>3, <3>5
    <3>7. s = Header(task[w].path)
      BY <1>9, <2>5, <3>4, <3>6, TextEqual
    <3>8. ContentLen(s) = Size[task[w].path]
      BY <3>1, <3>3 DEF ContentLen
    <3> QED BY <3>3, <3>7, <3>8
  <2> QED BY <2>5, <2>6
<1>18. ASSUME d # <<NL>>
       PROVE  /\ Len(h) = 0
              /\ Len(d) = 2 \/ (Len(d) = 1 /\ ~Answering(w) /\ Ahead(w) = d)
  <2>1. ASSUME Len(h) = 2 PROVE FALSE
    <3>1. s[3] = d[1] /\ 3 \in 1 .. Len(s)
      BY <1>9, <1>14, <2>1
    <3>2. d[1] = NL
      BY <1>8, <1>10, <3>1
    <3>3. Len(d) = 1
      <4>1. 1 \in 1 .. Len(d)
        BY <1>9, <1>14
      <4>2. \A n \in 1 .. Len(d) : d[n] = NL => n = Len(d)
        BY <1>14
      <4> QED BY <3>2, <4>1, <4>2
    <3>4. d = <<NL>>
      BY <1>16, <3>2, <3>3, BlankEnd, TextEqual
    <3> QED BY <1>18, <3>4
  <2>2. Len(h) = 0
    BY <1>13, <2>1
  <2>3. \A n \in 1 .. Len(d) : d[n] = a[n]
    BY <1>9, <1>10, <2>2
  <2>4. Len(d) <= 2
    <3>1. Len(d) >= 2 => d[2] = NL
      BY <1>8, <1>9, <2>3
    <3> QED BY <1>9, <1>14, <3>1
  <2>5. Len(d) = 1 => Last(d) # NL
    BY <1>8, <1>14, <2>3 DEF Last
  <2> QED BY <1>9, <1>14, <1>15, <2>2, <2>4, <2>5
<1> QED BY <1>2, <1>3, <1>4, <1>9, <1>17, <1>18 DEF h, d, s

LEMMA BodyRead ==
    ASSUME WebInv, NEW w \in Workers, pc[w] = "body"
    PROVE  /\ Live(w) /\ task[w].path \in Files /\ task[w].hdr = Header(task[w].path)
           /\ Data(w) \in Text /\ Begins(Data(w), Body(task[w].path))
           /\ Begins(Ahead(w), Body(task[w].path))
           /\ IsOk(task[w].hdr) /\ ContentLen(task[w].hdr) = Size[task[w].path]
           /\ call[w].ret # "none" /\ "tiny" \in up => Len(Data(w)) = Size[task[w].path]
<1>1. ReadIs(w) /\ StaticInv
  BY DEF WebInv
<1>2. /\ call[w].fd # NoFd /\ task[w].path \in Files /\ task[w].hdr = Header(task[w].path)
      /\ call[w].ret # "none" /\ "tiny" \in up => Len(Data(w)) = Size[task[w].path]
  BY <1>1 DEF ReadIs
<1>3. Live(w)
  BY <1>2 DEF Live, Linked
<1>4. Data(w) \in Text /\ Ahead(w) \in Text
  BY <1>1, <1>3, LiveFacts
<1> DEFINE path == task[w].path
<1>5. /\ Header(path) \in Text /\ Len(Header(path)) = 3 /\ Body(path) \in Text
      /\ Header(path) = <<<<"200", path>>, NL, NL>>
  BY <1>2, BodyTyped
<1>6. PICK a \in Answers(path) : Begins(Header(path) \o Ahead(w), a) /\ Begins(Header(path) \o Data(w), a)
  BY <1>2, ReplyRead
<1>7. Header(path)[1] = <<"200", path>>
  BY <1>5
<1>8. a[1] = <<"200", path>>
  <2>1. (Header(path) \o Data(w))[1] = <<"200", path>> /\ Len(Header(path) \o Data(w)) >= 1
    <3>1. Len(Data(w)) \in Nat /\ Len(Header(path) \o Data(w)) = 3 + Len(Data(w))
      BY <1>4, <1>5, TextConcat, TextType
    <3>2. 1 \in 1 .. Len(Header(path))
      BY <1>5
    <3>3. (Header(path) \o Data(w))[1] = Header(path)[1]
      BY <1>4, <1>5, <3>2, TextFirst
    <3> QED BY <1>7, <3>1, <3>3
  <2> DEFINE s == Header(path) \o Data(w)
  <2>2. s[1] = <<"200", path>> /\ Len(s) >= 1 /\ Begins(s, a)
    BY <1>6, <2>1
  <2>3. Len(s) \in Nat
    BY <1>4, <1>5, TextConcat, TextType
  <2> HIDE DEF s
  <2> QED BY <2>2, <2>3 DEF Begins
<1>9. a = Header(path) \o Body(path)
  <2>1. a[1][1] = "200"
    BY <1>8
  <2> QED BY <2>1, AnswerHead DEF ServeStatic
<1>10. Begins(Data(w), Body(path)) /\ Begins(Ahead(w), Body(path))
  BY <1>4, <1>5, <1>6, <1>9, BeginsBehind
<1>11. IsOk(task[w].hdr) /\ ContentLen(task[w].hdr) = Size[path]
  BY <1>2, <1>7 DEF IsOk, ContentLen
<1> QED BY <1>2, <1>3, <1>4, <1>10, <1>11

(* The invariant after a step that concerns at most one worker.            *)
LEMMA InvAgain ==
    ASSUME WebInv, NEW p \in Process \ {"tiny"}, StaticInv', StepBy(p), CacheInv',
           \A i \in 1 .. Len(conn) : Waits(backlog["tiny"], i) => Waits(backlog'["tiny"], i),
           p \in Workers => pc[p] # "endless", p = "cgi" => pc[p] = "running",
           p \in Workers => (Live(p) => UpIs(p))' /\ ReadIs(p)'
    PROVE  WebInv'
<1>1. StaticInv
  BY DEF WebInv
<1>2. ASSUME NEW w \in Workers PROVE (Live(w) => UpIs(w))' /\ ReadIs(w)'
  <2>1. CASE w = p
    BY <2>1
  <2>2. CASE w # p
    <3>1. /\ w \in Process \ {p} /\ "tiny" \in Process \ {p} /\ p \in Process \ {w, "tiny"}
          /\ w \in (Workers \cup {"tiny"}) \ {p} /\ "tiny" \in (Workers \cup {"tiny"}) \ {p}
      BY <2>2, Kinds
    <3>2. ASSUME Live(w)
          PROVE  /\ conn'[Opener(w)] = conn[Opener(w)]
                 /\ Waits(backlog'["tiny"], Opener(w)) <=> Waits(backlog["tiny"], Opener(w))
      <4>1. Opener(w) \in 1 .. Len(conn)
        BY <1>1, <3>2, LiveFacts
      <4>2. call[p].fd.conn # Opener(w)
        BY <1>1, <3>1, <3>2, Apart DEF Live, Opener
      <4> QED BY <4>1, <4>2 DEF StepBy
    <3>3. Unmoved(w)
      BY <3>1, <3>2 DEF StepBy, Unmoved
    <3>4. (Live(w) => UpIs(w)) /\ ReadIs(w)
      BY DEF WebInv
    <3> QED BY <1>1, <3>3, <3>4, UnmovedKept
  <2> QED BY <2>1, <2>2
<1> QED BY <1>2 DEF WebInv

LEMMA CacheKept ==
    ASSUME CacheInv, cache' = cache, up' \subseteq up
    PROVE  CacheInv'
BY DEF CacheInv

LEMMA WorkerEnds ==
    ASSUME WebInv, NEW w \in Workers, StaticInv', StepBy(w), CacheInv', pc[w] # "endless",
           backlog'["tiny"] = backlog["tiny"],
           pc'[w] \notin {"send", "reply", "body"}
    PROVE  WebInv'
<1>1. w \in Process \ {"tiny"} /\ w # "cgi"
  BY Kinds
<1>2. (Live(w) => UpIs(w))' /\ ReadIs(w)'
  BY DEF Live, Linked, ReadIs
<1> QED BY <1>1, <1>2, InvAgain

LEMMA QueuedRest ==
    ASSUME NEW s, NEW k, NEW b \in Seq(Nat), b # <<>>, Queued(s, b, k)
    PROVE  /\ Tail(b) \in Seq(Nat) /\ Queued(s, Tail(b), k)
           /\ Head(b) \in 1 .. Len(k) /\ k[Head(b)].to = s /\ ~Waits(Tail(b), Head(b))
           /\ \A i : Waits(b, i) <=> i = Head(b) \/ Waits(Tail(b), i)
<1>1. /\ Tail(b) \in Seq(Nat) /\ Len(Tail(b)) = Len(b) - 1 /\ Len(b) \in Nat /\ Len(b) > 0
      /\ \A n \in 1 .. Len(Tail(b)) : Tail(b)[n] = b[n + 1]
      /\ Head(b) = b[1]
  BY HeadTailProperties, EmptySeq, LenProperties
<1> DEFINE t == Tail(b)
<1> HIDE DEF t
<1>2. t \in Seq(Nat) /\ Len(t) = Len(b) - 1 /\ \A n \in 1 .. Len(t) : t[n] = b[n + 1]
  BY <1>1 DEF t
<1>3. \A n \in 1 .. Len(t) : n + 1 \in 1 .. Len(b) /\ n + 1 # 1
  BY <1>1, <1>2
<1>4. 1 \in 1 .. Len(b)
  BY <1>1
<1>5. /\ \A n \in 1 .. Len(b) : b[n] \in 1 .. Len(k) /\ k[b[n]].to = s
      /\ \A n \in 1 .. Len(b) : \A m \in 1 .. Len(b) : b[m] = b[n] => m = n
  BY DEF Queued
<1>6. Head(b) \in 1 .. Len(k) /\ k[Head(b)].to = s
  BY <1>1, <1>4, <1>5
<1>7. ~Waits(t, Head(b))
  BY <1>1, <1>2, <1>3, <1>4, <1>5 DEF Waits
<1>8. Queued(s, t, k)
  <2> SUFFICES ASSUME NEW n \in 1 .. Len(t)
               PROVE  /\ t[n] \in 1 .. Len(k) /\ k[t[n]].to = s
                      /\ \A m \in 1 .. Len(t) : t[m] = t[n] => m = n
    BY DEF Queued
  <2>1. n + 1 \in 1 .. Len(b) /\ t[n] = b[n + 1]
    BY <1>2, <1>3
  <2>2. ASSUME NEW m \in 1 .. Len(t), t[m] = t[n] PROVE m = n
    <3>1. m + 1 \in 1 .. Len(b) /\ b[m + 1] = b[n + 1]
      BY <1>2, <1>3, <2>1, <2>2
    <3>2. m + 1 = n + 1
      BY <1>5, <2>1, <3>1
    <3> QED BY <3>2
  <2> QED BY <1>5, <2>1, <2>2
<1>9. ASSUME NEW i PROVE Waits(b, i) <=> i = Head(b) \/ Waits(t, i)
  <2>1. ASSUME Waits(b, i), i # Head(b) PROVE Waits(t, i)
    <3>1. PICK n \in 1 .. Len(b) : b[n] = i
      BY <2>1 DEF Waits
    <3>2. n # 1
      BY <1>1, <2>1, <3>1
    <3>3. n - 1 \in 1 .. Len(t) /\ (n - 1) + 1 = n
      BY <1>1, <1>2, <3>2
    <3>4. t[n - 1] = i
      BY <1>2, <3>1, <3>3
    <3> QED BY <3>3, <3>4 DEF Waits
  <2>2. Waits(t, i) => Waits(b, i)
    BY <1>2, <1>3 DEF Waits
  <2>3. Waits(b, Head(b))
    BY <1>1, <1>4 DEF Waits
  <2> QED BY <2>1, <2>2, <2>3
<1> QED BY <1>2, <1>6, <1>7, <1>8, <1>9 DEF t

LEMMA TaskFacts ==
    /\ NoTask \in Task /\ NoTask.conn = 0 /\ NoTask.path = "none" /\ NoTask.hdr = <<>>
    /\ NoTask.line = <<>>
BY TextType DEF NoTask, Task, Paths

LEMMA TasksSet ==
    ASSUME StaticInv, NEW p \in Workers \cup {"tiny"}, NEW t \in Task, SetTask(p, t)
    PROVE  Tasks(p) /\ task'[p] = t
BY DEF SetTask, Tasks, StaticInv, Types

(* The worker's part of the invariant.                                     *)
LEMMA WorkerFacts ==
    ASSUME StaticInv, NEW w \in Workers
    PROVE  /\ w \in Process /\ w # "tiny" /\ w # "cgi" /\ w \notin Clients
           /\ w \in Workers \cup {"tiny"} /\ RioInv
           /\ pc \in [Process -> Labels] /\ pc[w] \in Labels
           /\ call \in [Process -> Calling] /\ rio \in [Process -> Buffer]
           /\ task \in [Workers \cup {"tiny"} -> Task]
           /\ task[w] \in Task /\ task[w].conn \in Nat /\ task[w].path \in Paths
           /\ task[w].hdr \in Text /\ task[w].line \in Text
           /\ Data(w) \in Text /\ Starts(call[w]) /\ InRange(call[w], conn)
           /\ call[w].ret \in {"none", "ok", "eof", "error"}
           /\ WorkerIs(w, pc[w], call[w], task[w], conn)
           /\ backlog \in [Servers -> Seq(Nat)] /\ \A s \in Servers : Queued(s, backlog[s], conn)
           /\ Len(conn) \in Nat
<1>1. w \in Process /\ w # "tiny" /\ w # "cgi" /\ w \notin Clients
  BY Kinds
<1>2. task \in [Workers \cup {"tiny"} -> Task] /\ task[w] \in Task
  BY DEF StaticInv, Types
<1>3. /\ task[w].conn \in Nat /\ task[w].path \in Paths
      /\ task[w].hdr \in Text /\ task[w].line \in Text
  BY <1>2 DEF Task
<1>4. /\ RioInv /\ pc \in [Process -> Labels] /\ WorkerIs(w, pc[w], call[w], task[w], conn)
      /\ backlog \in [Servers -> Seq(Nat)] /\ \A s \in Servers : Queued(s, backlog[s], conn)
  BY DEF StaticInv, Types
<1>5. call \in [Process -> Calling] /\ rio \in [Process -> Buffer] /\ CallInv(call[w])
  BY <1>1, <1>4 DEF RioInv
<1>6. Data(w) \in Text /\ Starts(call[w]) /\ call[w].ret \in {"none", "ok", "eof", "error"}
  BY <1>5, CallFields DEF Data, CallInv, Starts
<1>7. InRange(call[w], conn)
  BY <1>1, StaticRange
<1>8. Len(conn) \in Nat
  BY <1>4, LenProperties DEF RioInv
<1> QED BY <1>1, <1>2, <1>3, <1>4, <1>5, <1>6, <1>7, <1>8

(* A worker goes on without talking to Tiny.                               *)
LEMMA WorkerLocal ==
    ASSUME WebInv, NEW w \in Workers, NEW at \in Labels \ {"send", "reply", "body"},
           NEW c, Starts(c), InRange(c, conn), NEW t \in Task, pc[w] # "endless",
           Goes(w, at, c), SetTask(w, t), UNCHANGED <<conn, shared>>, WorkerIs(w, at, c, t, conn)
    PROVE  WebInv'
<1>0. StaticInv
  BY DEF WebInv
<1>1. /\ w \in Process /\ w # "tiny" /\ w # "cgi" /\ w \notin Clients
      /\ w \in Workers \cup {"tiny"} /\ backlog \in [Servers -> Seq(Nat)]
      /\ \A s \in Servers : Queued(s, backlog[s], conn)
  BY <1>0, WorkerFacts
<1>2. Tasks(w) /\ task'[w] = t
  BY <1>0, <1>1, TasksSet
<1>3. /\ scenario' = scenario /\ up' = up /\ backlog' = backlog /\ cache' = cache
      /\ files' = files /\ conn' = conn
  BY DEF shared
<1>4. ~Linked(at, c) /\ Serving
  BY <1>3 DEF Linked, Serving
<1>5. StaticInv' /\ StepBy(w) /\ pc'[w] = at
  BY <1>0, <1>1, <1>2, <1>3, <1>4, Local
<1>6. CacheInv'
  BY <1>3, CacheKept DEF WebInv
<1> QED BY <1>3, <1>5, <1>6, WorkerEnds

LEMMA WorkerCloses ==
    ASSUME WebInv, NEW w \in Workers, CloseConn(w), pc[w] \in {"request", "last"}
    PROVE  WebInv'
<1>0. StaticInv
  BY DEF WebInv
<1>1. /\ w \in Process /\ w # "tiny" /\ w # "cgi" /\ w \notin Clients
      /\ w \in Workers \cup {"tiny"} /\ WorkerIs(w, pc[w], call[w], task[w], conn)
  BY <1>0, WorkerFacts
<1>2. /\ conn' \in AfterClose({ConnFd(w)}) /\ SetTask(w, NoTask)
      /\ pc' = [pc EXCEPT ![w] = "idle"] /\ call' = [call EXCEPT ![w] = NoCall]
      /\ rio' = [rio EXCEPT ![w] = EmptyRio]
      /\ scenario' = scenario /\ up' = up /\ backlog' = backlog /\ cache' = cache /\ files' = files
  BY DEF CloseConn, Closed, Goto, shared
<1>3. call[w].fd = ConnFd(w)
  BY <1>1 DEF WorkerIs, ConnFd
<1>4. Tasks(w) /\ task'[w] = NoTask
  BY <1>0, <1>1, <1>2, TasksSet, TaskFacts
<1>5. Goes(w, "idle", NoCall) /\ Serving /\ "idle" \in Labels
  BY <1>2 DEF Goes, Serving, Labels
<1>6. Starts(NoCall) /\ NoCall.fd = NoFd /\ InRange(NoCall, conn)
  BY CallFacts DEF InRange
<1>7. WorkerIs(w, "idle", NoCall, task'[w], conn) /\ ~Linked("idle", NoCall)
  BY <1>6 DEF WorkerIs, Linked
<1>8. StaticInv' /\ StepBy(w) /\ pc'[w] = "idle"
  BY <1>0, <1>1, <1>2, <1>3, <1>4, <1>5, <1>6, <1>7, CloseStep
<1>9. CacheInv'
  BY <1>2, CacheKept DEF WebInv
<1> QED BY <1>2, <1>8, <1>9, WorkerEnds

LEMMA ContinueGoes ==
    ASSUME NEW p, NEW at, NEW c, Continue(p, at, c)
    PROVE  Goes(p, at, c) /\ conn' = conn /\ rio' = rio
BY DEF Continue, Goto, Goes

LEMMA GotoGoes ==
    ASSUME StaticInv, NEW p \in Process, NEW at, Goto(p, at), UNCHANGED rvars
    PROVE  Goes(p, at, call[p]) /\ conn' = conn /\ rio' = rio
<1>1. call' = [call EXCEPT ![p] = call[p]]
  BY DEF rvars, StaticInv, RioInv
<1> QED BY <1>1 DEF Goto, Goes, rvars

(* A call on the worker's own connection.                                  *)
LEMMA OwnCall ==
    ASSUME StaticInv, NEW w \in Workers, task[w].conn \in 1 .. Len(conn)
    PROVE  /\ ConnFd(w) \in Descriptor /\ ConnFd(w) = Fd(task[w].conn, "acceptor")
           /\ InRange(ReadLine(ConnFd(w)), conn) /\ Starts(ReadLine(ConnFd(w)))
           /\ ReadLine(ConnFd(w)).fd = ConnFd(w) /\ ReadLine(ConnFd(w)).op = "line"
           /\ \A data \in Text : /\ InRange(WriteN(ConnFd(w), data), conn)
                                 /\ Starts(WriteN(ConnFd(w), data))
                                 /\ WriteN(ConnFd(w), data).fd = ConnFd(w)
                                 /\ WriteN(ConnFd(w), data).op = "write"
<1>1. ConnFd(w) \in Descriptor /\ ConnFd(w).conn = task[w].conn
      /\ ConnFd(w) = Fd(task[w].conn, "acceptor")
  <2>1. task[w].conn \in Nat
    BY WorkerFacts
  <2> QED BY <2>1, DescriptorFacts, Ends DEF ConnFd
<1>2. Starts(ReadLine(ConnFd(w))) /\ ReadLine(ConnFd(w)).fd = ConnFd(w)
      /\ ReadLine(ConnFd(w)).op = "line"
  BY <1>1, CallFacts
<1>3. ASSUME NEW data \in Text
      PROVE  /\ Starts(WriteN(ConnFd(w), data)) /\ WriteN(ConnFd(w), data).fd = ConnFd(w)
             /\ WriteN(ConnFd(w), data).op = "write"
  BY <1>1, CallFacts
<1> QED BY <1>1, <1>2, <1>3 DEF InRange

(* The reply to the client is written last.                                *)
LEMMA ServedLast ==
    ASSUME WebInv, NEW w \in Workers, NEW reply \in Text, NEW t \in Task,
           pc[w] \in {"request", "headers", "find", "connect", "send", "reply", "body"},
           t.conn = task[w].conn,
           DoServer(w, reply), SetTask(w, t), UNCHANGED shared
    PROVE  WebInv'
<1>0. StaticInv
  BY DEF WebInv
<1>1. WorkerIs(w, pc[w], call[w], task[w], conn) /\ pc[w] # "endless"
  BY <1>0, WorkerFacts
<1>2. task[w].conn \in 1 .. Len(conn) /\ conn[task[w].conn].to = "proxy"
  BY <1>1 DEF WorkerIs
<1>3. PICK c : c = WriteN(ConnFd(w), reply)
  OBVIOUS
<1>4. /\ InRange(c, conn) /\ Starts(c) /\ c.fd = Fd(task[w].conn, "acceptor") /\ c.op = "write"
  BY <1>0, <1>2, <1>3, OwnCall
<1>5. Goes(w, "last", c) /\ conn' = conn
  BY <1>3, ContinueGoes DEF DoServer
<1>6. WorkerIs(w, "last", c, t, conn)
  BY <1>2, <1>4 DEF WorkerIs, Linked
<1>7. "last" \in Labels \ {"send", "reply", "body"} /\ UNCHANGED <<conn, shared>>
  BY <1>5 DEF Labels
<1> QED BY <1>1, <1>4, <1>5, <1>6, <1>7, WorkerLocal

LEMMA Unset ==
    ASSUME StaticInv, NEW p \in Workers \cup {"tiny"}, task' = task
    PROVE  SetTask(p, task[p])
BY DEF SetTask, StaticInv, Types

LEMMA TakeConnectionInv ==
    ASSUME WebInv, NEW w \in Workers, TakeConnection(w)
    PROVE  WebInv'
<1>0. StaticInv
  BY DEF WebInv
<1> DEFINE b == backlog["proxy"]
           i == Head(b)
<1>1. /\ pc[w] = "idle" /\ b # <<>> /\ SetTask(w, [NoTask EXCEPT !.conn = i])
      /\ Continue(w, "request", ReadLine(Fd(i, "acceptor")))
      /\ backlog' = [backlog EXCEPT !["proxy"] = Tail(b)]
      /\ scenario' = scenario /\ up' = up /\ cache' = cache /\ files' = files
  BY DEF TakeConnection
<1>2. /\ w \in Process /\ w # "tiny" /\ w # "cgi" /\ w \notin Clients
      /\ w \in Workers \cup {"tiny"} /\ backlog \in [Servers -> Seq(Nat)]
      /\ \A s \in Servers : Queued(s, backlog[s], conn)
      /\ "proxy" \in Servers /\ "tiny" \in Servers /\ "tiny" # "proxy"
  BY <1>0, WorkerFacts, Kinds
<1>a. b \in Seq(Nat) /\ b # <<>> /\ Queued("proxy", b, conn) /\ i = Head(b)
  BY <1>1, <1>2
<1> HIDE DEF b
<1>3. /\ Tail(b) \in Seq(Nat) /\ Queued("proxy", Tail(b), conn)
      /\ i \in 1 .. Len(conn) /\ conn[i].to = "proxy"
  BY <1>a, QueuedRest
<1> HIDE DEF i
<1>4. PICK t \in Task : t = [NoTask EXCEPT !.conn = i] /\ t.conn = i /\ t.hdr = <<>>
  <2>1. [NoTask EXCEPT !.conn = i] \in Task /\ [NoTask EXCEPT !.conn = i].conn = i
        /\ [NoTask EXCEPT !.conn = i].hdr = <<>>
    BY <1>3, TaskFacts DEF Task
  <2> QED BY <2>1
<1>5. Tasks(w) /\ task'[w] = t
  BY <1>0, <1>1, <1>2, <1>4, TasksSet
<1>6. PICK c : c = ReadLine(Fd(i, "acceptor"))
  OBVIOUS
<1>7. /\ Starts(c) /\ c.fd = Fd(i, "acceptor") /\ c.op = "line" /\ InRange(c, conn)
  <2>1. Fd(i, "acceptor") \in Descriptor /\ Fd(i, "acceptor").conn = i
    BY <1>3, DescriptorFacts, Ends
  <2> QED BY <1>3, <1>6, <2>1, CallFacts DEF InRange
<1>8. Goes(w, "request", c) /\ conn' = conn
  BY <1>1, <1>6, ContinueGoes
<1>9. /\ backlog' \in [Servers -> Seq(Nat)] /\ \A s \in Servers : Queued(s, backlog'[s], conn)
      /\ backlog'["tiny"] = backlog["tiny"]
  BY <1>1, <1>2, <1>3 DEF b
<1>10. WorkerIs(w, "request", c, task'[w], conn) /\ ~Linked("request", c)
  BY <1>3, <1>4, <1>5, <1>7, PlainText DEF WorkerIs, Linked
<1>11. Serving /\ "request" \in Labels
  BY <1>1 DEF Serving, Labels
<1>12. StaticInv' /\ StepBy(w) /\ pc'[w] = "request"
  BY <1>0, <1>2, <1>5, <1>7, <1>8, <1>9, <1>10, <1>11, Local
<1>13. CacheInv'
  BY <1>1, CacheKept DEF WebInv
<1> QED BY <1>1, <1>9, <1>12, <1>13, WorkerEnds

LEMMA ParseUriStatic ==
    ASSUME NEW path \in Paths
    PROVE  ParseUri(path) \in Paths /\ Static(ParseUri(path))
BY FilesAssumption DEF ParseUri, Paths, Static, Dynamic

(* A server ends: its threads are dead, and the other processes only see   *)
(* their connections closed.                                               *)
LEMMA DeadFacts ==
    ASSUME StaticInv, NEW server \in Servers, Dies(server)
    PROVE  /\ up' = up \ {server} /\ scenario' = scenario /\ task' = task
           /\ cache' = cache /\ files' = files
           /\ pc' \in [Process -> Labels] /\ call' \in [Process -> Calling]
           /\ rio' \in [Process -> Buffer]
           /\ \A p \in Threads(server) : pc'[p] = "dead" /\ call'[p] = NoCall /\ rio'[p] = EmptyRio
           /\ \A p \in Process \ Threads(server) :
                 pc'[p] = pc[p] /\ call'[p] = call[p] /\ rio'[p] = rio[p]
           /\ backlog' \in [Servers -> Seq(Nat)] /\ backlog'[server] = <<>>
           /\ \A s \in Servers \ {server} : backlog'[s] = backlog[s]
           /\ CloseView(DescriptorsOf(server)) /\ Grown(conn, conn')
           /\ Threads(server) \subseteq Process
<1>1. /\ pc \in [Process -> Labels] /\ call \in [Process -> Calling] /\ rio \in [Process -> Buffer]
      /\ backlog \in [Servers -> Seq(Nat)] /\ RioInv
  BY DEF StaticInv, Types, RioInv
<1>2. Threads(server) \subseteq Process
  BY Kinds DEF Threads
<1> DEFINE T == Threads(server)
<1>3. /\ up' = up \ {server} /\ conn' \in AfterClose(DescriptorsOf(server))
      /\ pc' = [p \in Process |-> IF p \in T THEN "dead" ELSE pc[p]]
      /\ call' = [p \in Process |-> IF p \in T THEN NoCall ELSE call[p]]
      /\ rio' = [p \in Process |-> IF p \in T THEN EmptyRio ELSE rio[p]]
      /\ backlog' = [backlog EXCEPT ![server] = <<>>]
      /\ scenario' = scenario /\ task' = task /\ cache' = cache /\ files' = files
  BY DEF Dies
<1> HIDE DEF T
<1>4. NoCall \in Calling /\ EmptyRio \in Buffer /\ "dead" \in Labels
  BY CallFacts, EmptyRioFacts DEF Starts, Labels
<1>5. /\ pc' \in [Process -> Labels] /\ call' \in [Process -> Calling]
      /\ rio' \in [Process -> Buffer]
  BY <1>1, <1>3, <1>4
<1>6. T \subseteq Process
  BY <1>2 DEF T
<1>7. /\ \A p \in T : pc'[p] = "dead" /\ call'[p] = NoCall /\ rio'[p] = EmptyRio
      /\ \A p \in Process \ T : pc'[p] = pc[p] /\ call'[p] = call[p] /\ rio'[p] = rio[p]
  BY <1>3, <1>6
<1>8. /\ backlog' \in [Servers -> Seq(Nat)] /\ backlog'[server] = <<>>
      /\ \A s \in Servers \ {server} : backlog'[s] = backlog[s]
  <2>1. <<>> \in Seq(Nat)
    BY EmptySeq
  <2> QED BY <1>1, <1>3, <2>1
<1>9. CloseView(DescriptorsOf(server))
  BY <1>1, <1>3, ClosedSeen DEF RioInv
<1>10. Grown(conn, conn')
  <2>1. Len(conn) \in Nat
    BY <1>1, LenProperties DEF RioInv
  <2> QED BY <1>9, <2>1 DEF CloseView, Grown
<1> QED BY <1>2, <1>3, <1>5, <1>7, <1>8, <1>9, <1>10 DEF T

LEMMA QueuedNone ==
    ASSUME NEW s, NEW k
    PROVE  Queued(s, <<>>, k) /\ \A i : ~Waits(<<>>, i)
BY DEF Queued, Waits

LEMMA DeadRio ==
    ASSUME StaticInv, NEW server \in Servers, Dies(server)
    PROVE  RioInv'
<1>1. /\ call' \in [Process -> Calling] /\ rio' \in [Process -> Buffer]
      /\ \A p \in Threads(server) : call'[p] = NoCall /\ rio'[p] = EmptyRio
      /\ \A p \in Process \ Threads(server) : call'[p] = call[p] /\ rio'[p] = rio[p]
      /\ CloseView(DescriptorsOf(server)) /\ Grown(conn, conn')
  BY DeadFacts
<1>2. /\ conn' \in Seq(Link) /\ Len(conn') = Len(conn) /\ \A i \in 1 .. Len(conn) : LinkInv(conn'[i])
  BY <1>1 DEF CloseView
<1>3. ASSUME NEW p \in Process PROVE BufferInv(rio'[p]) /\ CallInv(call[p])'
  <2>1. CASE p \in Threads(server)
    <3>1. BufferInv(rio'[p])
      BY <1>1, <2>1, EmptyRioFacts
    <3>2. Starts(call'[p]) /\ call'[p].fd = NoFd
      BY <1>1, <2>1, CallFacts
    <3> QED BY <3>1, <3>2 DEF CallInv, Starts
  <2>2. CASE p \notin Threads(server)
    <3>1. call'[p] = call[p] /\ rio'[p] = rio[p] /\ CallInv(call[p]) /\ BufferInv(rio[p])
      BY <1>1, <2>2 DEF StaticInv, RioInv
    <3> QED BY <1>2, <3>1 DEF CallInv
  <2> QED BY <2>1, <2>2
<1> QED BY <1>1, <1>2, <1>3 DEF RioInv

LEMMA DeadOpeners ==
    ASSUME StaticInv, Dies("tiny"), NEW w \in Workers, Live(w)
    PROVE  /\ conn'[Opener(w)].open["opener"] /\ ~conn'[Opener(w)].open["acceptor"]
           /\ conn'[Opener(w)].in["opener"] \in {conn[Opener(w)].in["opener"], <<>>}
<1> DEFINE i == Opener(w)
<1>1. /\ i \in 1 .. Len(conn) /\ conn[i].by = w /\ conn[i].to = "tiny" /\ w # "tiny"
      /\ conn[i].open["opener"] = TRUE
  BY LiveFacts
<1>2. /\ CloseView(DescriptorsOf("tiny")) /\ "tiny" \in Servers
  BY DeadFacts, Kinds
<1>3. AloneIs(w, pc[w], call[w], pc["cgi"], call["cgi"]) /\ conn \in Seq(Link)
  BY DEF StaticInv, RioInv
<1>4. pc["cgi"] = "running" => call["cgi"].fd # Fd(i, "acceptor")
  <2>1. pc["cgi"] = "running" => call["cgi"].fd.conn # i
    BY <1>3 DEF AloneIs, Live, Opener
  <2> QED BY <2>1 DEF Fd
<1> HIDE DEF i
<1>5. DOMAIN conn = 1 .. Len(conn) /\ "acceptor" \in Sides /\ "opener" \in Sides
  BY <1>3, Ends
<1>6. Fd(i, "acceptor") \in DescriptorsOf("tiny")
  <2>1. Fd(i, "acceptor") \in [conn : DOMAIN conn, side : Sides]
    BY <1>1, <1>5 DEF Fd
  <2>2. Fd(i, "acceptor").side = "acceptor" /\ Fd(i, "acceptor").conn = i
    BY DEF Fd
  <2> QED BY <1>1, <1>4, <2>1, <2>2 DEF DescriptorsOf
<1>7. Fd(i, "opener") \notin DescriptorsOf("tiny")
  <2>1. Fd(i, "opener").side = "opener" /\ Fd(i, "opener").conn = i
    BY DEF Fd
  <2> QED BY <1>1, <2>1 DEF DescriptorsOf, Threads
<1>8. /\ \A s \in Sides : /\ conn'[i].open[s] = (conn[i].open[s] /\ Fd(i, s) \notin DescriptorsOf("tiny"))
                          /\ conn'[i].in[s] \in {conn[i].in[s], <<>>}
  BY <1>1, <1>2 DEF CloseView
<1>9. /\ conn'[i].open["opener"] = (conn[i].open["opener"] /\ Fd(i, "opener") \notin DescriptorsOf("tiny"))
      /\ conn'[i].open["acceptor"] = (conn[i].open["acceptor"] /\ Fd(i, "acceptor") \notin DescriptorsOf("tiny"))
      /\ conn'[i].in["opener"] \in {conn[i].in["opener"], <<>>}
  BY <1>5, <1>8
<1> QED BY <1>1, <1>6, <1>7, <1>9 DEF i

LEMMA DeadStatic ==
    ASSUME StaticInv, NEW server \in Servers, Dies(server)
    PROVE  StaticInv'
<1> DEFINE T == Threads(server)
<1>1. /\ up' = up \ {server} /\ scenario' = scenario /\ task' = task /\ files' = files
      /\ pc' \in [Process -> Labels]
      /\ \A p \in T : pc'[p] = "dead" /\ call'[p] = NoCall /\ rio'[p] = EmptyRio
      /\ \A p \in Process \ T : pc'[p] = pc[p] /\ call'[p] = call[p] /\ rio'[p] = rio[p]
      /\ backlog' \in [Servers -> Seq(Nat)] /\ backlog'[server] = <<>>
      /\ \A s \in Servers \ {server} : backlog'[s] = backlog[s]
      /\ Grown(conn, conn')
  BY DeadFacts
<1>2. RioInv'
  BY DeadRio
<1>3. NoCall.fd = NoFd /\ NoCall.ret = "ok"
  BY CallFacts
<1>4. T = (IF server = "proxy" THEN Workers ELSE {"tiny"})
  BY DEF Threads
<1> HIDE DEF T
<1>5. Types'
  BY <1>1 DEF StaticInv, Types
<1>6. ASSUME NEW s \in Servers PROVE Queued(s, backlog'[s], conn')
  <2>1. CASE s = server
    BY <1>1, <2>1, QueuedNone
  <2>2. CASE s # server
    <3>1. backlog'[s] = backlog[s] /\ Queued(s, backlog[s], conn)
      BY <1>1, <2>2 DEF StaticInv
    <3> QED BY <1>1, <3>1, QueuedKept
  <2> QED BY <2>1, <2>2
<1>7. ASSUME NEW c \in Clients PROVE ClientIs(c, call'[c], conn')
  <2>1. c \in Process \ T
    BY <1>4, Kinds
  <2>2. call'[c] = call[c] /\ InRange(call[c], conn) /\ ClientIs(c, call[c], conn)
    BY <1>1, <2>1, StaticRange DEF StaticInv
  <2> QED BY <1>1, <2>2, ClientKept
<1>8. ASSUME NEW w \in Workers
      PROVE  /\ WorkerIs(w, pc'[w], call'[w], task'[w], conn')
             /\ AloneIs(w, pc'[w], call'[w], pc'["cgi"], call'["cgi"])
  <2>1. CASE server = "proxy"
    <3>1. pc'[w] = "dead" /\ call'[w] = NoCall
      BY <1>1, <1>4, <2>1
    <3>2. ~Linked("dead", NoCall)
      BY DEF Linked
    <3> QED BY <1>3, <3>1, <3>2 DEF WorkerIs, AloneIs
  <2>2. CASE server # "proxy"
    <3>1. server = "tiny" /\ w \in Process \ T /\ "cgi" \in Process \ T
      BY <1>4, <2>2, Kinds
    <3>2. /\ pc'[w] = pc[w] /\ call'[w] = call[w] /\ pc'["cgi"] = pc["cgi"]
          /\ call'["cgi"] = call["cgi"] /\ task'[w] = task[w]
      BY <1>1, <3>1
    <3>3. /\ InRange(call[w], conn) /\ WorkerIs(w, pc[w], call[w], task[w], conn)
          /\ AloneIs(w, pc[w], call[w], pc["cgi"], call["cgi"])
      BY <3>1, StaticRange DEF StaticInv
    <3>4. Linked(pc[w], call[w]) => conn'[call[w].fd.conn].open["opener"]
      BY <3>1, DeadOpeners DEF Live, Opener
    <3>5. WorkerIs(w, pc[w], call[w], task[w], conn')
      BY <1>1, <3>3, <3>4, WorkerKept
    <3> QED BY <3>2, <3>3, <3>5
  <2> QED BY <2>1, <2>2
<1>9. TinyIs(pc'["tiny"], call'["tiny"], task'["tiny"], rio'["tiny"], conn', "tiny" \in up', backlog'["tiny"])
  <2>1. CASE server = "tiny"
    <3>1. pc'["tiny"] = "dead" /\ call'["tiny"] = NoCall /\ ~("tiny" \in up')
      BY <1>1, <1>4, <2>1
    <3> QED BY <1>3, <3>1 DEF TinyIs
  <2>2. CASE server # "tiny"
    <3>1. "tiny" \in Process \ T /\ server = "proxy" /\ "tiny" \in Servers \ {server}
      BY <1>4, <2>2, Kinds
    <3>2. /\ pc'["tiny"] = pc["tiny"] /\ call'["tiny"] = call["tiny"] /\ rio'["tiny"] = rio["tiny"]
          /\ task'["tiny"] = task["tiny"] /\ backlog'["tiny"] = backlog["tiny"]
          /\ ("tiny" \in up') = ("tiny" \in up)
      BY <1>1, <2>2, <3>1
    <3>3. /\ InRange(call["tiny"], conn)
          /\ TinyIs(pc["tiny"], call["tiny"], task["tiny"], rio["tiny"], conn, "tiny" \in up, backlog["tiny"])
      BY <3>1, StaticRange DEF StaticInv
    <3>4. TinyIs(pc["tiny"], call["tiny"], task["tiny"], rio["tiny"], conn', "tiny" \in up, backlog["tiny"])
      BY <1>1, <3>3, TinyKept
    <3> QED BY <3>2, <3>4
  <2> QED BY <2>1, <2>2
<1>10. CgiIs(pc'["cgi"], call'["cgi"], conn')
  <2>1. "cgi" \in Process \ T
    BY <1>4, Kinds
  <2>2. /\ pc'["cgi"] = pc["cgi"] /\ call'["cgi"] = call["cgi"]
        /\ InRange(call["cgi"], conn) /\ CgiIs(pc["cgi"], call["cgi"], conn)
    BY <1>1, <2>1, StaticRange DEF StaticInv
  <2> QED BY <1>1, <2>2, CgiKept
<1> QED BY <1>2, <1>5, <1>6, <1>7, <1>8, <1>9, <1>10 DEF StaticInv

LEMMA ProxyDies ==
    ASSUME WebInv, Dies("proxy")
    PROVE  WebInv'
<1>1. StaticInv /\ CacheInv /\ "proxy" \in Servers
  BY Kinds DEF WebInv
<1>2. StaticInv'
  BY <1>1, DeadStatic
<1>3. /\ up' = up \ {"proxy"} /\ cache' = cache
      /\ \A w \in Workers : pc'[w] = "dead"
  BY <1>1, DeadFacts DEF Threads
<1>4. CacheInv'
  BY <1>1, <1>3, CacheKept
<1>5. \A w \in Workers : (Live(w) => UpIs(w))' /\ ReadIs(w)'
  BY <1>3 DEF Live, Linked, ReadIs
<1> QED BY <1>2, <1>4, <1>5 DEF WebInv

(* What was under way may be lost.                                         *)
LEMMA LostAhead ==
    ASSUME StaticInv, NEW w \in Workers, Live(w),
           pc'[w] = pc[w], call'[w] = call[w], rio'[w] = rio[w], task'[w] = task[w],
           conn'[Opener(w)].in["opener"] \in {conn[Opener(w)].in["opener"], <<>>}
    PROVE  /\ \A a \in Text : Begins(Received(w), a) => Begins(Received(w)', a)
           /\ Ahead(w) = <<>> => Ahead(w)' = <<>>
           /\ Ahead(w) = Data(w) => Ahead(w)' = Data(w)
<1>1. /\ call[w].fd = Fd(Opener(w), "opener") /\ Incoming(call[w].fd) = conn[Opener(w)].in["opener"]
      /\ conn[Opener(w)].in["opener"] \in Text /\ Data(w) \in Text /\ Unread(rio[w]) \in Text
      /\ task[w].hdr \in Text
  BY LiveFacts
<1>2. PICK i \in Text : i = conn[Opener(w)].in["opener"]
  BY <1>1
<1>3. PICK j \in {i, <<>>} : j = conn'[Opener(w)].in["opener"]
  BY <1>2
<1>4. PICK e \in Text : e = Data(w) \o Unread(rio[w])
  BY <1>1, TextConcat
<1>5. Ahead(w) = e \o i
  BY <1>1, <1>2, <1>4 DEF Ahead
<1>6. Ahead(w)' = e \o j
  <2>1. call'[w].fd.conn = Opener(w) /\ call'[w].fd.side = "opener"
    BY <1>1 DEF Fd, Opener
  <2>2. Incoming(call[w].fd)' = j
    BY <1>3, <2>1 DEF Incoming
  <2> QED BY <1>4, <2>2 DEF Ahead, Data
<1>7. CASE j = i
  <2>1. Ahead(w)' = Ahead(w)
    BY <1>5, <1>6, <1>7
  <2>2. Received(w)' = Received(w)
    BY <1>2, <1>3, <1>7, <2>1 DEF Received, Opener
  <2> QED BY <2>1, <2>2
<1>8. CASE j = <<>>
  <2>1. Ahead(w)' = e
    BY <1>4, <1>6, <1>8, TextEmpty
  <2>2. Ahead(w) = <<>> => e = <<>>
    BY <1>4, <1>5, TextNone
  <2>3. ASSUME Ahead(w) = Data(w) PROVE e = Data(w)
    <3>1. PICK d \in Text : d = Data(w)
      BY <1>1
    <3>2. PICK u \in Text : u = Unread(rio[w])
      BY <1>1
    <3>3. (d \o u) \o i = d /\ e = d \o u
      BY <1>4, <1>5, <2>3, <3>1, <3>2
    <3>4. Len(d \o u) = Len(d) + Len(u) /\ Len((d \o u) \o i) = Len(d \o u) + Len(i) /\ d \o u \in Text
      BY <3>1, <3>2, <1>2, TextConcat
    <3>5. Len(d) \in Nat /\ Len(u) \in Nat /\ Len(i) \in Nat
      BY TextType
    <3>6. Len(u) = 0
      BY <3>3, <3>4, <3>5
    <3>7. u = <<>>
      BY <3>6, TextType
    <3> QED BY <3>1, <3>3, <3>7, TextEmpty
  <2>4. ASSUME NEW a \in Text, Begins(Received(w), a) PROVE Begins(Received(w)', a)
    <3>1. CASE pc[w] = "send"
      <4>1. Received(w)' = <<>>
        BY <1>3, <1>8, <3>1 DEF Received, Opener
      <4> QED BY <4>1, BeginsSame
    <3>2. CASE pc[w] # "send"
      <4>1. PICK h \in Text : h = task[w].hdr
        BY <1>1
      <4>2. Received(w) = h \o (e \o i) /\ Received(w)' = h \o e
        BY <1>5, <2>1, <3>2, <4>1 DEF Received
      <4>3. h \o e \in Text
        BY TextConcat
      <4>a. (h \o e) \o i = h \o (e \o i)
        BY <1>2, TextGroup
      <4>4. Begins((h \o e) \o i, a)
        BY <2>4, <4>2, <4>a
      <4> QED BY <4>2, <4>3, <4>4, <1>2, BeginsConcat
    <3> QED BY <3>1, <3>2
  <2> QED BY <2>1, <2>2, <2>3, <2>4
<1> QED BY <1>7, <1>8

LEMMA TinyDies ==
    ASSUME WebInv, Dies("tiny")
    PROVE  WebInv'
<1>1. StaticInv /\ CacheInv /\ "tiny" \in Servers
  BY Kinds DEF WebInv
<1>2. StaticInv'
  BY <1>1, DeadStatic
<1>3. /\ up' = up \ {"tiny"} /\ cache' = cache /\ task' = task
      /\ \A p \in Process \ {"tiny"} : pc'[p] = pc[p] /\ call'[p] = call[p] /\ rio'[p] = rio[p]
  BY <1>1, DeadFacts DEF Threads
<1>4. CacheInv'
  BY <1>1, <1>3, CacheKept
<1>5. ASSUME NEW w \in Workers PROVE (Live(w) => UpIs(w))' /\ ReadIs(w)'
  <2>1. w \in Process \ {"tiny"} /\ ReadIs(w)
    BY Kinds DEF WebInv
  <2>2. /\ pc'[w] = pc[w] /\ call'[w] = call[w] /\ rio'[w] = rio[w] /\ task'[w] = task[w]
        /\ Live(w)' = Live(w) /\ Opener(w)' = Opener(w) /\ Data(w)' = Data(w)
    BY <1>3, <2>1 DEF Live, Opener, Data
  <2>3. CASE Live(w)
    <3>1. UpIs(w)
      BY <2>3 DEF WebInv
    <3>2. /\ ~conn'[Opener(w)].open["acceptor"]
          /\ conn'[Opener(w)].in["opener"] \in {conn[Opener(w)].in["opener"], <<>>}
      BY <1>1, <2>3, DeadOpeners
    <3>3. /\ \A a \in Text : Begins(Received(w), a) => Begins(Received(w)', a)
          /\ Ahead(w) = <<>> => Ahead(w)' = <<>>
          /\ Ahead(w) = Data(w) => Ahead(w)' = Data(w)
      BY <1>1, <2>2, <2>3, <3>2, LostAhead
    <3>4. ~Answering(w)'
      BY <2>2, <3>2 DEF Answering
    <3>5. \E a \in Answers(task[w].path) : Begins(Received(w)', a)
      BY <3>1, <3>3, AnswerHead DEF UpIs
    <3>6. ~("tiny" \in up')
      BY <1>3
    <3>7. UpIs(w)'
      BY <2>2, <3>4, <3>5, <3>6 DEF UpIs
    <3>8. ReadIs(w)'
      BY <2>1, <2>2, <3>3, <3>4, <3>6 DEF ReadIs
    <3> QED BY <3>7, <3>8
  <2>4. CASE ~Live(w)
    BY <2>1, <2>2, <2>4 DEF ReadIs, Live, Linked
  <2> QED BY <2>3, <2>4
<1> QED BY <1>2, <1>4, <1>5 DEF WebInv

LEMMA DoitInv ==
    ASSUME WebInv, NEW w \in Workers, Doit(w)
    PROVE  WebInv'
<1>0. StaticInv
  BY DEF WebInv
<1>1. pc[w] = "request" /\ call[w].ret # "none"
  BY DEF Doit, At, Returned
<1>2. /\ WorkerIs(w, pc[w], call[w], task[w], conn) /\ task[w] \in Task /\ Data(w) \in Text
      /\ w \in Workers \cup {"tiny"}
  BY <1>0, WorkerFacts
<1>3. task[w].conn \in 1 .. Len(conn) /\ conn[task[w].conn].to = "proxy" /\ Plain(task[w].hdr)
  BY <1>1, <1>2 DEF WorkerIs
<1>4. CASE CloseConn(w)
  BY <1>1, <1>4, WorkerCloses
<1>5. CASE /\ Continue(w, "last", WriteN(ConnFd(w), ClientError("501")))
           /\ UNCHANGED <<task, shared>>
  <2>1. ClientError("501") \in Text /\ SetTask(w, task[w])
    BY <1>0, <1>2, <1>5, LinesTyped, Unset
  <2> QED BY <1>1, <1>2, <1>5, <2>1, ServedLast DEF DoServer
<1>6. CASE /\ IsGet(Data(w))
           /\ SetTask(w, [task[w] EXCEPT !.path = ParseUri(Data(w)[1][2])])
           /\ Continue(w, "headers", ReadLine(ConnFd(w)))
           /\ UNCHANGED shared
  <2>1. Data(w)[1] \in Token /\ Data(w)[1][1] = "get"
    <3>1. Len(Data(w)) \in Nat /\ Len(Data(w)) > 0 /\ Data(w)[1][1] = "get"
      BY <1>2, <1>6, TextType DEF IsGet
    <3>2. 1 \in 1 .. Len(Data(w))
      BY <3>1
    <3> QED BY <1>2, <3>1, <3>2, TextType
  <2>2. PICK path \in Paths : path = ParseUri(Data(w)[1][2]) /\ Static(path)
    BY <2>1, TokenFacts, ParseUriStatic
  <2>3. PICK t \in Task : /\ t = [task[w] EXCEPT !.path = path] /\ t.path = path
                          /\ t.conn = task[w].conn /\ t.hdr = task[w].hdr
    <3>1. /\ [task[w] EXCEPT !.path = path] \in Task
          /\ [task[w] EXCEPT !.path = path].path = path
          /\ [task[w] EXCEPT !.path = path].conn = task[w].conn
          /\ [task[w] EXCEPT !.path = path].hdr = task[w].hdr
      BY <1>2 DEF Task
    <3> QED BY <3>1
  <2>4. SetTask(w, t)
    BY <1>6, <2>2, <2>3
  <2>5. PICK c : c = ReadLine(ConnFd(w))
    OBVIOUS
  <2>6. /\ InRange(c, conn) /\ Starts(c) /\ c.fd = Fd(task[w].conn, "acceptor") /\ c.op = "line"
    BY <1>0, <1>3, <2>5, OwnCall
  <2>7. Goes(w, "headers", c) /\ conn' = conn
    BY <1>6, <2>5, ContinueGoes
  <2>8. WorkerIs(w, "headers", c, t, conn)
    BY <1>3, <2>2, <2>3, <2>6 DEF WorkerIs, Linked
  <2>9. "headers" \in Labels \ {"send", "reply", "body"} /\ UNCHANGED <<conn, shared>>
    BY <1>6, <2>7 DEF Labels
  <2> QED BY <1>1, <2>4, <2>6, <2>7, <2>8, <2>9, WorkerLocal
<1>7. CASE Dies("proxy")
  BY <1>7, ProxyDies
<1> QED BY <1>1, <1>4, <1>5, <1>6, <1>7 DEF Doit

(* A worker's own step, after which it and Tiny stand as before.            *)
Steady(w) ==
    /\ Answering(w)' = Answering(w) /\ conn'[Opener(w)].reset = conn[Opener(w)].reset
    /\ Asking(w)' = Asking(w) /\ (Pending(w) = <<>> => Pending(w)' = <<>>)
    /\ Serves(w) => (Ahead("tiny") \o Pending(w))' = Ahead("tiny") \o Pending(w)
    /\ pc'[w] = "send" => call'[w].ret \in {"none", "ok"}
    /\ pc'["tiny"] = pc["tiny"] /\ call'["tiny"] = call["tiny"]
    /\ rio'["tiny"] = rio["tiny"] /\ task'["tiny"] = task["tiny"]
    /\ Waits(backlog'["tiny"], Opener(w)) <=> Waits(backlog["tiny"], Opener(w))

LEMMA Seen ==
    ASSUME NEW w \in Workers, UpIs(w), Opener(w)' = Opener(w),
           up' = up, task'[w].path = task[w].path, Received(w)' = Received(w),
           ~Answering(w) => ~Answering(w)', "tiny" \in up => Steady(w)
    PROVE  UpIs(w)'
<1>1. \E a \in Answers(task'[w].path) : Begins(Received(w)', a)
  BY DEF UpIs
<1>2. "tiny" \notin up' => ~Answering(w)'
  BY DEF UpIs
<1>3. ASSUME "tiny" \in up
      PROVE  /\ ~conn'[Opener(w)].reset /\ (pc'[w] = "send" => call'[w].ret \in {"none", "ok"})
             /\ InBacklog(w)' \/ InService(w)' \/ Answered0(w)'
  <2>1. /\ Answering(w)' = Answering(w) /\ conn'[Opener(w)].reset = conn[Opener(w)].reset
        /\ Asking(w)' = Asking(w) /\ (Pending(w) = <<>> => Pending(w)' = <<>>)
        /\ Serves(w) => (Ahead("tiny") \o Pending(w))' = Ahead("tiny") \o Pending(w)
        /\ pc'[w] = "send" => call'[w].ret \in {"none", "ok"}
        /\ pc'["tiny"] = pc["tiny"] /\ call'["tiny"] = call["tiny"]
        /\ rio'["tiny"] = rio["tiny"] /\ task'["tiny"] = task["tiny"]
        /\ Waits(backlog'["tiny"], Opener(w)) <=> Waits(backlog["tiny"], Opener(w))
    BY <1>3 DEF Steady
  <2>2. Serves(w)' = Serves(w) /\ Data("tiny")' = Data("tiny")
    BY <2>1 DEF Serves, Data
  <2>3. InBacklog(w) => InBacklog(w)'
    BY <2>1 DEF InBacklog
  <2>4. InService(w) => InService(w)'
    BY <2>1, <2>2 DEF InService, Talks
  <2>5. Answered0(w) => Answered0(w)'
    BY <2>1, <2>2 DEF Answered0
  <2>6. ~conn[Opener(w)].reset /\ (InBacklog(w) \/ InService(w) \/ Answered0(w))
    BY <1>3 DEF UpIs
  <2> QED BY <2>1, <2>3, <2>4, <2>5, <2>6
<1> QED BY <1>1, <1>2, <1>3 DEF UpIs

LEMMA AppendsForEver ==
    ASSUME WebInv, NEW w \in Workers, NEW text, AppendForEver(w, text), pc[w] # "endless"
    PROVE  WebInv'
<1>0. StaticInv
  BY DEF WebInv
<1>1. /\ Starts(call[w]) /\ InRange(call[w], conn) /\ task[w] \in Task /\ w \in Process
      /\ w \in Workers \cup {"tiny"}
  BY <1>0, WorkerFacts
<1>2. CASE Goto(w, "endless") /\ UNCHANGED <<rvars, task, shared>>
  <2>1. Goes(w, "endless", call[w]) /\ conn' = conn /\ SetTask(w, task[w])
    BY <1>0, <1>1, <1>2, GotoGoes, Unset
  <2>2. WorkerIs(w, "endless", call[w], task[w], conn)
    BY DEF WorkerIs, Linked
  <2>3. "endless" \in Labels \ {"send", "reply", "body"} /\ UNCHANGED <<conn, shared>>
    BY <1>2, <2>1 DEF Labels
  <2> QED BY <1>1, <2>1, <2>2, <2>3, WorkerLocal
<1>3. CASE Dies("proxy")
  BY <1>3, ProxyDies
<1> QED BY <1>2, <1>3 DEF AppendForEver

(* The record of a thread with another header.                              *)
WithHdr(t, h, l) == [t EXCEPT !.hdr = h, !.line = l]

LEMMA WithHdrFacts ==
    ASSUME NEW t \in Task, NEW h \in Text, NEW l \in Text
    PROVE  /\ WithHdr(t, h, l) \in Task /\ WithHdr(t, h, l).conn = t.conn
           /\ WithHdr(t, h, l).path = t.path /\ WithHdr(t, h, l).hdr = h
           /\ WithHdr(t, h, l).line = l
BY DEF WithHdr, Task

LEMMA HdrOnly ==
    ASSUME NEW t \in Task, NEW h
    PROVE  [t EXCEPT !.hdr = h] = WithHdr(t, h, t.line)
BY DEF WithHdr, Task

LEMMA AppendLineView ==
    ASSUME StaticInv, NEW w \in Workers, NEW fd \in Descriptor, NEW text \in Text,
           AppendLine(w, fd, text)
    PROVE  /\ SetTask(w, WithHdr(task[w], task[w].hdr \o text, Data(w)))
           /\ WithHdr(task[w], task[w].hdr \o text, Data(w)) \in Task
           /\ Goes(w, pc[w], ReadLine(fd)) /\ conn' = conn /\ rio' = rio
           /\ UNCHANGED shared
<1>1. /\ w \in Process /\ pc \in [Process -> Labels] /\ task[w] \in Task
      /\ Data(w) \in Text /\ task[w].hdr \in Text
  BY WorkerFacts
<1>2. pc' = [pc EXCEPT ![w] = pc[w]]
  BY <1>1 DEF AppendLine
<1>3. task[w].hdr \o text \in Text
  BY <1>1, TextConcat
<1>4. SetTask(w, WithHdr(task[w], task[w].hdr \o text, Data(w)))
  BY DEF AppendLine, WithHdr
<1>5. Goes(w, pc[w], ReadLine(fd)) /\ conn' = conn /\ rio' = rio /\ UNCHANGED shared
  BY <1>2 DEF AppendLine, Goes
<1> QED BY <1>1, <1>3, <1>4, <1>5, WithHdrFacts

LEMMA ToFind ==
    ASSUME WebInv, NEW w \in Workers, pc[w] = "headers", NEW h \in Text, Ended(h),
           SetTask(w, [task[w] EXCEPT !.hdr = h]), Goto(w, "find"), UNCHANGED <<rvars, shared>>
    PROVE  WebInv'
<1>0. StaticInv
  BY DEF WebInv
<1>1. /\ Starts(call[w]) /\ InRange(call[w], conn) /\ task[w] \in Task /\ w \in Process
      /\ WorkerIs(w, "headers", call[w], task[w], conn) /\ task[w].line \in Text
  BY <1>0, WorkerFacts
<1>2. PICK t \in Task : /\ t = [task[w] EXCEPT !.hdr = h] /\ t.conn = task[w].conn
                        /\ t.path = task[w].path /\ t.hdr = h
  <2>1. [task[w] EXCEPT !.hdr = h] = WithHdr(task[w], h, task[w].line)
    BY <1>1, HdrOnly
  <2>2. /\ WithHdr(task[w], h, task[w].line) \in Task
        /\ WithHdr(task[w], h, task[w].line).conn = task[w].conn
        /\ WithHdr(task[w], h, task[w].line).path = task[w].path
        /\ WithHdr(task[w], h, task[w].line).hdr = h
    BY <1>1, WithHdrFacts
  <2> QED BY <2>1, <2>2
<1>3. Goes(w, "find", call[w]) /\ conn' = conn
  BY <1>0, <1>1, GotoGoes
<1>4. WorkerIs(w, "find", call[w], t, conn)
  BY <1>1, <1>2 DEF WorkerIs, Linked
<1>5. "find" \in Labels \ {"send", "reply", "body"} /\ UNCHANGED <<conn, shared>>
  BY <1>3 DEF Labels
<1> QED BY <1>1, <1>2, <1>3, <1>4, <1>5, WorkerLocal

LEMMA KeptPlain ==
    ASSUME NEW line \in Text, Plain(line)
    PROVE  Kept(line) \in Text /\ Plain(Kept(line))
BY TextType, PlainText DEF Kept

LEMMA ReadRequestHdrsInv ==
    ASSUME WebInv, NEW w \in Workers, ReadRequestHdrs(w)
    PROVE  WebInv'
<1>0. StaticInv
  BY DEF WebInv
<1>1. pc[w] = "headers" /\ call[w].ret # "none"
  BY DEF ReadRequestHdrs, At, Returned
<1>2. /\ WorkerIs(w, "headers", call[w], task[w], conn) /\ task[w] \in Task /\ Data(w) \in Text
      /\ task[w].hdr \in Text /\ RioInv /\ w \in Process
  BY <1>0, <1>1, WorkerFacts
<1>3. /\ task[w].conn \in 1 .. Len(conn) /\ conn[task[w].conn].to = "proxy" /\ Plain(task[w].hdr)
      /\ call[w].op = "line" /\ Static(task[w].path)
  BY <1>2 DEF WorkerIs
<1>4. CASE call[w].ret = "ok" /\ Data(w) # <<NL>> /\ AppendLine(w, ConnFd(w), Kept(Data(w)))
  <2>0. Kept(Data(w)) \in Text /\ Plain(Kept(Data(w)))
    <3>1. IsLine(Data(w))
      BY <1>2, <1>3, <1>4, LineFacts
    <3>2. Plain(Data(w))
      BY <1>2, <1>4, <3>1, PlainLine
    <3> QED BY <1>2, <3>2, KeptPlain
  <2>1. PICK h \in Text : h = task[w].hdr \o Kept(Data(w))
    BY <1>2, <2>0, TextConcat
  <2>2. Plain(h)
    BY <1>2, <1>3, <2>0, <2>1, PlainConcat
  <2>3. PICK t \in Task : /\ t = WithHdr(task[w], h, Data(w)) /\ t.conn = task[w].conn
                          /\ t.path = task[w].path /\ t.hdr = h
    <3>1. /\ WithHdr(task[w], h, Data(w)) \in Task
          /\ WithHdr(task[w], h, Data(w)).conn = task[w].conn
          /\ WithHdr(task[w], h, Data(w)).path = task[w].path
          /\ WithHdr(task[w], h, Data(w)).hdr = h
      <4>1. h \in Text
        BY <2>1
      <4>2. task[w] \in Task /\ Data(w) \in Text
        BY <1>2
      <4> QED BY <4>1, <4>2, WithHdrFacts
    <3> QED BY <3>1
  <2>4. PICK c : c = ReadLine(ConnFd(w))
    OBVIOUS
  <2>5. /\ InRange(c, conn) /\ Starts(c) /\ c.fd = Fd(task[w].conn, "acceptor") /\ c.op = "line"
        /\ ConnFd(w) \in Descriptor
    BY <1>0, <1>3, <2>4, OwnCall
  <2>6. SetTask(w, t) /\ Goes(w, "headers", c) /\ conn' = conn /\ UNCHANGED shared
    BY <1>0, <1>1, <1>4, <2>0, <2>1, <2>3, <2>4, <2>5, AppendLineView
  <2>7. WorkerIs(w, "headers", c, t, conn)
    BY <1>3, <2>2, <2>3, <2>5 DEF WorkerIs, Linked
  <2>8. "headers" \in Labels \ {"send", "reply", "body"} /\ UNCHANGED <<conn, shared>>
    BY <2>6 DEF Labels
  <2> QED BY <1>1, <2>3, <2>5, <2>6, <2>7, <2>8, WorkerLocal
<1>5. CASE SetTask(w, [task[w] EXCEPT !.hdr = @ \o <<NL>>]) /\ Goto(w, "find") /\ UNCHANGED <<rvars, shared>>
  <2>1. PICK h \in Text : h = task[w].hdr \o <<NL>>
    BY <1>2, TextConcat, BlankEnd
  <2>2. Ended(h)
    BY <1>2, <1>3, <2>1 DEF Ended
  <2>3. SetTask(w, [task[w] EXCEPT !.hdr = h])
    BY <1>5, <2>1
  <2> QED BY <1>1, <1>5, <2>2, <2>3, ToFind
<1>6. CASE SetTask(w, [task[w] EXCEPT !.hdr = <<NL>>]) /\ Goto(w, "find") /\ UNCHANGED <<rvars, shared>>
  <2>1. PICK h \in Text : h = <<NL>>
    BY BlankEnd
  <2>2. Ended(h)
    <3>1. <<>> \in Text /\ Plain(<<>>)
      BY TextType, PlainText
    <3>2. h = <<>> \o <<NL>>
      BY <2>1, TextEmpty
    <3> QED BY <3>1, <3>2 DEF Ended
  <2>3. SetTask(w, [task[w] EXCEPT !.hdr = h])
    BY <1>6, <2>1
  <2> QED BY <1>1, <1>6, <2>2, <2>3, ToFind
<1>7. CASE \E text : AppendForEver(w, text)
  BY <1>1, <1>7, AppendsForEver
<1> QED BY <1>4, <1>5, <1>6, <1>7 DEF ReadRequestHdrs

LEMMA CachedText ==
    ASSUME CacheInv, NEW path \in DOMAIN cache
    PROVE  cache[path] \in Text
BY PaddedFacts DEF CacheInv

LEMMA FindInv ==
    ASSUME WebInv, NEW w \in Workers, Find(w)
    PROVE  WebInv'
<1>0. StaticInv /\ CacheInv
  BY DEF WebInv
<1>1. pc[w] = "find" /\ task' = task /\ UNCHANGED shared
  BY DEF Find
<1>2. /\ Starts(call[w]) /\ InRange(call[w], conn) /\ task[w] \in Task /\ w \in Process
      /\ WorkerIs(w, "find", call[w], task[w], conn) /\ w \in Workers \cup {"tiny"}
  BY <1>0, <1>1, WorkerFacts
<1>3. SetTask(w, task[w])
  BY <1>0, <1>1, <1>2, Unset
<1>4. CASE task[w].path \in DOMAIN cache /\ DoServer(w, cache[task[w].path])
  <2>1. cache[task[w].path] \in Text
    BY <1>0, <1>4, CachedText
  <2> QED BY <1>1, <1>2, <1>3, <1>4, <2>1, ServedLast
<1>5. CASE Goto(w, "connect") /\ UNCHANGED rvars
  <2>1. Goes(w, "connect", call[w]) /\ conn' = conn
    BY <1>0, <1>2, <1>5, GotoGoes
  <2>2. WorkerIs(w, "connect", call[w], task[w], conn)
    BY <1>2 DEF WorkerIs, Linked
  <2>3. "connect" \in Labels \ {"send", "reply", "body"} /\ UNCHANGED <<conn, shared>>
    BY <1>1, <2>1 DEF Labels
  <2> QED BY <1>1, <1>2, <1>3, <2>1, <2>2, <2>3, WorkerLocal
<1> QED BY <1>4, <1>5 DEF Find

LEMMA MessageTo ==
    ASSUME NEW data, NEW fd
    PROVE  [WriteN(NoFd, data) EXCEPT !.fd = fd] = WriteN(fd, data)
BY DEF WriteN, Call

LEMMA ConnectInv ==
    ASSUME WebInv, NEW w \in Workers, Connect(w)
    PROVE  WebInv'
<1>0. StaticInv
  BY DEF WebInv
<1>1. /\ pc[w] = "connect" /\ Connected(w, "tiny", "send", WriteN(NoFd, Upstream(task[w])))
      /\ scenario' = scenario /\ task' = task /\ up' = up /\ cache' = cache /\ files' = files
  BY DEF Connect
<1>2. /\ w \in Process /\ w # "tiny" /\ w # "cgi" /\ w \notin Clients
      /\ w \in Clients \cup Workers /\ "tiny" \in Servers /\ task[w] \in Task
      /\ task \in [Workers \cup {"tiny"} -> Task] /\ task[w].path \in Paths
      /\ WorkerIs(w, "connect", call[w], task[w], conn) /\ Len(conn) \in Nat
      /\ backlog \in [Servers -> Seq(Nat)] /\ \A s \in Servers : Queued(s, backlog[s], conn)
      /\ w \in Process \ {"tiny"}
  BY <1>0, <1>1, WorkerFacts, Kinds
<1>3. /\ task[w].conn \in 1 .. Len(conn) /\ conn[task[w].conn].to = "proxy"
      /\ Ended(task[w].hdr) /\ Static(task[w].path)
  BY <1>2 DEF WorkerIs
<1>4. Upstream(task[w]) \in Text /\ Asks(Upstream(task[w]), task[w].path)
  BY <1>2, <1>3, UpstreamAsks
<1>5. PICK d \in Text : d = Upstream(task[w])
  BY <1>4
<1>6. Asks(d, task[w].path) /\ d # <<>>
  BY <1>4, <1>5, TextType DEF Asks
<1>7. CacheInv'
  BY <1>1, CacheKept DEF WebInv
<1>8. "send" \in Labels /\ Serving
  BY <1>1 DEF Labels, Serving
<1>9. CASE "tiny" \in up
  <2> DEFINE n == Len(conn) + 1
  <2>1. PICK c : c = WriteN(Fd(n, "opener"), d)
    OBVIOUS
  <2>2. Fd(n, "opener") \in Descriptor /\ n \in Nat
    BY <1>2, DescriptorFacts, Ends
  <2>3. /\ Starts(c) /\ c.fd = Fd(n, "opener") /\ c.op = "write" /\ c.data = d /\ c.ret = "none"
    BY <2>1, <2>2, CallFacts
  <2>4. /\ pc' = [pc EXCEPT ![w] = "send"] /\ call' = [call EXCEPT ![w] = c]
        /\ conn' = Append(conn, Fresh(w, "tiny")) /\ rio' = rio
        /\ backlog' = Joined("tiny")
    BY <1>1, <1>5, <1>9, <2>1, MessageTo DEF Connected, Goto, Joined
  <2>5. Goes(w, "send", c)
    BY <2>4 DEF Goes
  <2>6. /\ StaticInv' /\ StepBy(w) /\ pc'[w] = "send" /\ call'[w] = c /\ OpenView(w, "tiny")
        /\ backlog'["tiny"] = Append(backlog["tiny"], n)
    <3>1. /\ w \in Clients \cup Workers /\ "tiny" \in Servers /\ "send" \in Labels
          /\ Starts(c) /\ c.fd = Fd(Len(conn) + 1, "opener")
          /\ Goes(w, "send", c) /\ task' = task /\ Serving
          /\ conn' = Append(conn, Fresh(w, "tiny")) /\ backlog' = Joined("tiny")
      BY <1>1, <1>2, <1>8, <2>3, <2>4, <2>5
    <3>2. w \in Workers =>
              "tiny" = "tiny" /\ pc[w] = "connect" /\ "send" = "send" /\ c.op = "write" /\ c.data # <<>>
      BY <1>1, <1>6, <2>3
    <3> QED BY <1>0, <3>1, <3>2, OpenStep
  <2>7. /\ conn'[n] = Fresh(w, "tiny") /\ c.fd.conn = n
    BY <2>3, <2>6 DEF OpenView, Fd
  <2>8. /\ conn'[n].in["opener"] = <<>> /\ conn'[n].in["acceptor"] = <<>>
        /\ conn'[n].open["acceptor"] /\ ~conn'[n].reset
    BY <1>2, <2>7, FreshFacts, Ends
  <2>9. \A i : Waits(backlog'["tiny"], i) <=> Waits(backlog["tiny"], i) \/ i = n
    BY <1>2, <2>2, <2>6, WaitsOneMore
  <2>10. \A i \in 1 .. Len(conn) : i # n
    BY <1>2
  <2> HIDE DEF n
  <2>11. Opener(w)' = n /\ Received(w)' = <<>> /\ Answering(w)' /\ Pending(w)' = d
    BY <2>3, <2>6, <2>7, <2>8 DEF Opener, Received, Answering, Pending, Data
  <2>12. Asking(w)' = d
    BY <2>8, <2>11, TextEmpty DEF Asking
  <2>13. InBacklog(w)'
    BY <1>1, <1>6, <2>9, <2>11, <2>12 DEF InBacklog
  <2>14. \E a \in Answers(task'[w].path) : Begins(Received(w)', a)
    <3>1. ClientError("404") \in Answers(task'[w].path) /\ ClientError("404") \in Text
      BY LinesTyped DEF Answers
    <3> QED BY <2>11, <3>1, BeginsSame
  <2>15. UpIs(w)'
    BY <1>1, <1>9, <2>3, <2>6, <2>8, <2>11, <2>13, <2>14 DEF UpIs
  <2>16. ReadIs(w)'
    BY <2>6 DEF ReadIs
  <2>17. \A i \in 1 .. Len(conn) : Waits(backlog["tiny"], i) => Waits(backlog'["tiny"], i)
    BY <2>9
  <2> QED BY <1>1, <1>2, <1>7, <2>6, <2>15, <2>16, <2>17, InvAgain
<1>10. CASE "tiny" \notin up
  <2>1. PICK c : c = WriteN(NoFd, d)
    OBVIOUS
  <2>2. /\ Starts(c) /\ c.fd = NoFd /\ c.op = "write" /\ c.data = d /\ c.ret = "none"
    BY <2>1, CallFacts, DescriptorFacts
  <2>3. /\ pc' = [pc EXCEPT ![w] = "send"] /\ call' = [call EXCEPT ![w] = c]
        /\ conn' = conn /\ rio' = rio /\ backlog' = backlog
    BY <1>1, <1>5, <1>10, <2>1, MessageTo DEF Connected, Goto
  <2>4. Goes(w, "send", c) /\ Tasks(w) /\ InRange(c, conn) /\ ~Linked("send", c)
    BY <1>1, <1>2, <2>2, <2>3 DEF Goes, Tasks, InRange, Linked
  <2>5. WorkerIs(w, "send", c, task'[w], conn)
    BY <1>1, <1>3, <1>6, <2>2, <2>4 DEF WorkerIs
  <2>6. StaticInv' /\ StepBy(w) /\ pc'[w] = "send" /\ call'[w] = c
    BY <1>0, <1>2, <1>8, <2>2, <2>3, <2>4, <2>5, Local
  <2>7. ~Live(w)' /\ ReadIs(w)'
    BY <2>4, <2>6 DEF Live, ReadIs
  <2> QED BY <1>1, <1>2, <1>7, <2>3, <2>6, <2>7, InvAgain
<1> QED BY <1>9, <1>10

LEMMA SentUpstreamInv ==
    ASSUME WebInv, NEW w \in Workers, SentUpstream(w)
    PROVE  WebInv'
<1>0. StaticInv
  BY DEF WebInv
<1>1. /\ pc[w] = "send" /\ call[w].ret # "none" /\ SetTask(w, [task[w] EXCEPT !.hdr = <<>>, !.line = <<>>])
      /\ pc' = [pc EXCEPT ![w] = "reply"] /\ rio' = [rio EXCEPT ![w] = EmptyRio]
      /\ call' = [call EXCEPT ![w] = ReadLine(call[w].fd)]
      /\ conn' = conn /\ UNCHANGED shared
  BY DEF SentUpstream, At, Returned, Goto
<1>2. /\ w \in Process /\ w # "tiny" /\ w # "cgi" /\ w \notin Clients
      /\ w \in Workers \cup {"tiny"} /\ task[w] \in Task /\ rio \in [Process -> Buffer]
      /\ WorkerIs(w, "send", call[w], task[w], conn) /\ InRange(call[w], conn)
      /\ backlog \in [Servers -> Seq(Nat)] /\ \A s \in Servers : Queued(s, backlog[s], conn)
      /\ w \in Process \ {"tiny"} /\ RioInv /\ call[w].fd \in Descriptor
      /\ Starts(call[w])
  BY <1>0, <1>1, WorkerFacts, RioParts
<1>3. scenario' = scenario /\ up' = up /\ backlog' = backlog /\ cache' = cache /\ files' = files
  BY <1>1 DEF shared
<1>4. PICK t \in Task : /\ SetTask(w, t) /\ t.conn = task[w].conn /\ t.path = task[w].path
                        /\ t.hdr = <<>>
  <2>1. <<>> \in Text
    BY TextType
  <2>2. /\ WithHdr(task[w], <<>>, <<>>) \in Task
        /\ WithHdr(task[w], <<>>, <<>>).conn = task[w].conn
        /\ WithHdr(task[w], <<>>, <<>>).path = task[w].path
        /\ WithHdr(task[w], <<>>, <<>>).hdr = <<>>
    BY <1>2, <2>1, WithHdrFacts
  <2>3. SetTask(w, WithHdr(task[w], <<>>, <<>>))
    BY <1>1 DEF WithHdr
  <2> QED BY <2>2, <2>3
<1>5. Tasks(w) /\ task'[w] = t
  BY <1>0, <1>2, <1>4, TasksSet
<1>6. PICK c : c = ReadLine(call[w].fd)
  OBVIOUS
<1>7. /\ Starts(c) /\ c.fd = call[w].fd /\ c.op = "line" /\ c.data = <<>> /\ c.ret = "none"
  BY <1>2, <1>6, CallFacts
<1>8. Goes(w, "reply", c) /\ InRange(c, conn) /\ "reply" \in Labels /\ Serving
  BY <1>1, <1>2, <1>3, <1>6, <1>7 DEF Goes, InRange, Labels, Serving
<1>9. Linked("reply", c) <=> Linked("send", call[w])
  BY <1>7 DEF Linked
<1>10. WorkerIs(w, "reply", c, task'[w], conn)
  BY <1>2, <1>4, <1>5, <1>7, <1>9 DEF WorkerIs
<1>11. /\ StaticInv' /\ StepBy(w) /\ pc'[w] = "reply" /\ call'[w] = c /\ rio'[w] = EmptyRio
  <2>1. rio'[w] = EmptyRio
    BY <1>1, <1>2
  <2> QED BY <1>0, <1>1, <1>2, <1>3, <1>5, <1>7, <1>8, <1>9, <1>10, <2>1, Local
<1>12. CacheInv'
  BY <1>3, CacheKept DEF WebInv
<1>13. ReadIs(w)'
  BY <1>4, <1>5, <1>7, <1>11, EmptyRioFacts, TextType DEF ReadIs
<1>14. ASSUME Live(w)' PROVE UpIs(w)'
  <2>1. Live(w) /\ Opener(w)' = Opener(w)
    BY <1>1, <1>7, <1>9, <1>11, <1>14 DEF Live, Opener
  <2>2. UpIs(w)
    BY <2>1 DEF WebInv
  <2>3. /\ conn[Opener(w)].in["opener"] \in Text /\ conn[Opener(w)].in["acceptor"] \in Text
        /\ call[w].fd = Fd(Opener(w), "opener") /\ Incoming(call[w].fd) = conn[Opener(w)].in["opener"]
        /\ Data(w) \in Text
    BY <1>0, <2>1, LiveFacts
  <2>4. Received(w)' = Received(w)
    <3>1. Incoming(call[w].fd)' = conn[Opener(w)].in["opener"]
      BY <1>1, <1>7, <1>11, <2>3 DEF Incoming
    <3>2. Data(w)' = <<>> /\ Unread(rio[w])' = <<>>
      BY <1>7, <1>11, EmptyRioFacts DEF Data
    <3>3. <<>> \o <<>> = <<>> /\ <<>> \o conn[Opener(w)].in["opener"] = conn[Opener(w)].in["opener"]
      BY <2>3, TextEmpty, TextType
    <3>4. Ahead(w)' = conn[Opener(w)].in["opener"]
      BY <3>1, <3>2, <3>3 DEF Ahead
    <3>5. Received(w)' = <<>> \o conn[Opener(w)].in["opener"]
      BY <1>4, <1>5, <1>11, <3>4 DEF Received
    <3> QED BY <1>1, <3>3, <3>5 DEF Received
  <2>5. Answering(w)' = Answering(w)
    BY <1>1, <2>1 DEF Answering
  <2>6. ASSUME "tiny" \in up PROVE Steady(w)
    <3>1. call[w].ret = "ok" /\ call[w].op = "write"
      BY <1>1, <1>2, <2>2, <2>6 DEF UpIs, WorkerIs
    <3>2. Data(w) = <<>>
      BY <1>2, <3>1 DEF Starts, Written, Data
    <3>3. Pending(w) = <<>> /\ Pending(w)' = <<>>
      BY <1>1, <1>11, <3>2 DEF Pending
    <3>4. Asking(w)' = Asking(w)
      BY <1>1, <2>1, <3>3 DEF Asking
    <3>5. "tiny" \in Process \ {w} /\ "tiny" \in (Workers \cup {"tiny"}) \ {w}
      BY <1>2, Kinds
    <3>6. /\ pc'["tiny"] = pc["tiny"] /\ call'["tiny"] = call["tiny"]
          /\ rio'["tiny"] = rio["tiny"] /\ task'["tiny"] = task["tiny"]
      BY <1>11, <3>5 DEF StepBy
    <3>7. Ahead("tiny")' = Ahead("tiny")
      BY <1>1, <3>6, Zenon DEF Ahead, Data, Incoming
    <3> QED BY <1>1, <1>3, <1>11, <2>5, <3>3, <3>4, <3>6, <3>7 DEF Steady
  <2> QED BY <1>3, <1>4, <1>5, <2>1, <2>2, <2>4, <2>5, <2>6, Seen
<1> QED BY <1>1, <1>2, <1>3, <1>11, <1>12, <1>13, <1>14, InvAgain

(* What comes behind the line that was read.                                *)
LEMMA NothingBehind ==
    ASSUME NEW d \in Text, NEW u \in Text, NEW i \in Text, (d \o u) \o i = d
    PROVE  (<<>> \o u) \o i = <<>>
<1>1. <<>> \o u = u /\ u \o i \in Text
  BY TextEmpty, TextConcat
<1>2. (d \o u) \o i = d \o (u \o i)
  BY TextGroup
<1>3. PICK e \in Text : e = u \o i
  BY <1>1
<1>4. d \o e = d
  BY <1>2, <1>3
<1>5. Len(d \o e) = Len(d) + Len(e) /\ Len(d) \in Nat /\ Len(e) \in Nat
  BY <1>3, TextConcat, TextType
<1>6. Len(e) = 0
  BY <1>4, <1>5
<1> QED BY <1>1, <1>3, <1>6, TextType

(* The worker goes on reading the reply, with a new call.                   *)
LEMMA ReadsOn ==
    ASSUME WebInv, NEW w \in Workers, pc[w] = "reply", call[w].fd # NoFd, call[w].ret = "ok",
           NEW at \in {"reply", "body"}, NEW c, Starts(c), c.fd = call[w].fd, c.data = <<>>,
           c.op = IF at = "reply" THEN "line" ELSE "bytes", Goes(w, at, c), rio' = rio, conn' = conn,
           NEW t \in Task, SetTask(w, t), t.conn = task[w].conn, t.path = task[w].path,
           t.hdr = task[w].hdr \o Data(w), UNCHANGED shared,
           (Answering(w)' = Answering(w) /\ (Ahead(w) = Data(w) => Ahead(w)' = <<>>)
              /\ pc'[w] = at /\ call'[w] = c /\ task'[w] = t) => ReadIs(w)'
    PROVE  WebInv'
<1>0. StaticInv
  BY DEF WebInv
<1>1. /\ w \in Process /\ w # "tiny" /\ w # "cgi" /\ w \notin Clients
      /\ w \in Workers \cup {"tiny"} /\ task[w] \in Task
      /\ WorkerIs(w, "reply", call[w], task[w], conn) /\ InRange(call[w], conn)
      /\ backlog \in [Servers -> Seq(Nat)] /\ \A s \in Servers : Queued(s, backlog[s], conn)
      /\ w \in Process \ {"tiny"} /\ at \in Labels
  BY <1>0, WorkerFacts DEF Labels
<1>2. scenario' = scenario /\ up' = up /\ backlog' = backlog /\ cache' = cache /\ files' = files
  BY DEF shared
<1>3. Tasks(w) /\ task'[w] = t /\ Serving
  BY <1>0, <1>1, <1>2, TasksSet DEF Serving
<1>4. Linked(at, c) /\ Linked("reply", call[w]) /\ Live(w) /\ InRange(c, conn)
  BY <1>1 DEF Linked, Live, InRange
<1>5. WorkerIs(w, at, c, task'[w], conn)
  BY <1>1, <1>3, <1>4 DEF WorkerIs
<1>6. StaticInv' /\ StepBy(w) /\ pc'[w] = at /\ call'[w] = c
  BY <1>0, <1>1, <1>2, <1>3, <1>4, <1>5, Local
<1>7. CacheInv'
  BY <1>2, CacheKept DEF WebInv
<1>8. UpIs(w) /\ Opener(w)' = Opener(w) /\ Answering(w)' = Answering(w)
  BY <1>4, <1>6 DEF WebInv, Opener, Answering
<1>9. /\ conn[Opener(w)].in["opener"] \in Text /\ Unread(rio[w]) \in Text /\ Data(w) \in Text
      /\ Incoming(call[w].fd) = conn[Opener(w)].in["opener"] /\ task[w].hdr \in Text
  BY <1>0, <1>4, LiveFacts
<1>10. PICK h \in Text, d \in Text, u \in Text, i \in Text :
          /\ h = task[w].hdr /\ d = Data(w) /\ u = Unread(rio[w]) /\ i = Incoming(call[w].fd)
  BY <1>9
<1>11. Ahead(w) = (d \o u) \o i /\ Ahead(w)' = (<<>> \o u) \o i
  BY <1>6, <1>10, Zenon DEF Ahead, Data, Incoming
<1>12. Received(w) = h \o ((d \o u) \o i) /\ Received(w)' = (h \o d) \o ((<<>> \o u) \o i)
  BY <1>3, <1>6, <1>10, <1>11 DEF Received
<1>13. Received(w)' = Received(w) /\ (Ahead(w) = Data(w) => Ahead(w)' = <<>>)
  <2>1. h \in Text /\ d \in Text /\ u \in Text /\ i \in Text
    BY <1>10
  <2>2. (h \o d) \o ((<<>> \o u) \o i) = h \o ((d \o u) \o i)
    <3>1. <<>> \o u = u /\ h \o d \in Text /\ u \o i \in Text
      BY <2>1, TextEmpty, TextConcat
    <3>2. (d \o u) \o i = d \o (u \o i)
      BY <2>1, TextGroup
    <3>3. (h \o d) \o (u \o i) = h \o (d \o (u \o i))
      BY <2>1, <3>1, TextGroup, Zenon
    <3> QED BY <3>1, <3>2, <3>3
  <2>3. (d \o u) \o i = d => (<<>> \o u) \o i = <<>>
    BY <2>1, NothingBehind
  <2>4. Received(w)' = Received(w)
    BY <1>12, <2>2
  <2>5. Ahead(w) = Data(w) => Ahead(w)' = <<>>
    BY <1>10, <1>11, <2>3
  <2> QED BY <2>4, <2>5
<1>14. Steady(w)
  <2>1. Pending(w) = <<>> /\ Pending(w)' = <<>>
    BY <1>6 DEF Pending
  <2>2. Asking(w)' = Asking(w)
    BY <1>8, <2>1 DEF Asking
  <2>3. "tiny" \in Process \ {w} /\ "tiny" \in (Workers \cup {"tiny"}) \ {w}
    BY <1>1, Kinds
  <2>4. /\ pc'["tiny"] = pc["tiny"] /\ call'["tiny"] = call["tiny"]
        /\ rio'["tiny"] = rio["tiny"] /\ task'["tiny"] = task["tiny"]
    BY <1>6, <2>3 DEF StepBy
  <2>5. Ahead("tiny")' = Ahead("tiny")
    BY <2>4 DEF Ahead, Data, Incoming
  <2> QED BY <1>2, <1>6, <1>8, <2>1, <2>2, <2>4, <2>5 DEF Steady
<1>15. UpIs(w)'
  BY <1>2, <1>3, <1>8, <1>13, <1>14, Seen
<1>16. ReadIs(w)'
  BY <1>3, <1>6, <1>8, <1>13
<1> QED BY <1>1, <1>2, <1>6, <1>7, <1>15, <1>16, InvAgain

LEMMA ReplyLineInv ==
    ASSUME WebInv, NEW w \in Workers, ReplyLine(w)
    PROVE  WebInv'
<1>0. StaticInv /\ CacheInv
  BY DEF WebInv
<1>1. pc[w] = "reply" /\ call[w].ret # "none"
  BY DEF ReplyLine, At, Returned
<1>2. /\ task[w] \in Task /\ Data(w) \in Text /\ task[w].hdr \in Text /\ task[w].line \in Text
      /\ w \in Process /\ RioInv /\ call[w].fd \in Descriptor
      /\ WorkerIs(w, "reply", call[w], task[w], conn)
  BY <1>0, <1>1, WorkerFacts, RioParts
<1> DEFINE rsp == task[w].hdr \o Data(w)
           path == task[w].path
<1>3. rsp \in Text
  BY <1>2, TextConcat
<1>4. CASE call[w].ret = "ok" /\ Data(w) # <<NL>> /\ AppendLine(w, call[w].fd, Data(w))
  <2>1. /\ call[w].fd # NoFd /\ Len(task[w].hdr) = 0
        /\ Len(Data(w)) = 2 \/ (Len(Data(w)) = 1 /\ ~Answering(w) /\ Ahead(w) = Data(w))
    BY <1>1, <1>4, HeaderRead
  <2>2. PICK h \in Text : h = rsp
    BY <1>3
  <2>3. Len(h) = Len(Data(w))
    <3>1. Len(rsp) = Len(task[w].hdr) + Len(Data(w)) /\ Len(Data(w)) \in Nat
      BY <1>2, TextConcat, TextType
    <3> QED BY <2>1, <2>2, <3>1
  <2>4. PICK t \in Task : /\ t = WithHdr(task[w], h, Data(w)) /\ t.conn = task[w].conn
                          /\ t.path = task[w].path /\ t.hdr = h
    <3>1. /\ WithHdr(task[w], h, Data(w)) \in Task
          /\ WithHdr(task[w], h, Data(w)).conn = task[w].conn
          /\ WithHdr(task[w], h, Data(w)).path = task[w].path
          /\ WithHdr(task[w], h, Data(w)).hdr = h
      <4>1. h \in Text
        BY <2>2
      <4>2. task[w] \in Task /\ Data(w) \in Text
        BY <1>2
      <4> QED BY <4>1, <4>2, WithHdrFacts
    <3> QED BY <3>1
  <2>5. PICK c : c = ReadLine(call[w].fd)
    OBVIOUS
  <2>6. Starts(c) /\ c.fd = call[w].fd /\ c.op = "line" /\ c.data = <<>> /\ c.ret = "none"
    BY <1>2, <2>5, CallFacts
  <2>7. SetTask(w, t) /\ Goes(w, "reply", c) /\ conn' = conn /\ rio' = rio /\ UNCHANGED shared
    BY <1>0, <1>1, <1>2, <1>4, <2>2, <2>4, <2>5, AppendLineView
  <2>8. ASSUME Answering(w)' = Answering(w), Ahead(w) = Data(w) => Ahead(w)' = <<>>,
               pc'[w] = "reply", call'[w] = c, task'[w] = t
        PROVE  ReadIs(w)'
    <3>1. Len(t.hdr) \in {0, 2} \/ (Len(t.hdr) = 1 /\ ~Answering(w)' /\ Ahead(w)' = <<>>)
      BY <2>1, <2>3, <2>4, <2>8
    <3> QED BY <2>1, <2>6, <2>8, <3>1 DEF ReadIs
  <2> QED BY <1>1, <1>4, <2>1, <2>2, <2>4, <2>6, <2>7, <2>8, ReadsOn
<1>5. CASE /\ call[w].ret = "ok" /\ Data(w) = <<NL>>
           /\ SetTask(w, [task[w] EXCEPT !.hdr = rsp])
           /\ UNCHANGED shared
           /\ \/ DoServer(w, rsp)
              \/ path \in DOMAIN cache /\ DoServer(w, cache[path])
              \/ IsOk(rsp) /\ Continue(w, "body", ReadN(call[w].fd, ContentLen(rsp)))
  <2>1. /\ call[w].fd # NoFd
        /\ IsOk(rsp) => path \in Files /\ rsp = Header(path) /\ ContentLen(rsp) = Size[path]
    BY <1>1, <1>5, HeaderRead
  <2>2. PICK h \in Text : h = rsp
    BY <1>3
  <2>3. PICK t \in Task : /\ SetTask(w, t) /\ t.conn = task[w].conn
                          /\ t.path = task[w].path /\ t.hdr = h
    <3>1. /\ WithHdr(task[w], h, task[w].line) \in Task
          /\ WithHdr(task[w], h, task[w].line).conn = task[w].conn
          /\ WithHdr(task[w], h, task[w].line).path = task[w].path
          /\ WithHdr(task[w], h, task[w].line).hdr = h
      <4>1. h \in Text
        BY <2>2
      <4>2. task[w] \in Task /\ task[w].line \in Text
        BY <1>2
      <4> QED BY <4>1, <4>2, WithHdrFacts
    <3>2. SetTask(w, WithHdr(task[w], h, task[w].line))
      BY <1>2, <1>5, <2>2, HdrOnly
    <3> QED BY <3>1, <3>2
  <2>4. CASE DoServer(w, rsp)
    BY <1>1, <1>3, <1>5, <2>3, <2>4, ServedLast
  <2>5. CASE path \in DOMAIN cache /\ DoServer(w, cache[path])
    <3>1. cache[path] \in Text
      BY <1>0, <2>5, CachedText
    <3> QED BY <1>1, <1>5, <2>3, <2>5, <3>1, ServedLast
  <2>6. CASE IsOk(rsp) /\ Continue(w, "body", ReadN(call[w].fd, ContentLen(rsp)))
    <3>1. PICK c : c = ReadN(call[w].fd, ContentLen(rsp))
      OBVIOUS
    <3>2. /\ path \in Files /\ h = Header(path) /\ ContentLen(rsp) = Size[path] /\ Size[path] \in Nat
      BY <2>1, <2>2, <2>6, BodyTyped
    <3>3. /\ Starts(c) /\ c.fd = call[w].fd /\ c.op = "bytes" /\ c.data = <<>>
          /\ c.left = Size[path] /\ (c.ret = "none" \/ Size[path] = 0)
      BY <1>2, <3>1, <3>2, CallFacts
    <3>4. Goes(w, "body", c) /\ conn' = conn /\ rio' = rio
      BY <2>6, <3>1, ContinueGoes
    <3>5. ASSUME pc'[w] = "body", call'[w] = c, task'[w] = t PROVE ReadIs(w)'
      <4>1. c.left + Len(c.data) = Size[path] /\ (c.ret = "none" \/ Len(c.data) = Size[path])
        BY <3>2, <3>3, TextType
      <4> QED BY <2>1, <2>3, <3>2, <3>3, <3>5, <4>1 DEF ReadIs, Data
    <3>6. t.hdr = task[w].hdr \o Data(w)
      BY <2>2, <2>3
    <3> QED BY <1>1, <1>5, <2>1, <2>3, <3>3, <3>4, <3>5, <3>6, ReadsOn
  <2> QED BY <1>5, <2>4, <2>5, <2>6
<1>6. CASE \E text : AppendForEver(w, text)
  BY <1>1, <1>6, AppendsForEver
<1> HIDE DEF rsp, path
<1>7. \/ call[w].ret = "ok" /\ Data(w) # <<NL>> /\ AppendLine(w, call[w].fd, Data(w))
      \/ /\ call[w].ret = "ok" /\ Data(w) = <<NL>>
         /\ SetTask(w, [task[w] EXCEPT !.hdr = rsp])
         /\ UNCHANGED shared
         /\ CASE ~IsOk(rsp) -> DoServer(w, rsp)
              [] IsOk(rsp) /\ ContentLen(rsp) <= MaxObject /\ path \in DOMAIN cache ->
                    DoServer(w, cache[path])
              [] OTHER -> Continue(w, "body", ReadN(call[w].fd, ContentLen(rsp)))
      \/ AppendForEver(w, LastLine(w))
  BY DEF ReplyLine, rsp, path
<1> QED BY <1>4, <1>5, <1>6, <1>7

(* The cache with one more reply.                                          *)
WithReply(path, reply) ==
    [x \in DOMAIN cache \cup {path} |-> IF x = path THEN reply ELSE cache[x]]

LEMMA ReplyBodyInv ==
    ASSUME WebInv, NEW w \in Workers, ReplyBody(w)
    PROVE  WebInv'
<1>0. StaticInv /\ CacheInv
  BY DEF WebInv
<1>1. pc[w] = "body" /\ call[w].ret # "none"
  BY DEF ReplyBody, At, Returned
<1>2. /\ task[w] \in Task /\ w \in Process /\ w # "tiny" /\ w # "cgi" /\ w \notin Clients
      /\ w \in Workers \cup {"tiny"} /\ task \in [Workers \cup {"tiny"} -> Task]
      /\ WorkerIs(w, "body", call[w], task[w], conn)
      /\ backlog \in [Servers -> Seq(Nat)] /\ \A s \in Servers : Queued(s, backlog[s], conn)
  BY <1>0, <1>1, WorkerFacts
<1>3. PICK path \in Files : path = task[w].path
  BY <1>1, BodyRead
<1>4. /\ task[w].hdr = Header(path) /\ Data(w) \in Text /\ Begins(Data(w), Body(path))
      /\ ContentLen(task[w].hdr) = Size[path]
      /\ "tiny" \in up => Len(Data(w)) = Size[path]
  BY <1>1, <1>3, BodyRead
<1>5. PICK reply \in Text : /\ reply = task[w].hdr \o Filled(Data(w), ContentLen(task[w].hdr))
                            /\ reply \in Padded(path)
                            /\ "tiny" \in up => reply = ServeStatic(path)
  <2>1. /\ Header(path) \o Filled(Data(w), Size[path]) \in Padded(path)
        /\ Len(Data(w)) = Size[path] => Filled(Data(w), Size[path]) = Body(path)
    BY <1>4, FilledFacts
  <2>2. Header(path) \o Filled(Data(w), Size[path]) \in Text
    BY <2>1, PaddedFacts
  <2>3. "tiny" \in up => Header(path) \o Filled(Data(w), Size[path]) = ServeStatic(path)
    BY <1>4, <2>1 DEF ServeStatic
  <2> QED BY <1>4, <2>1, <2>2, <2>3
<1>6. /\ cache' \in {cache, WithReply(path, reply)} /\ DoServer(w, reply)
      /\ scenario' = scenario /\ task' = task /\ up' = up /\ backlog' = backlog /\ files' = files
  BY <1>3, <1>5 DEF ReplyBody, WithReply
<1>7. CacheInv'
  <2>1. CASE cache' = cache
    BY <1>0, <1>6, <2>1, CacheKept
  <2>2. CASE cache' = WithReply(path, reply)
    <3>1. /\ DOMAIN cache' = {path} \cup DOMAIN cache
          /\ \A x \in DOMAIN cache' : cache'[x] = IF x = path THEN reply ELSE cache[x]
      BY <2>2 DEF WithReply
    <3> SUFFICES ASSUME NEW x \in DOMAIN cache'
                 PROVE  /\ x \in Files /\ cache'[x] \in Padded(x)
                        /\ "tiny" \in up' => cache'[x] = ServeStatic(x)
      BY DEF CacheInv
    <3>2. CASE x = path
      BY <1>5, <1>6, <3>1, <3>2
    <3>3. CASE x # path
      BY <1>0, <1>6, <3>1, <3>3 DEF CacheInv
    <3> QED BY <3>2, <3>3
  <2> QED BY <1>6, <2>1, <2>2
<1>8. task[w].conn \in 1 .. Len(conn) /\ conn[task[w].conn].to = "proxy"
  BY <1>2 DEF WorkerIs
<1>9. PICK c : c = WriteN(ConnFd(w), reply)
  OBVIOUS
<1>10. InRange(c, conn) /\ Starts(c) /\ c.fd = Fd(task[w].conn, "acceptor") /\ c.op = "write"
  BY <1>0, <1>8, <1>9, OwnCall
<1>11. Goes(w, "last", c) /\ conn' = conn /\ Tasks(w) /\ Serving /\ "last" \in Labels
  <2>1. Goes(w, "last", c) /\ conn' = conn
    BY <1>6, <1>9, ContinueGoes DEF DoServer
  <2> QED BY <1>2, <1>6, <2>1 DEF Tasks, Serving, Labels
<1>12. WorkerIs(w, "last", c, task'[w], conn) /\ ~Linked("last", c)
  BY <1>6, <1>8, <1>10 DEF WorkerIs, Linked
<1>13. StaticInv' /\ StepBy(w) /\ pc'[w] = "last"
  BY <1>0, <1>2, <1>6, <1>10, <1>11, <1>12, Local
<1> QED BY <1>1, <1>6, <1>7, <1>13, WorkerEnds

(* Tiny's connection is the worker's.                                      *)
LEMMA ServesFacts ==
    ASSUME StaticInv, NEW w \in Workers, Live(w), Serves(w)
    PROVE  /\ call["tiny"].fd = Fd(Opener(w), "acceptor") /\ call["tiny"].fd.side = "acceptor"
           /\ call["tiny"].fd # NoFd /\ call["tiny"].fd.conn = Opener(w)
           /\ Data("tiny") \in Text /\ Unread(rio["tiny"]) \in Text
           /\ Incoming(call["tiny"].fd) = conn[Opener(w)].in["acceptor"]
           /\ Incoming(Peer(call["tiny"].fd)) = conn[Opener(w)].in["opener"]
           /\ IsOpen(Peer(call["tiny"].fd))
           /\ Ahead("tiny") = (Data("tiny") \o Unread(rio["tiny"])) \o conn[Opener(w)].in["acceptor"]
           /\ Ahead("tiny") \in Text
           /\ ~Waits(backlog["tiny"], Opener(w))
<1>1. /\ pc["tiny"] \notin {"accept", "dead"} /\ call["tiny"].fd.conn = Opener(w)
      /\ TinyIs(pc["tiny"], call["tiny"], task["tiny"], rio["tiny"], conn, "tiny" \in up, backlog["tiny"])
      /\ RioInv /\ "tiny" \in Process
  BY Kinds DEF Serves, StaticInv
<1>2. /\ call["tiny"].fd # NoFd /\ call["tiny"].fd.side = "acceptor"
      /\ ~Waits(backlog["tiny"], Opener(w))
  BY <1>1 DEF TinyIs
<1>3. /\ call["tiny"].fd \in Descriptor /\ Unread(rio["tiny"]) \in Text /\ Data("tiny") \in Text
  BY <1>1, RioParts DEF Data
<1>4. call["tiny"].fd = Fd(Opener(w), "acceptor")
  BY <1>1, <1>2, <1>3, DescriptorFacts
<1>5. /\ conn[Opener(w)].in["acceptor"] \in Text /\ conn[Opener(w)].open["opener"] = TRUE
  BY LiveFacts
<1>6. /\ Incoming(call["tiny"].fd) = conn[Opener(w)].in["acceptor"]
      /\ Incoming(Peer(call["tiny"].fd)) = conn[Opener(w)].in["opener"]
      /\ IsOpen(Peer(call["tiny"].fd)) = conn[Opener(w)].open["opener"]
  BY <1>1, <1>2, Ends, DescriptorFacts DEF Incoming, IsOpen
<1>7. Ahead("tiny") = (Data("tiny") \o Unread(rio["tiny"])) \o conn[Opener(w)].in["acceptor"]
  BY <1>6 DEF Ahead
<1>8. Ahead("tiny") \in Text
  BY <1>3, <1>5, <1>7, TextConcat, Zenon
<1> QED BY <1>1, <1>2, <1>3, <1>4, <1>5, <1>6, <1>7, <1>8

(* What a worker's system call leaves as it was.                           *)
LEMMA WorkerRio ==
    ASSUME WebInv, NEW w \in Workers, pc[w] \notin {"idle", "dead", "endless"},
           RioStep(w), UNCHANGED wvars
    PROVE  /\ StaticInv' /\ StepBy(w) /\ CacheInv' /\ RioInv /\ w \in Process /\ Frame(w)
           /\ call[w].ret = "none"
           /\ pc' = pc /\ task' = task /\ up' = up /\ backlog' = backlog
           /\ WorkerIs(w, pc[w], call[w], task[w], conn)
           /\ Live(w)' = Live(w) /\ Opener(w)' = Opener(w)
           /\ pc'["tiny"] = pc["tiny"] /\ call'["tiny"] = call["tiny"]
           /\ rio'["tiny"] = rio["tiny"] /\ task'["tiny"] = task["tiny"]
           /\ Live(w) => Answering(w)' = Answering(w)
           /\ (Live(w) => UpIs(w)) /\ ReadIs(w)
<1>0. StaticInv
  BY DEF WebInv
<1>1. /\ w \in Process /\ w # "tiny" /\ w # "cgi" /\ RioInv
      /\ WorkerIs(w, pc[w], call[w], task[w], conn)
  BY <1>0, WorkerFacts
<1>2. StaticInv' /\ StepBy(w)
  BY <1>0, <1>1, RioStatic
<1>3. Frame(w) /\ call[w].ret = "none"
  BY <1>1, RioView
<1>4. pc' = pc /\ task' = task /\ up' = up /\ backlog' = backlog /\ cache' = cache
  BY DEF wvars, shared
<1>5. CacheInv'
  BY <1>4, CacheKept DEF WebInv
<1>6. call'[w].fd = call[w].fd
  BY <1>3 DEF Frame
<1>7. Live(w)' = Live(w) /\ Opener(w)' = Opener(w)
  BY <1>4, <1>6 DEF Live, Linked, Opener
<1>8. /\ pc'["tiny"] = pc["tiny"] /\ call'["tiny"] = call["tiny"]
      /\ rio'["tiny"] = rio["tiny"] /\ task'["tiny"] = task["tiny"]
  <2>1. "tiny" \in Process \ {w}
    BY <1>1, Kinds
  <2> QED BY <1>3, <1>4, <2>1 DEF Frame
<1>9. ASSUME Live(w) PROVE Answering(w)' = Answering(w)
  <2>1. Opener(w) \in 1 .. Len(conn)
    BY <1>0, <1>9, LiveFacts
  <2>2. conn'[Opener(w)].open = conn[Opener(w)].open
    BY <1>3, <2>1 DEF Frame
  <2> QED BY <1>7, <2>2 DEF Answering
<1> QED BY <1>1, <1>2, <1>3, <1>4, <1>5, <1>7, <1>8, <1>9 DEF WebInv

(* The end of the stream is the end of the reply, unless Tiny ended.        *)
LEMMA BodyComplete ==
    ASSUME WebInv, NEW w \in Workers, pc[w] = "body", "tiny" \in up, ~Answering(w),
           Ahead(w) = Data(w)
    PROVE  Len(Data(w)) = Size[task[w].path]
<1>1. /\ Live(w) /\ task[w].path \in Files /\ task[w].hdr = Header(task[w].path)
      /\ Data(w) \in Text
  BY BodyRead
<1>2. Answered0(w)
  BY <1>1 DEF WebInv, UpIs, InBacklog, InService
<1>3. Received(w) = Header(task[w].path) \o Data(w)
  BY <1>1 DEF Received
<1> DEFINE h == Header(task[w].path)
<1>4. /\ h \in Text /\ Len(h) = 3 /\ h = <<<<"200", task[w].path>>, NL, NL>>
      /\ Len(ServeStatic(task[w].path)) = 3 + Size[task[w].path] /\ Size[task[w].path] \in Nat
  BY <1>1, BodyTyped
<1>5. h[1] = <<"200", task[w].path>>
  BY <1>4
<1> HIDE DEF h
<1>6. /\ Len(h \o Data(w)) = 3 + Len(Data(w)) /\ Len(Data(w)) \in Nat
      /\ (h \o Data(w))[1] = h[1]
  <2>1. 1 \in 1 .. Len(h)
    BY <1>4
  <2> QED BY <1>1, <1>4, <2>1, TextConcat, TextFirst, TextType
<1>7. h \o Data(w) \in Answers(task[w].path)
  BY <1>2, <1>3 DEF Answered0, h
<1>8. (h \o Data(w))[1][1] = "200"
  BY <1>5, <1>6
<1>9. h \o Data(w) = ServeStatic(task[w].path)
  BY <1>7, <1>8, AnswerHead
<1> QED BY <1>4, <1>6, <1>9

LEMMA WorkerRefills ==
    ASSUME WebInv, NEW w \in Workers, pc[w] \notin {"idle", "dead", "endless"},
           Refill(w) \/ Copy(w), UNCHANGED wvars, Live(w)
    PROVE  UpIs(w)' /\ ReadIs(w)'
<1>0. StaticInv
  BY DEF WebInv
<1>1. RioStep(w)
  BY DEF RioStep
<1>2. /\ RioInv /\ w \in Process /\ Frame(w)
      /\ call[w].ret = "none" /\ pc' = pc /\ task' = task /\ up' = up /\ backlog' = backlog
      /\ WorkerIs(w, pc[w], call[w], task[w], conn) /\ Opener(w)' = Opener(w)
      /\ pc'["tiny"] = pc["tiny"] /\ call'["tiny"] = call["tiny"]
      /\ rio'["tiny"] = rio["tiny"] /\ task'["tiny"] = task["tiny"]
      /\ Answering(w)' = Answering(w) /\ UpIs(w) /\ ReadIs(w)
  BY <1>1, WorkerRio
<1>3. /\ pc[w] \in {"send", "reply", "body"} /\ call[w].fd # NoFd
      /\ call[w].fd.side = "opener" /\ Opener(w) \in 1 .. Len(conn)
      /\ Data(w) \in Text
  BY <1>0, LiveFacts
<1>4. /\ Reading(w) /\ Ahead(w)' = Ahead(w)
      /\ conn'[Opener(w)].reset = conn[Opener(w)].reset
      /\ conn'[Opener(w)].in["acceptor"] = conn[Opener(w)].in["acceptor"]
      /\ \/ call'[w] = call[w]
         \/ /\ call'[w].ret \in {"none", "ok"}
            /\ call[w].op = "line" /\ call'[w].ret = "ok" => Last(call'[w].data) = NL
            /\ call[w].op = "bytes" =>
                  /\ call'[w].left + Len(call'[w].data) = call[w].left + Len(call[w].data)
                  /\ call'[w].ret = "ok" => call'[w].left = 0
  <2>1. CASE Refill(w)
    BY <1>2, <1>3, <2>1, RefillView, Ends
  <2>2. CASE Copy(w)
    BY <1>2, <1>3, <2>2, CopyView
  <2> QED BY <2>1, <2>2
<1>5. pc[w] \in {"reply", "body"}
  BY <1>2, <1>3, <1>4 DEF WorkerIs, Reading
<1>6. Received(w)' = Received(w) /\ Pending(w) = <<>> /\ Pending(w)' = <<>>
  BY <1>2, <1>4, <1>5 DEF Received, Pending
<1>7. Steady(w)
  <2>1. Asking(w)' = Asking(w)
    BY <1>2, <1>4, <1>6 DEF Asking
  <2>2. Serves(w) => Ahead("tiny")' = Ahead("tiny")
    <3> SUFFICES ASSUME Serves(w) PROVE Ahead("tiny")' = Ahead("tiny")
      OBVIOUS
    <3>1. call["tiny"].fd.side = "acceptor" /\ call["tiny"].fd.conn = Opener(w)
      BY <1>0, ServesFacts
    <3> QED BY <1>2, <1>4, <3>1, Zenon DEF Ahead, Data, Incoming
  <2> QED BY <1>2, <1>4, <1>5, <1>6, <2>1, <2>2 DEF Steady
<1>8. UpIs(w)'
  BY <1>2, <1>6, <1>7, Seen
<1>9. call'[w].fd = call[w].fd /\ call'[w].op = call[w].op
  BY <1>2 DEF Frame
<1>10. CASE pc[w] = "reply"
  <2>1. call[w].op = "line"
    BY <1>2, <1>10 DEF WorkerIs
  <2>2. call'[w].ret = "ok" => Last(Data(w)') = NL
    BY <1>2, <1>4, <2>1 DEF Data
  <2>3. /\ pc'[w] = "reply" /\ call'[w].fd # NoFd /\ task'[w].hdr = task[w].hdr
        /\ Answering(w)' = Answering(w) /\ Ahead(w)' = Ahead(w)
    BY <1>2, <1>3, <1>4, <1>9, <1>10
  <2>4. Len(task[w].hdr) \in {0, 2} \/ (Len(task[w].hdr) = 1 /\ ~Answering(w) /\ Ahead(w) = <<>>)
    BY <1>2, <1>3, <1>10 DEF ReadIs
  <2>5. ReadIs(w)'
    BY <2>2, <2>3, <2>4 DEF ReadIs
  <2> QED BY <1>8, <2>5
<1>11. CASE pc[w] = "body"
  <2>1. call[w].op = "bytes"
    BY <1>2, <1>11 DEF WorkerIs
  <2>2. /\ call'[w].left + Len(Data(w)') = Size[task[w].path]
        /\ call'[w].ret # "none" => call'[w].left = 0
    BY <1>2, <1>4, <1>11, <2>1 DEF ReadIs, Data
  <2>3. Data(w)' \in Text
    <3>1. RioInv'
      BY <1>1, <1>2, RioView
    <3>2. call'[w] \in Calling
      BY <1>2, <3>1 DEF RioInv
    <3> QED BY <3>2, CallFields DEF Data
  <2>4. Len(Data(w)') \in Nat
    BY <2>3, TextType
  <2>5. call'[w].ret # "none" => Len(Data(w)') = Size[task[w].path]
    BY <2>2, <2>4
  <2>6. /\ pc'[w] = "body" /\ call'[w].fd # NoFd /\ task'[w] = task[w]
    BY <1>2, <1>3, <1>9, <1>11
  <2>7. task[w].path \in Files /\ task[w].hdr = Header(task[w].path)
    BY <1>2, <1>11 DEF ReadIs
  <2>8. ReadIs(w)'
    BY <2>2, <2>5, <2>6, <2>7 DEF ReadIs
  <2> QED BY <1>8, <2>8
<1> QED BY <1>5, <1>8, <1>10, <1>11

LEMMA WorkerReadsEnd ==
    ASSUME WebInv, NEW w \in Workers, pc[w] \notin {"idle", "dead", "endless"},
           ReadEnd(w), UNCHANGED wvars, Live(w)
    PROVE  UpIs(w)' /\ ReadIs(w)'
<1>0. StaticInv
  BY DEF WebInv
<1>1. RioStep(w)
  BY DEF RioStep
<1>2. /\ RioInv /\ w \in Process /\ Frame(w)
      /\ call[w].ret = "none" /\ pc' = pc /\ task' = task /\ up' = up /\ backlog' = backlog
      /\ WorkerIs(w, pc[w], call[w], task[w], conn) /\ Opener(w)' = Opener(w)
      /\ pc'["tiny"] = pc["tiny"] /\ call'["tiny"] = call["tiny"]
      /\ rio'["tiny"] = rio["tiny"] /\ task'["tiny"] = task["tiny"]
      /\ Answering(w)' = Answering(w) /\ UpIs(w) /\ ReadIs(w)
  BY <1>1, WorkerRio
<1>3. /\ pc[w] \in {"send", "reply", "body"} /\ call[w].fd # NoFd
      /\ call[w].fd.side = "opener" /\ Opener(w) \in 1 .. Len(conn)
      /\ Data(w) \in Text /\ Incoming(call[w].fd) = conn[Opener(w)].in["opener"]
      /\ IsOpen(Peer(call[w].fd)) = Answering(w)
  BY <1>0, LiveFacts
<1>4. /\ Reading(w) /\ conn' = conn /\ rio' = rio /\ rio[w].cnt = 0
      /\ call'[w].data = call[w].data /\ call'[w].left = call[w].left
      /\ \/ /\ Incoming(call[w].fd) = <<>> /\ ~Answering(w)
         \/ Broken(call[w].fd) /\ call'[w].ret = "error"
  BY <1>2, <1>3, ReadEndView
<1>5. pc[w] \in {"reply", "body"}
  BY <1>2, <1>3, <1>4 DEF WorkerIs, Reading
<1>6. /\ call'[w].fd = call[w].fd /\ Data(w)' = Data(w) /\ Ahead(w)' = Ahead(w)
  BY <1>2, <1>4 DEF Frame, Data, Ahead, Incoming
<1>7. Received(w)' = Received(w) /\ Pending(w) = <<>> /\ Pending(w)' = <<>>
  BY <1>2, <1>5, <1>6 DEF Received, Pending
<1>8. Steady(w)
  <2>1. Asking(w)' = Asking(w)
    BY <1>2, <1>4, <1>7 DEF Asking
  <2>2. Ahead("tiny")' = Ahead("tiny")
    BY <1>2, <1>4 DEF Ahead, Data, Incoming
  <2> QED BY <1>2, <1>4, <1>5, <1>7, <2>1, <2>2 DEF Steady
<1>9. UpIs(w)'
  BY <1>2, <1>7, <1>8, Seen
<1>10. Incoming(call[w].fd) = <<>> => Ahead(w) = Data(w)
  <2>1. Unread(rio[w]) = <<>>
    BY <1>2, <1>4, RioParts, UnreadFacts
  <2>2. Data(w) \o <<>> = Data(w)
    BY <1>3, TextEmpty
  <2> QED BY <2>1, <2>2 DEF Ahead
<1>11. CASE pc[w] = "reply"
  <2>1. /\ pc'[w] = "reply" /\ call'[w].fd # NoFd /\ task'[w].hdr = task[w].hdr
        /\ Answering(w)' = Answering(w) /\ Ahead(w)' = Ahead(w) /\ Data(w)' = Data(w)
    BY <1>2, <1>3, <1>6, <1>11
  <2>2. Len(task[w].hdr) \in {0, 2} \/ (Len(task[w].hdr) = 1 /\ ~Answering(w) /\ Ahead(w) = <<>>)
    BY <1>2, <1>3, <1>11 DEF ReadIs
  <2>3. call'[w].ret = "ok" => ~Answering(w) /\ Ahead(w) = Data(w)
    BY <1>4, <1>10
  <2>4. ReadIs(w)'
    BY <2>1, <2>2, <2>3 DEF ReadIs
  <2> QED BY <1>9, <2>4
<1>12. CASE pc[w] = "body"
  <2>1. ASSUME "tiny" \in up PROVE Len(Data(w)) = Size[task[w].path]
    <3>1. ~conn[Opener(w)].reset
      BY <1>2, <2>1 DEF UpIs
    <3>2. ~Broken(call[w].fd)
      BY <1>3, <3>1 DEF Broken, Opener
    <3>3. ~Answering(w) /\ Ahead(w) = Data(w)
      BY <1>4, <1>10, <3>2
    <3> QED BY <1>12, <2>1, <3>3, BodyComplete
  <2>2. /\ pc'[w] = "body" /\ call'[w].fd # NoFd /\ task'[w] = task[w] /\ Data(w)' = Data(w)
        /\ call'[w].left = call[w].left /\ up' = up
    BY <1>2, <1>3, <1>4, <1>6, <1>12
  <2>3. /\ task[w].path \in Files /\ task[w].hdr = Header(task[w].path)
        /\ call[w].left + Len(Data(w)) = Size[task[w].path]
    BY <1>2, <1>12 DEF ReadIs
  <2>4. ReadIs(w)'
    BY <2>1, <2>2, <2>3 DEF ReadIs
  <2> QED BY <1>9, <2>4
<1> QED BY <1>5, <1>9, <1>11, <1>12

LEMMA WorkerWrites ==
    ASSUME WebInv, NEW w \in Workers, pc[w] \notin {"idle", "dead", "endless"},
           Write(w) \/ WriteFails(w), UNCHANGED wvars, Live(w)
    PROVE  UpIs(w)' /\ ReadIs(w)'
<1>0. StaticInv
  BY DEF WebInv
<1>1. RioStep(w)
  BY DEF RioStep
<1>2. /\ RioInv /\ w \in Process /\ Frame(w)
      /\ call[w].ret = "none" /\ pc' = pc /\ task' = task /\ up' = up /\ backlog' = backlog
      /\ WorkerIs(w, pc[w], call[w], task[w], conn) /\ Opener(w)' = Opener(w)
      /\ pc'["tiny"] = pc["tiny"] /\ call'["tiny"] = call["tiny"]
      /\ rio'["tiny"] = rio["tiny"] /\ task'["tiny"] = task["tiny"]
      /\ Answering(w)' = Answering(w) /\ UpIs(w) /\ ReadIs(w)
  BY <1>1, WorkerRio
<1>3. /\ pc[w] \in {"send", "reply", "body"} /\ call[w].fd # NoFd
      /\ call[w].fd.side = "opener" /\ Opener(w) \in 1 .. Len(conn)
      /\ Data(w) \in Text /\ Incoming(call[w].fd) = conn[Opener(w)].in["opener"]
      /\ Incoming(Peer(call[w].fd)) = conn[Opener(w)].in["acceptor"]
      /\ IsOpen(Peer(call[w].fd)) = Answering(w)
      /\ conn[Opener(w)].in["opener"] \in Text /\ conn[Opener(w)].in["acceptor"] \in Text
      /\ call[w].fd.conn = Opener(w)
  BY <1>0, LiveFacts, Zenon DEF Opener
<1>4. call[w].op = "write"
  <2>1. CASE Write(w)
    BY <2>1, Zenon DEF Write, Writing
  <2>2. CASE WriteFails(w)
    BY <2>2 DEF WriteFails, Writing
  <2> QED BY <2>1, <2>2
<1>5. pc[w] = "send" /\ Data(w) # <<>>
  BY <1>2, <1>3, <1>4 DEF WorkerIs, Data
<1>6. ReadIs(w)'
  BY <1>2, <1>5 DEF ReadIs
<1>7. CASE Write(w)
  <2>1. \/ /\ Answering(w) /\ conn'[Opener(w)].reset = conn[Opener(w)].reset
           /\ conn'[Opener(w)].in["opener"] = conn[Opener(w)].in["opener"]
           /\ conn'[Opener(w)].in["acceptor"] \o call'[w].data
                 = conn[Opener(w)].in["acceptor"] \o call[w].data
        \/ ~Answering(w) /\ conn'[Opener(w)].in["opener"] = conn[Opener(w)].in["opener"]
    <3>1. \/ /\ IsOpen(Peer(call[w].fd))
             /\ \A i \in 1 .. Len(conn) : conn'[i].reset = conn[i].reset
             /\ conn'[call[w].fd.conn].in[call[w].fd.side] = Incoming(call[w].fd)
             /\ conn'[call[w].fd.conn].in[Other(call[w].fd.side)] \o call'[w].data
                   = Incoming(Peer(call[w].fd)) \o call[w].data
          \/ /\ ~IsOpen(Peer(call[w].fd))
             /\ \A i \in 1 .. Len(conn) : conn'[i].in = conn[i].in
      BY <1>2, <1>7, WriteView, Zenon
    <3>2. Other(call[w].fd.side) = "acceptor"
      BY <1>3, Ends
    <3>3. CASE ~IsOpen(Peer(call[w].fd))
      BY <1>3, <3>1, <3>3, Zenon
    <3>4. CASE IsOpen(Peer(call[w].fd))
      <4>1. conn'[Opener(w)].reset = conn[Opener(w)].reset
        BY <1>3, <3>1, <3>4
      <4>2. conn'[Opener(w)].in["opener"] = conn[Opener(w)].in["opener"]
        BY <1>3, <3>1, <3>4
      <4>3. conn'[Opener(w)].in["acceptor"] \o call'[w].data
              = conn[Opener(w)].in["acceptor"] \o call[w].data
        BY <1>3, <3>1, <3>2, <3>4, Zenon
      <4> QED BY <1>3, <3>4, <4>1, <4>2, <4>3
    <3> QED BY <3>3, <3>4, Zenon
  <2>2. call'[w].ret \in {"none", "ok"}
    BY <1>2, <1>7, WriteView, Zenon
  <2>3. Received(w)' = Received(w)
    BY <1>2, <1>5, <2>1, Zenon DEF Received
  <2>4. ASSUME "tiny" \in up PROVE Steady(w)
    <3>1. Answering(w)
      <4>1. Answered0(w) => Data(w) = <<>>
        BY <1>5 DEF Answered0, Pending
      <4> QED BY <1>2, <1>5, <2>4, <4>1 DEF UpIs, InBacklog, InService
    <3>2. /\ conn'[Opener(w)].reset = conn[Opener(w)].reset
          /\ conn'[Opener(w)].in["acceptor"] \o Data(w)' = conn[Opener(w)].in["acceptor"] \o Data(w)
      BY <2>1, <3>1, Zenon DEF Data
    <3>3. Pending(w) = Data(w) /\ Pending(w)' = Data(w)'
      BY <1>2, <1>5 DEF Pending
    <3>4. Asking(w)' = Asking(w)
      BY <1>2, <3>2, <3>3 DEF Asking
    <3>5. ASSUME Serves(w) PROVE (Ahead("tiny") \o Pending(w))' = Ahead("tiny") \o Pending(w)
      <4>1. /\ call["tiny"].fd.side = "acceptor" /\ call["tiny"].fd.conn = Opener(w)
            /\ Data("tiny") \in Text /\ Unread(rio["tiny"]) \in Text
            /\ Ahead("tiny") = (Data("tiny") \o Unread(rio["tiny"])) \o conn[Opener(w)].in["acceptor"]
        BY <1>0, <3>5, ServesFacts
      <4>2. PICK e \in Text : e = Data("tiny") \o Unread(rio["tiny"])
        BY <4>1, TextConcat
      <4>3. Ahead("tiny")' = e \o conn'[Opener(w)].in["acceptor"]
        BY <1>2, <4>1, <4>2 DEF Ahead, Data, Incoming
      <4>4. RioInv'
        BY <1>1, <1>2, RioView
      <4>5. Data(w)' \in Text /\ conn'[Opener(w)].in["acceptor"] \in Text
        <5>1. Opener(w) \in 1 .. Len(conn')
          BY <1>2, <1>3 DEF Frame
        <5>2. conn' \in Seq(Link)
          BY <4>4 DEF RioInv
        <5>3. conn'[Opener(w)] \in Link
          BY <5>1, <5>2, ElementOfSeq
        <5>4. call'[w] \in Calling
          BY <1>2, <4>4 DEF RioInv
        <5> QED BY <5>3, <5>4, LinkFields, CallFields, Ends DEF Data
      <4>6. PICK x \in Text, y \in Text : x = conn'[Opener(w)].in["acceptor"] /\ y = Data(w)'
        BY <4>5
      <4>7. PICK m \in Text, n \in Text : m = conn[Opener(w)].in["acceptor"] /\ n = Data(w)
        BY <1>3
      <4>8. x \o y = m \o n
        BY <3>2, <4>6, <4>7
      <4>a. e \in Text /\ x \in Text /\ y \in Text /\ m \in Text /\ n \in Text
        BY <4>2, <4>6, <4>7
      <4>9. Moved(m, n, x, y)
        BY <4>8, Zenon DEF Moved
      <4>10. Moved(e \o m, n, e \o x, y)
        BY <4>9, <4>a, MovedBehind, Zenon
      <4>11. (e \o x) \o y = (e \o m) \o n
        BY <4>10, Zenon DEF Moved
      <4>12. Ahead("tiny") = e \o m /\ Ahead("tiny")' = e \o x
        BY <4>1, <4>2, <4>3, <4>6, <4>7
      <4> QED BY <3>3, <4>6, <4>7, <4>11, <4>12
    <3>6. Pending(w) # <<>>
      BY <1>5, <3>3
    <3> QED BY <1>2, <2>2, <3>1, <3>2, <3>4, <3>5, <3>6 DEF Steady
  <2> QED BY <1>2, <1>6, <2>3, <2>4, Seen
<1>8. CASE WriteFails(w)
  <2>1. conn' = conn /\ Broken(call[w].fd)
    BY <1>2, <1>8, WriteFailsView
  <2>2. Received(w)' = Received(w)
    BY <1>2, <1>5, <2>1 DEF Received
  <2>3. "tiny" \notin up
    <3>1. conn[Opener(w)].reset
      BY <1>3, <2>1 DEF Broken, Opener
    <3> QED BY <1>2, <3>1 DEF UpIs
  <2> QED BY <1>2, <1>6, <2>2, <2>3, Seen
<1> QED BY <1>7, <1>8

LEMMA WorkerRioInv ==
    ASSUME WebInv, NEW w \in Workers, pc[w] \notin {"idle", "dead", "endless"},
           RioStep(w), UNCHANGED wvars
    PROVE  WebInv'
<1>1. /\ StaticInv' /\ StepBy(w) /\ CacheInv' /\ w \in Process /\ RioInv /\ pc' = pc
      /\ call[w].ret = "none" /\ backlog' = backlog /\ Live(w)' = Live(w) /\ task' = task /\ Frame(w)
      /\ WorkerIs(w, pc[w], call[w], task[w], conn) /\ ReadIs(w)
  BY WorkerRio
<1>2. w \in Process \ {"tiny"} /\ w # "cgi"
  BY Kinds
<1>3. (Live(w) => UpIs(w))' /\ ReadIs(w)'
  <2>1. CASE Live(w)
    BY <2>1, WorkerRefills, WorkerReadsEnd, WorkerWrites DEF RioStep
  <2>2. CASE ~Live(w)
    <3>1. CASE pc[w] \notin {"reply", "body"}
      BY <1>1, <2>2, <3>1 DEF ReadIs
    <3>2. CASE pc[w] \in {"reply", "body"}
      <4>1. call[w].fd = NoFd /\ pc[w] = "reply" /\ rio[w].cnt = 0
        BY <1>1, <2>2, <3>2 DEF ReadIs, Live, Linked
      <4>2. call[w].op = "line"
        BY <1>1, <4>1 DEF WorkerIs
      <4>3. ReadEnd(w)
        BY <4>1, <4>2 DEF RioStep, Refill, Copy, Write, WriteFails, Writing
      <4>4. rio' = rio /\ call'[w].ret = "error" /\ call'[w].fd = NoFd
        BY <1>1, <4>1, <4>3, ReadEndView DEF Frame
      <4> QED BY <1>1, <2>2, <4>1, <4>4 DEF ReadIs
    <3> QED BY <3>1, <3>2
  <2> QED BY <2>1, <2>2
<1> QED BY <1>1, <1>2, <1>3, InvAgain

LEMMA WorkerInv ==
    ASSUME WebInv, NEW w \in Workers, Worker(w)
    PROVE  WebInv'
<1>1. CASE CloseConnection(w)
  BY <1>1, WorkerCloses DEF CloseConnection, At
<1>2. CASE TakeConnection(w)
  BY <1>2, TakeConnectionInv
<1>3. CASE Doit(w)
  BY <1>3, DoitInv
<1>4. CASE ReadRequestHdrs(w)
  BY <1>4, ReadRequestHdrsInv
<1>5. CASE Find(w)
  BY <1>5, FindInv
<1>6. CASE Connect(w)
  BY <1>6, ConnectInv
<1>7. CASE SentUpstream(w)
  BY <1>7, SentUpstreamInv
<1>8. CASE ReplyLine(w)
  BY <1>8, ReplyLineInv
<1>9. CASE ReplyBody(w)
  BY <1>9, ReplyBodyInv
<1>10. CASE pc[w] \notin {"idle", "dead", "endless"} /\ RioStep(w) /\ UNCHANGED wvars
  BY <1>10, WorkerRioInv
<1> QED BY <1>1, <1>2, <1>3, <1>4, <1>5, <1>6, <1>7, <1>8, <1>9, <1>10 DEF Worker

(* What a step of Tiny must leave of a worker's request.                   *)
KeptUp(w) ==
    /\ conn'[Opener(w)].reset = conn[Opener(w)].reset
    /\ \E a \in Answers(task[w].path) : Begins(Received(w)', a)
    /\ ~Answering(w) => ~Answering(w)' /\ Ahead(w)' = Ahead(w)
    /\ InBacklog(w)' \/ InService(w)' \/ Answered0(w)'

LEMMA KeptByTiny ==
    ASSUME StaticInv, StepBy("tiny"), NEW w \in Workers
    PROVE  /\ pc'[w] = pc[w] /\ call'[w] = call[w] /\ rio'[w] = rio[w] /\ task'[w] = task[w]
           /\ up' = up /\ Live(w)' = Live(w) /\ Opener(w)' = Opener(w) /\ Data(w)' = Data(w)
           /\ Pending(w)' = Pending(w)
           /\ Live(w) /\ Opener(w) # call["tiny"].fd.conn => conn'[Opener(w)] = conn[Opener(w)]
<1>1. w \in Process \ {"tiny"} /\ w \in (Workers \cup {"tiny"}) \ {"tiny"}
  BY Kinds
<1>2. pc'[w] = pc[w] /\ call'[w] = call[w] /\ rio'[w] = rio[w] /\ task'[w] = task[w] /\ up' = up
  BY <1>1 DEF StepBy
<1>3. Live(w)' = Live(w) /\ Opener(w)' = Opener(w) /\ Data(w)' = Data(w) /\ Pending(w)' = Pending(w)
  BY <1>2 DEF Live, Opener, Data, Pending
<1>4. Live(w) /\ Opener(w) # call["tiny"].fd.conn => conn'[Opener(w)] = conn[Opener(w)]
  BY LiveFacts DEF StepBy
<1> QED BY <1>2, <1>3, <1>4

LEMMA TinyAgain ==
    ASSUME WebInv, StaticInv', StepBy("tiny"), cache' = cache, "tiny" \in up,
           \A w \in Workers : Live(w) => KeptUp(w)
    PROVE  WebInv'
<1>1. StaticInv /\ up' = up /\ CacheInv'
  BY CacheKept DEF WebInv, StepBy
<1>2. ASSUME NEW w \in Workers PROVE (Live(w) => UpIs(w))' /\ ReadIs(w)'
  <2>1. /\ pc'[w] = pc[w] /\ call'[w] = call[w] /\ rio'[w] = rio[w] /\ task'[w] = task[w]
        /\ Live(w)' = Live(w) /\ Opener(w)' = Opener(w) /\ Data(w)' = Data(w)
    BY <1>1, KeptByTiny
  <2>2. (Live(w) => UpIs(w)) /\ ReadIs(w)
    BY DEF WebInv
  <2>3. CASE Live(w)
    <3>1. KeptUp(w)
      BY <2>3
    <3>2. UpIs(w) /\ ~conn[Opener(w)].reset /\ (pc[w] = "send" => call[w].ret \in {"none", "ok"})
      BY <2>2, <2>3 DEF UpIs
    <3>3. UpIs(w)'
      BY <1>1, <2>1, <3>1, <3>2 DEF UpIs, KeptUp
    <3>4. ~Answering(w) => ~Answering(w)' /\ Ahead(w)' = Ahead(w)
      BY <3>1 DEF KeptUp
    <3>5. ReadIs(w)'
      BY <1>1, <2>1, <2>2, <3>4 DEF ReadIs
    <3> QED BY <3>3, <3>5
  <2>4. CASE ~Live(w)
    <3>1. ReadIs(w)'
      BY <2>1, <2>2, <2>4 DEF ReadIs, Live, Linked
    <3> QED BY <2>1, <2>4, <3>1
  <2> QED BY <2>3, <2>4
<1> QED BY <1>1, <1>2 DEF WebInv

(* A worker whose connection is not Tiny's.                                *)
LEMMA Unserved ==
    ASSUME WebInv, "tiny" \in up, StepBy("tiny"), NEW w \in Workers, Live(w),
           conn'[Opener(w)] = conn[Opener(w)],
           Waits(backlog'["tiny"], Opener(w)) <=> Waits(backlog["tiny"], Opener(w)),
           ~Serves(w), ~Serves(w)'
    PROVE  KeptUp(w)
<1>0. StaticInv /\ UpIs(w)
  BY DEF WebInv
<1>1. /\ pc'[w] = pc[w] /\ call'[w] = call[w] /\ rio'[w] = rio[w] /\ task'[w] = task[w]
      /\ Opener(w)' = Opener(w) /\ Data(w)' = Data(w) /\ Pending(w)' = Pending(w)
  BY <1>0, KeptByTiny
<1>2. call[w].fd.conn = Opener(w) /\ call[w].fd.side = "opener"
  BY <1>0, LiveFacts DEF Opener
<1>3. Ahead(w)' = Ahead(w) /\ Answering(w)' = Answering(w) /\ Asking(w)' = Asking(w)
  BY <1>1, <1>2 DEF Ahead, Data, Incoming, Answering, Asking
<1>4. Received(w)' = Received(w)
  BY <1>1, <1>3 DEF Received
<1>5. InBacklog(w) \/ Answered0(w)
  BY <1>0 DEF UpIs, InService
<1>6. InBacklog(w) => InBacklog(w)'
  BY <1>1, <1>3, <1>4 DEF InBacklog
<1>7. Answered0(w) => Answered0(w)'
  BY <1>1, <1>3, <1>4 DEF Answered0
<1>8. \E a \in Answers(task[w].path) : Begins(Received(w)', a)
  BY <1>0, <1>4 DEF UpIs
<1> QED BY <1>3, <1>5, <1>6, <1>7, <1>8 DEF KeptUp

(* The worker whose connection is Tiny's.                                  *)
LEMMA Served ==
    ASSUME WebInv, "tiny" \in up, NEW w \in Workers, Live(w), Serves(w)
    PROVE  Answering(w) /\ Talks(w) /\ ~conn[Opener(w)].reset
<1>1. UpIs(w) /\ StaticInv
  BY DEF WebInv
<1>2. ~Waits(backlog["tiny"], Opener(w))
  BY <1>1, ServesFacts
<1> QED BY <1>1, <1>2 DEF UpIs, InBacklog, InService, Answered0

(* What the worker received is the beginning of an answer.                 *)
LEMMA AnswerBegun ==
    ASSUME NEW path, NEW x \in Text, NEW d \in Text,
           \/ x = <<>>
           \/ x \o d \in Answers(path)
           \/ \E b \in Text : (x \o d) \o b \in Answers(path)
    PROVE  \E a \in Answers(path) : Begins(x, a)
<1>1. CASE x = <<>>
  <2>1. ClientError("404") \in Text /\ ClientError("404") \in Answers(path)
    BY LinesTyped DEF Answers
  <2> QED BY <1>1, <2>1, BeginsSame
<1>2. CASE x \o d \in Answers(path)
  <2>1. Begins(x, x \o d)
    BY BeginsSame
  <2> QED BY <1>2, <2>1
<1>3. CASE \E b \in Text : (x \o d) \o b \in Answers(path)
  <2>1. PICK b \in Text : (x \o d) \o b \in Answers(path)
    BY <1>3
  <2>2. Grouped(x, d, b) /\ d \o b \in Text
    BY AlwaysGrouped, TextConcat, Zenon
  <2>3. Begins(x, x \o (d \o b))
    BY <2>2, BeginsSame
  <2>4. x \o (d \o b) \in Answers(path)
    BY <2>1, <2>2, Zenon DEF Grouped
  <2> QED BY <2>3, <2>4, Zenon
<1> QED BY <1>1, <1>2, <1>3

(* Tiny goes on serving the worker.                                        *)
LEMMA StillServed ==
    ASSUME WebInv, StaticInv', "tiny" \in up, StepBy("tiny"), NEW w \in Workers, Live(w), Serves(w),
           call'["tiny"].fd = call["tiny"].fd, pc'["tiny"] \notin {"accept", "dead"},
           conn'[Opener(w)].reset = conn[Opener(w)].reset,
           conn'[Opener(w)].open = conn[Opener(w)].open,
           Talks(w)'
    PROVE  KeptUp(w)
<1>0. StaticInv
  BY DEF WebInv
<1>1. Answering(w) /\ Opener(w)' = Opener(w) /\ Live(w)' /\ task'[w] = task[w]
  BY <1>0, Served, KeptByTiny
<1>2. Answering(w)'
  BY <1>1 DEF Answering
<1>3. Serves(w)'
  BY <1>1 DEF Serves
<1>4. InService(w)'
  BY <1>2, <1>3 DEF InService
<1>5. Received(w)' \in Text
  <2>1. /\ pc'[w] = pc[w] /\ call'[w] = call[w] /\ rio'[w] = rio[w]
        /\ call[w].fd.conn = Opener(w) /\ call[w].fd.side = "opener" /\ Opener(w) \in 1 .. Len(conn)
        /\ Data(w) \in Text /\ Unread(rio[w]) \in Text /\ task[w].hdr \in Text
    BY <1>0, KeptByTiny, LiveFacts, Zenon DEF Opener
  <2>2. conn'[Opener(w)].in["opener"] \in Text
    <3>1. RioInv' /\ Opener(w) \in 1 .. Len(conn')
      BY <2>1 DEF StaticInv, StepBy, Grown
    <3>2. conn' \in Seq(Link)
      BY <3>1 DEF RioInv
    <3>3. conn'[Opener(w)] \in Link
      BY <3>1, <3>2, ElementOfSeq
    <3> QED BY <3>3, LinkFields, Ends
  <2>3. Ahead(w)' = (Data(w) \o Unread(rio[w])) \o conn'[Opener(w)].in["opener"]
    BY <2>1 DEF Ahead, Data, Incoming
  <2>4. Ahead(w)' \in Text
    BY <2>1, <2>2, <2>3, TextConcat
  <2> QED BY <1>1, <2>1, <2>2, <2>4, TextConcat DEF Received
<1>6. \E a \in Answers(task[w].path) : Begins(Received(w)', a)
  <2>1. Data("tiny")' \in Text
    <3>1. RioInv' /\ "tiny" \in Process
      BY Kinds DEF StaticInv
    <3>2. call'["tiny"] \in Calling
      BY <3>1 DEF RioInv
    <3> QED BY <3>2, CallFields DEF Data
  <2>2. TinyIs(pc'["tiny"], call'["tiny"], task'["tiny"], rio'["tiny"], conn', "tiny" \in up',
               backlog'["tiny"])
    BY DEF StaticInv
  <2>3. pc'["tiny"] = "open" => task[w].path \in Files
    BY <1>1, <2>2 DEF TinyIs, Talks
  <2>4. PICK x \in Text : x = Received(w)'
    BY <1>5
  <2>5. \/ x = <<>>
        \/ x \o Data("tiny")' \in Answers(task[w].path)
        \/ task[w].path \in Files /\ x \o Data("tiny")' = Header(task[w].path)
        \/ \E code \in {"404", "403"} : x \o Data("tiny")' = ErrorHeader(code)
    BY <1>1, <2>3, <2>4 DEF Talks
  <2>6. ASSUME task[w].path \in Files
        PROVE  Header(task[w].path) \o Body(task[w].path) \in Answers(task[w].path)
               /\ Body(task[w].path) \in Text
    BY <2>6, BodyTyped DEF Answers, ServeStatic
  <2>7. ASSUME NEW code \in {"404", "403"}
        PROVE  ErrorHeader(code) \o ErrorBody \in Answers(task[w].path)
    BY <2>7 DEF Answers, ClientError
  <2>8. \/ x = <<>>
        \/ x \o Data("tiny")' \in Answers(task[w].path)
        \/ \E b \in Text : (x \o Data("tiny")') \o b \in Answers(task[w].path)
    BY <2>5, <2>6, <2>7, LinesTyped
  <2> QED BY <2>1, <2>4, <2>8, AnswerBegun
<1> QED BY <1>1, <1>4, <1>6 DEF KeptUp

LEMMA TinyFacts ==
    ASSUME StaticInv
    PROVE  /\ "tiny" \in Process /\ "tiny" \in Workers \cup {"tiny"} /\ RioInv
           /\ "tiny" \notin Workers /\ "tiny" \notin Clients /\ "tiny" # "cgi"
           /\ TinyIs(pc["tiny"], call["tiny"], task["tiny"], rio["tiny"], conn, "tiny" \in up,
                     backlog["tiny"])
           /\ task["tiny"] \in Task /\ Data("tiny") \in Text /\ TinyFd \in Descriptor
           /\ Starts(call["tiny"]) /\ InRange(call["tiny"], conn)
           /\ call["tiny"].ret \in {"none", "ok", "eof", "error"}
           /\ Unread(rio["tiny"]) \in Text
           /\ backlog \in [Servers -> Seq(Nat)] /\ \A s \in Servers : Queued(s, backlog[s], conn)
           /\ TinyFd # NoFd => TinyFd.conn \in 1 .. Len(conn)
<1>1. "tiny" \in Process /\ "tiny" \notin Workers /\ "tiny" \notin Clients /\ "tiny" # "cgi"
  BY Kinds
<1>2. /\ CallInv(call["tiny"]) /\ call["tiny"].fd \in Descriptor /\ Data("tiny") \in Text
      /\ call["tiny"].ret \in {"none", "ok", "eof", "error"} /\ RioInv
      /\ Unread(rio["tiny"]) \in Text
      /\ call["tiny"].fd # NoFd => call["tiny"].fd.conn \in 1 .. Len(conn)
  BY <1>1, RioParts DEF Data, StaticInv
<1>3. Starts(call["tiny"]) /\ InRange(call["tiny"], conn)
  BY <1>2 DEF CallInv, Starts, InRange
<1> QED BY <1>1, <1>2, <1>3 DEF StaticInv, Types, TinyFd

(* The same behind two texts.                                              *)
LEMMA MovedBehindTwo ==
    ASSUME NEW h \in Text, NEW g \in Text, NEW x \in Text, NEW d \in Text,
           NEW y \in Text, NEW e \in Text, Moved(x, d, y, e)
    PROVE  Moved(h \o (g \o x), d, h \o (g \o y), e)
<1>1. Moved(g \o x, d, g \o y, e)
  BY MovedBehind, Zenon
<1>2. PICK u \in Text : u = g \o x
  BY TextConcat
<1>3. PICK v \in Text : v = g \o y
  BY TextConcat
<1>4. Moved(u, d, v, e)
  BY <1>1, <1>2, <1>3, Zenon
<1>5. Moved(h \o u, d, h \o v, e)
  BY <1>4, MovedBehind, Zenon
<1> QED BY <1>2, <1>3, <1>5, Zenon

(* A system call of Tiny.                                                  *)
LEMMA TinyRioInv ==
    ASSUME WebInv, RioStep("tiny"), UNCHANGED wvars
    PROVE  WebInv'
<1>0. StaticInv
  BY DEF WebInv
<1>1. /\ "tiny" \in Process /\ RioInv /\ "tiny" \notin Workers /\ "tiny" # "cgi"
      /\ TinyIs(pc["tiny"], call["tiny"], task["tiny"], rio["tiny"], conn, "tiny" \in up, backlog["tiny"])
  BY <1>0, TinyFacts
<1>2. StaticInv' /\ StepBy("tiny")
  BY <1>0, <1>1, RioStatic
<1>3. Frame("tiny") /\ call["tiny"].ret = "none"
  BY <1>1, RioView
<1>4. pc' = pc /\ task' = task /\ up' = up /\ backlog' = backlog /\ cache' = cache
  BY DEF wvars, shared
<1>5. /\ pc["tiny"] \notin {"accept", "dead"} /\ "tiny" \in up /\ call["tiny"].fd # NoFd
      /\ call'["tiny"].fd = call["tiny"].fd /\ call'["tiny"].op = call["tiny"].op
  BY <1>1, <1>3 DEF TinyIs, Frame
<1>6. ASSUME NEW w \in Workers, Live(w) PROVE KeptUp(w)
  <2>1. CASE ~Serves(w)
    <3>1. Opener(w) # call["tiny"].fd.conn
      BY <1>5, <2>1 DEF Serves
    <3>2. conn'[Opener(w)] = conn[Opener(w)] /\ Opener(w)' = Opener(w)
      BY <1>0, <1>2, <1>6, <3>1, KeptByTiny
    <3>3. ~Serves(w)'
      BY <1>5, <3>1, <3>2 DEF Serves
    <3> QED BY <1>2, <1>4, <1>5, <1>6, <2>1, <3>2, <3>3, Unserved
  <2>2. CASE Serves(w)
    <3>1. Answering(w) /\ Talks(w) /\ ~conn[Opener(w)].reset
      BY <1>5, <1>6, <2>2, Served
    <3>2. /\ call["tiny"].fd.side = "acceptor" /\ call["tiny"].fd.conn = Opener(w)
          /\ Data("tiny") \in Text /\ Unread(rio["tiny"]) \in Text
          /\ Incoming(call["tiny"].fd) = conn[Opener(w)].in["acceptor"]
          /\ Incoming(Peer(call["tiny"].fd)) = conn[Opener(w)].in["opener"]
          /\ IsOpen(Peer(call["tiny"].fd)) /\ Ahead("tiny") \in Text
          /\ ~Broken(call["tiny"].fd)
      BY <1>0, <1>5, <1>6, <2>2, <3>1, ServesFacts DEF Broken
    <3>3. /\ pc'[w] = pc[w] /\ call'[w] = call[w] /\ rio'[w] = rio[w] /\ task'[w] = task[w]
          /\ Live(w)' = Live(w) /\ Opener(w)' = Opener(w) /\ Data(w)' = Data(w)
          /\ Pending(w)' = Pending(w)
      BY <1>0, <1>2, KeptByTiny
    <3>4. /\ Opener(w) \in 1 .. Len(conn) /\ pc[w] \in {"send", "reply", "body"}
          /\ Data(w) \in Text /\ Unread(rio[w]) \in Text /\ task[w].hdr \in Text
          /\ conn[Opener(w)].in["opener"] \in Text
          /\ call[w].fd.side = "opener" /\ call[w].fd.conn = Opener(w)
      BY <1>0, <1>6, LiveFacts DEF Opener
    <3>5. conn'[Opener(w)].open = conn[Opener(w)].open
      BY <1>3, <3>4 DEF Frame
    <3>6. CASE Refill("tiny") \/ Copy("tiny")
      <4>1. /\ Reading("tiny") /\ Ahead("tiny")' = Ahead("tiny")
            /\ conn'[Opener(w)].reset = conn[Opener(w)].reset
            /\ conn'[Opener(w)].in["opener"] = conn[Opener(w)].in["opener"]
            /\ \/ call'["tiny"] = call["tiny"]
               \/ /\ call'["tiny"].ret \in {"none", "ok"}
                  /\ call["tiny"].op = "line" /\ call'["tiny"].ret = "ok"
                        => Last(call'["tiny"].data) = NL
        <5>1. CASE Refill("tiny")
          BY <1>1, <1>5, <3>2, <3>4, <5>1, RefillView, Ends
        <5>2. CASE Copy("tiny")
          BY <1>1, <1>5, <3>2, <3>4, <5>2, CopyView
        <5> QED BY <3>6, <5>1, <5>2
      <4>2. pc["tiny"] \in {"request", "headers"} /\ call["tiny"].op = "line"
        BY <1>1, <1>3, <3>1, <4>1 DEF TinyIs, Talks, Reading
      <4>3. Received(w)' = Received(w)
        BY <3>3, <3>4, <4>1, Zenon DEF Received, Ahead, Data, Incoming
      <4>4. Talks(w)'
        <5>1. pc'["tiny"] = pc["tiny"] /\ task'["tiny"] = task["tiny"]
          BY <1>4
        <5>2. call'["tiny"].ret \in {"none", "ok"} /\ (call'["tiny"].ret = "ok" => Last(Data("tiny")') = NL)
          BY <1>3, <4>1, <4>2 DEF Data
        <5> QED BY <3>1, <3>3, <4>1, <4>2, <4>3, <5>1, <5>2 DEF Talks
      <4> QED BY <1>2, <1>4, <1>5, <1>6, <2>2, <3>5, <4>1, <4>4, StillServed
    <3>7. CASE ReadEnd("tiny")
      BY <1>1, <3>2, <3>7, ReadEndView
    <3>8. CASE Write("tiny")
      <4>1. /\ call["tiny"].op = "write" /\ call'["tiny"].ret \in {"none", "ok"}
            /\ conn'[Opener(w)].reset = conn[Opener(w)].reset
            /\ conn'[Opener(w)].in["acceptor"] = conn[Opener(w)].in["acceptor"]
            /\ conn'[Opener(w)].in["opener"] \o call'["tiny"].data
                  = conn[Opener(w)].in["opener"] \o call["tiny"].data
            /\ rio' = rio
        BY <1>1, <3>2, <3>4, <3>8, WriteView, Ends, Zenon DEF Writing
      <4>2. pc["tiny"] \notin {"request", "headers"} /\ pc["tiny"] \in {"error", "open", "last"}
        BY <1>1, <1>3, <3>1, <4>1 DEF TinyIs, Talks
      <4>3. Asking(w)' = Asking(w)
        BY <3>3, <4>1 DEF Asking
      <4>4. Received(w)' \o Data("tiny")' = Received(w) \o Data("tiny")
        <5>1. PICK x \in Text : x = conn[Opener(w)].in["opener"]
          BY <3>4
        <5>2. PICK d \in Text : d = Data("tiny")
          BY <3>2
        <5>3. conn'[Opener(w)].in["opener"] \in Text /\ Data("tiny")' \in Text
          <6>1. RioInv' /\ Opener(w) \in 1 .. Len(conn')
            BY <1>2, <3>4 DEF StaticInv, StepBy, Grown
          <6>2. conn' \in Seq(Link) /\ call'["tiny"] \in Calling
            BY <1>1, <6>1 DEF RioInv
          <6>3. conn'[Opener(w)] \in Link
            BY <6>1, <6>2, ElementOfSeq
          <6> QED BY <6>2, <6>3, LinkFields, CallFields, Ends DEF Data
        <5>4. PICK y \in Text : y = conn'[Opener(w)].in["opener"]
          BY <5>3
        <5>5. PICK e \in Text : e = Data("tiny")'
          BY <5>3
        <5>6. x \in Text /\ y \in Text /\ d \in Text /\ e \in Text
          BY <5>1, <5>2, <5>4, <5>5
        <5>7. y \o e = x \o d
          BY <4>1, <5>1, <5>2, <5>4, <5>5, Zenon DEF Data
        <5>8. CASE pc[w] = "send"
          <6>1. Received(w) = x /\ Received(w)' = y
            BY <3>3, <5>1, <5>4, <5>8 DEF Received
          <6> QED BY <5>2, <5>5, <5>7, <6>1
        <5>9. CASE pc[w] # "send"
          <6>1. PICK g \in Text : g = Data(w) \o Unread(rio[w])
            BY <3>4, TextConcat
          <6>2. PICK h \in Text : h = task[w].hdr
            BY <3>4
          <6>3. Ahead(w) = g \o x /\ Ahead(w)' = g \o y
            BY <3>3, <3>4, <5>1, <5>4, <6>1 DEF Ahead, Data, Incoming
          <6>4. Received(w) = h \o (g \o x) /\ Received(w)' = h \o (g \o y)
            BY <3>3, <5>9, <6>2, <6>3 DEF Received
          <6>5. (h \o (g \o y)) \o e = (h \o (g \o x)) \o d
            <7>1. Moved(x, d, y, e)
              BY <5>7, Zenon DEF Moved
            <7>2. Moved(h \o (g \o x), d, h \o (g \o y), e)
              BY <7>1, MovedBehindTwo, Zenon
            <7> QED BY <7>2, Zenon DEF Moved
          <6> QED BY <5>2, <5>5, <6>4, <6>5, Zenon
        <5> QED BY <5>8, <5>9
      <4>5. Talks(w)'
        BY <1>4, <3>1, <3>3, <4>1, <4>2, <4>3, <4>4 DEF Talks
      <4> QED BY <1>2, <1>4, <1>5, <1>6, <2>2, <3>5, <4>1, <4>5, StillServed
    <3>9. CASE WriteFails("tiny")
      BY <1>1, <3>2, <3>9, WriteFailsView
    <3> QED BY <3>6, <3>7, <3>8, <3>9 DEF RioStep
  <2> QED BY <2>1, <2>2
<1> QED BY <1>2, <1>4, <1>5, <1>6, TinyAgain

LEMMA TinyAcceptInv ==
    ASSUME WebInv, TinyAccept
    PROVE  WebInv'
<1>0. StaticInv
  BY DEF WebInv
<1> DEFINE b == backlog["tiny"]
           i == Head(b)
<1>1. /\ pc["tiny"] = "accept" /\ b # <<>>
      /\ Continue("tiny", "request", ReadLine(Fd(i, "acceptor")))
      /\ backlog' = [backlog EXCEPT !["tiny"] = Tail(b)]
      /\ scenario' = scenario /\ task' = task /\ up' = up /\ cache' = cache /\ files' = files
  BY DEF TinyAccept
<1>2. /\ "tiny" \in Process /\ "tiny" \in Workers \cup {"tiny"}
      /\ "tiny" \notin Workers /\ "tiny" \notin Clients /\ "tiny" # "cgi"
      /\ TinyIs("accept", call["tiny"], task["tiny"], rio["tiny"], conn, "tiny" \in up, b)
      /\ backlog \in [Servers -> Seq(Nat)] /\ \A s \in Servers : Queued(s, backlog[s], conn)
      /\ "tiny" \in Servers /\ "proxy" \in Servers /\ "tiny" # "proxy"
      /\ task \in [Workers \cup {"tiny"} -> Task]
  BY <1>0, <1>1, TinyFacts, Kinds DEF StaticInv, Types
<1>3. b \in Seq(Nat) /\ b # <<>> /\ Queued("tiny", b, conn) /\ i = Head(b)
  BY <1>1, <1>2
<1> HIDE DEF b
<1>4. /\ Tail(b) \in Seq(Nat) /\ Queued("tiny", Tail(b), conn)
      /\ i \in 1 .. Len(conn) /\ conn[i].to = "tiny" /\ ~Waits(Tail(b), i)
      /\ \A j : Waits(b, j) <=> j = i \/ Waits(Tail(b), j)
  BY <1>3, QueuedRest
<1> HIDE DEF i
<1>5. PICK c : c = ReadLine(Fd(i, "acceptor"))
  OBVIOUS
<1>6. /\ Starts(c) /\ c.fd = Fd(i, "acceptor") /\ c.op = "line" /\ InRange(c, conn)
      /\ c.data = <<>> /\ c.ret = "none" /\ c.fd # NoFd /\ c.fd.conn = i /\ c.fd.side = "acceptor"
  <2>1. /\ Fd(i, "acceptor") \in Descriptor /\ Fd(i, "acceptor").conn = i
        /\ Fd(i, "acceptor").side = "acceptor" /\ Fd(i, "acceptor") # NoFd
    BY <1>4, DescriptorFacts, Ends
  <2> QED BY <1>4, <1>5, <2>1, CallFacts DEF InRange
<1>7. Goes("tiny", "request", c) /\ conn' = conn /\ rio' = rio
  BY <1>1, <1>5, ContinueGoes
<1>8. /\ backlog' \in [Servers -> Seq(Nat)] /\ \A s \in Servers : Queued(s, backlog'[s], conn)
      /\ backlog'["tiny"] = Tail(b) /\ backlog["tiny"] = b
  BY <1>1, <1>2, <1>4 DEF b
<1>9. "tiny" \in up /\ rio["tiny"] = EmptyRio
  BY <1>2 DEF TinyIs
<1>10. TinyIs("request", c, task'["tiny"], rio'["tiny"], conn, "tiny" \in up, backlog'["tiny"])
  BY <1>4, <1>6, <1>8, <1>9 DEF TinyIs
<1>11. Serving /\ Tasks("tiny") /\ "request" \in Labels
  BY <1>1, <1>2 DEF Serving, Tasks, Labels
<1>12. \A j \in 1 .. Len(conn) : Waits(backlog'["tiny"], j) => Waits(backlog["tiny"], j)
  BY <1>4, <1>8
<1>13. StaticInv' /\ StepBy("tiny") /\ pc'["tiny"] = "request" /\ call'["tiny"] = c
  BY <1>0, <1>2, <1>6, <1>7, <1>8, <1>10, <1>11, <1>12, Local
<1>14. ASSUME NEW w \in Workers, Live(w) PROVE KeptUp(w)
  <2>1. ~Serves(w) /\ Opener(w)' = Opener(w) /\ pc'[w] = pc[w] /\ task'[w] = task[w] /\ rio'[w] = rio[w]
        /\ call'[w] = call[w] /\ Pending(w)' = Pending(w)
    BY <1>0, <1>1, <1>13, KeptByTiny DEF Serves
  <2>2. CASE Opener(w) # i
    <3>1. ~Serves(w)'
      BY <1>6, <1>13, <2>1, <2>2 DEF Serves
    <3>2. Waits(backlog'["tiny"], Opener(w)) <=> Waits(backlog["tiny"], Opener(w))
      BY <1>4, <1>8, <2>2
    <3> QED BY <1>7, <1>9, <1>13, <1>14, <2>1, <3>1, <3>2, Unserved
  <2>3. CASE Opener(w) = i
    <3>1. UpIs(w) /\ Waits(backlog["tiny"], Opener(w))
      BY <1>4, <1>8, <1>14, <2>3 DEF WebInv
    <3>2. InBacklog(w) /\ ~conn[Opener(w)].reset
      BY <1>9, <2>1, <3>1 DEF UpIs, InService, Answered0
    <3>3. /\ Answering(w) /\ Asks(Asking(w), task[w].path) /\ Received(w) = <<>>
      BY <3>2 DEF InBacklog
    <3>4. Answering(w)' = Answering(w) /\ Received(w)' = Received(w)
      BY <1>7, <2>1 DEF Answering, Received, Ahead, Data, Incoming
    <3>5. Ahead("tiny")' = conn[Opener(w)].in["acceptor"]
      <4>1. Data("tiny")' = <<>> /\ Incoming(call["tiny"].fd)' = conn[Opener(w)].in["acceptor"]
        BY <1>6, <1>7, <1>13, <2>3 DEF Data, Incoming
      <4>2. Unread(rio'["tiny"]) = <<>>
        BY <1>7, <1>9, EmptyRioFacts
      <4>3. PICK x \in Text : x = conn[Opener(w)].in["acceptor"]
        BY <1>0, <1>14, LiveFacts
      <4>4. (<<>> \o <<>>) \o x = x /\ x \in Text
        BY <4>3, TextEmpty, TextType
      <4> QED BY <4>1, <4>2, <4>3, <4>4 DEF Ahead
    <3>6. (Ahead("tiny") \o Pending(w))' = Asking(w)
      BY <2>1, <3>5 DEF Asking
    <3>7. Talks(w)'
      BY <1>6, <1>13, <2>1, <3>3, <3>4, <3>6 DEF Talks
    <3>8. InService(w)'
      BY <1>6, <1>13, <2>1, <2>3, <3>3, <3>4, <3>7 DEF InService, Serves
    <3>9. \E a \in Answers(task[w].path) : Begins(Received(w)', a)
      BY <3>1, <3>4 DEF UpIs
    <3> QED BY <1>7, <3>3, <3>8, <3>9 DEF KeptUp
  <2> QED BY <2>2, <2>3
<1> QED BY <1>1, <1>9, <1>13, <1>14, TinyAgain

(* What Tiny has yet to read of the worker's request behind its line.       *)
Rest(w) == (Unread(rio["tiny"]) \o conn[Opener(w)].in["acceptor"]) \o Pending(w)

(* Talks, when Tiny has gone on to another call on the same connection.     *)
TalksAs(w, at, c, path) ==
    /\ at \in {"headers", "serve", "error", "open", "last"} /\ c.ret \in {"none", "ok"}
    /\ at = "headers" => c.ret = "none" /\ c.data = <<>> /\ Closing(Rest(w))
    /\ at \in {"headers", "serve"} => Received(w) = <<>>
    /\ at \in {"serve", "error", "open", "last"} => Unread(rio["tiny"]) = <<>> /\ Asking(w) = <<>>
    /\ at \in {"headers", "serve", "open"} => path = task[w].path
    /\ at = "error" => \E code \in {"404", "403"} : Received(w) \o c.data = ErrorHeader(code)
    /\ at = "open" => Received(w) \o c.data = Header(task[w].path)
    /\ at = "last" => Received(w) \o c.data \in Answers(task[w].path)

LEMMA TalksOn ==
    ASSUME StaticInv, NEW w \in Workers, Live(w), Serves(w), NEW at \in Labels,
           NEW c, Starts(c), c.fd = call["tiny"].fd, Goes("tiny", at, c),
           NEW t \in Task, SetTask("tiny", t), conn' = conn, rio' = rio,
           TalksAs(w, at, c, t.path)
    PROVE  Talks(w)'
<1>1. "tiny" \in Process /\ "tiny" \in Workers \cup {"tiny"} /\ w \in Process \ {"tiny"}
      /\ w \in (Workers \cup {"tiny"}) \ {"tiny"}
  BY Kinds
<1>2. /\ pc'["tiny"] = at /\ call'["tiny"] = c /\ pc'[w] = pc[w] /\ call'[w] = call[w]
  BY <1>1, GoesFacts
<1>3. task'["tiny"] = t /\ task'[w] = task[w]
  BY <1>1, TasksSet DEF Tasks
<1>4. /\ Opener(w)' = Opener(w) /\ Pending(w)' = Pending(w) /\ Asking(w)' = Asking(w)
      /\ Ahead(w)' = Ahead(w) /\ Received(w)' = Received(w) /\ Data("tiny")' = c.data
  BY <1>2, <1>3 DEF Opener, Pending, Asking, Ahead, Received, Data, Incoming
<1>5. at = "headers" => Closing((Ahead("tiny") \o Pending(w))')
  <2> SUFFICES ASSUME at = "headers" PROVE Closing((Ahead("tiny") \o Pending(w))')
    OBVIOUS
  <2>1. c.data = <<>> /\ Closing(Rest(w))
    BY DEF TalksAs
  <2>2. call["tiny"].fd.conn = Opener(w) /\ call["tiny"].fd.side = "acceptor"
        /\ Unread(rio["tiny"]) \in Text
    BY ServesFacts
  <2>3. Ahead("tiny")' = (<<>> \o Unread(rio["tiny"])) \o conn[Opener(w)].in["acceptor"]
    BY <1>2, <2>1, <2>2 DEF Ahead, Data, Incoming
  <2>4. <<>> \o Unread(rio["tiny"]) = Unread(rio["tiny"])
    BY <2>2, TextEmpty
  <2>5. (Ahead("tiny") \o Pending(w))' = Rest(w)
    BY <1>4, <2>3, <2>4 DEF Rest
  <2> QED BY <2>1, <2>5
<1> QED BY <1>2, <1>3, <1>4, <1>5 DEF Talks, TalksAs

(* Tiny goes on to another call on its connection.                         *)
LEMMA GoesOn ==
    ASSUME WebInv, pc["tiny"] \notin {"accept", "dead", "wait", "endless"},
           NEW at \in {"headers", "serve", "error", "status", "open", "fork", "last", "endless"},
           NEW c, Starts(c), c.fd = call["tiny"].fd, Goes("tiny", at, c),
           NEW t \in Task, SetTask("tiny", t), conn' = conn, rio' = rio, UNCHANGED shared,
           at = "headers" => c.op = "line",
           at \in {"error", "status", "open", "fork", "last"} => c.op = "write",
           at \in {"status", "open", "fork"} => t.path \in Files,
           at \in {"serve", "endless"} => c.ret # "none",
           \A w \in Workers : Live(w) /\ Serves(w) => TalksAs(w, at, c, t.path)
    PROVE  WebInv'
<1>0. StaticInv
  BY DEF WebInv
<1>1. /\ "tiny" \in Process /\ "tiny" \in Workers \cup {"tiny"} /\ at \in Labels
      /\ "tiny" \notin Workers /\ "tiny" \notin Clients /\ "tiny" # "cgi"
      /\ TinyIs(pc["tiny"], call["tiny"], task["tiny"], rio["tiny"], conn, "tiny" \in up, backlog["tiny"])
      /\ backlog \in [Servers -> Seq(Nat)] /\ \A s \in Servers : Queued(s, backlog[s], conn)
      /\ InRange(call["tiny"], conn)
  BY <1>0, TinyFacts DEF Labels
<1>2. /\ call["tiny"].fd # NoFd /\ call["tiny"].fd.side = "acceptor" /\ "tiny" \in up
      /\ conn[call["tiny"].fd.conn].to = "tiny" /\ ~Waits(backlog["tiny"], call["tiny"].fd.conn)
  BY <1>1 DEF TinyIs
<1>3. /\ scenario' = scenario /\ up' = up /\ backlog' = backlog /\ cache' = cache /\ files' = files
  BY DEF shared
<1>4. Tasks("tiny") /\ task'["tiny"] = t
  BY <1>0, <1>1, TasksSet
<1>5. TinyIs(at, c, task'["tiny"], rio'["tiny"], conn, "tiny" \in up, backlog'["tiny"])
  BY <1>2, <1>3, <1>4 DEF TinyIs
<1>6. InRange(c, conn) /\ Serving
  BY <1>1, <1>3 DEF InRange, Serving
<1>7. StaticInv' /\ StepBy("tiny") /\ pc'["tiny"] = at /\ call'["tiny"] = c
  BY <1>0, <1>1, <1>3, <1>4, <1>5, <1>6, Local
<1>8. ASSUME NEW w \in Workers, Live(w) PROVE KeptUp(w)
  <2>1. CASE ~Serves(w)
    <3>1. Opener(w)' = Opener(w)
      BY <1>0, <1>7, KeptByTiny
    <3>2. ~Serves(w)'
      BY <1>7, <2>1, <3>1 DEF Serves
    <3> QED BY <1>2, <1>3, <1>7, <1>8, <2>1, <3>2, Unserved
  <2>2. CASE Serves(w)
    <3>1. Talks(w)'
      BY <1>0, <1>1, <1>8, <2>2, TalksOn
    <3>2. /\ call'["tiny"].fd = call["tiny"].fd /\ pc'["tiny"] \notin {"accept", "dead"}
      BY <1>7
    <3> QED BY <1>2, <1>7, <1>8, <2>2, <3>1, <3>2, StillServed
  <2> QED BY <2>1, <2>2
<1> QED BY <1>2, <1>3, <1>7, <1>8, TinyAgain

(* A line of a worker's request.                                           *)
LEMMA LineServed ==
    ASSUME WebInv, NEW w \in Workers, Live(w), Serves(w), "tiny" \in up,
           pc["tiny"] \in {"request", "headers"}, call["tiny"].ret # "none"
    PROVE  /\ call["tiny"].ret = "ok" /\ Received(w) = <<>>
           /\ pc["tiny"] = "request" => /\ IsGet(Data("tiny"))
                                        /\ Data("tiny")[1][2] = task[w].path
                                        /\ Closing(Rest(w))
           /\ pc["tiny"] = "headers" =>
                 /\ task["tiny"].path = task[w].path
                 /\ Data("tiny") = <<NL>> => Unread(rio["tiny"]) = <<>> /\ Asking(w) = <<>>
                 /\ Data("tiny") # <<NL>> => Closing(Rest(w))
<1>0. StaticInv
  BY DEF WebInv
<1>1. Talks(w)
  BY Served
<1>2. /\ call["tiny"].ret = "ok" /\ Received(w) = <<>> /\ Last(Data("tiny")) = NL
      /\ pc["tiny"] = "request" => Asks(Ahead("tiny") \o Pending(w), task[w].path)
      /\ pc["tiny"] = "headers" => /\ Closing(Ahead("tiny") \o Pending(w))
                                   /\ task["tiny"].path = task[w].path
  BY <1>1 DEF Talks
<1>3. /\ TinyIs(pc["tiny"], call["tiny"], task["tiny"], rio["tiny"], conn, "tiny" \in up, backlog["tiny"])
      /\ RioInv /\ "tiny" \in Process
  BY <1>0, TinyFacts
<1>4. call["tiny"].op = "line"
  BY <1>3 DEF TinyIs
<1>5. IsLine(Data("tiny")) /\ Data("tiny") \in Text /\ Len(Data("tiny")) >= 1
  BY <1>2, <1>3, <1>4, LineFacts
<1>6. /\ Unread(rio["tiny"]) \in Text
      /\ Ahead("tiny") = (Data("tiny") \o Unread(rio["tiny"])) \o conn[Opener(w)].in["acceptor"]
  BY <1>0, ServesFacts
<1>7. conn[Opener(w)].in["acceptor"] \in Text /\ Pending(w) \in Text
  BY <1>0, LiveFacts
<1>8. PICK d : d \in Text /\ d = Data("tiny")
  BY <1>5
<1>9. PICK u : u \in Text /\ u = Unread(rio["tiny"])
  BY <1>6
<1>10. PICK i : i \in Text /\ i = conn[Opener(w)].in["acceptor"]
  BY <1>7
<1>11. PICK p : p \in Text /\ p = Pending(w)
  BY <1>7
<1>12. d \in Text /\ u \in Text /\ i \in Text /\ p \in Text
  BY <1>8, <1>9, <1>10, <1>11
<1>13. u \o i \in Text /\ (u \o i) \o p \in Text
  <2>1. u \o i \in Text
    BY <1>12, TextConcat
  <2> QED BY <1>12, <2>1, TextConcat
<1>14. PICK r : r \in Text /\ r = (u \o i) \o p
  BY <1>13
<1>15. r \in Text
  BY <1>14
<1>16. ((d \o u) \o i) \o p = d \o r
  <2>1. (d \o u) \o i = d \o (u \o i)
    BY <1>12, TextGroup
  <2>2. PICK e : e \in Text /\ e = u \o i
    BY <1>13
  <2>3. d \in Text /\ e \in Text /\ p \in Text
    BY <1>12, <2>2
  <2>4. (d \o e) \o p = d \o (e \o p)
    BY <2>3, TextGroup
  <2> QED BY <1>14, <2>1, <2>2, <2>4
<1>17. Ahead("tiny") \o Pending(w) = d \o r /\ Rest(w) = r
  BY <1>6, <1>8, <1>9, <1>10, <1>11, <1>14, <1>16 DEF Rest
<1>18. Closing(d \o r)
  BY <1>2, <1>17 DEF Asks
<1>19. (d = <<NL>> => r = <<>>) /\ (d # <<NL>> => Closing(r))
  BY <1>2, <1>5, <1>8, <1>12, <1>15, <1>18, ClosingLine
<1>20. ASSUME pc["tiny"] = "request"
       PROVE  IsGet(d) /\ d[1][2] = task[w].path /\ Closing(r)
  <2>1. (d \o r)[1] = <<"get", task[w].path>>
    BY <1>2, <1>17, <1>20 DEF Asks
  <2>2. Len(d) \in Nat /\ Len(d) >= 1 /\ 1 \in 1 .. Len(d)
    BY <1>5, <1>8, <1>12, TextType
  <2>3. d[1] = <<"get", task[w].path>>
    BY <1>12, <1>15, <2>1, <2>2, TextFirst
  <2>4. d[1][1] = "get" /\ d[1][2] = task[w].path
    BY <2>3
  <2>5. d # <<NL>>
    <3>1. <<"get", task[w].path>> # NL /\ <<NL>>[1] = NL
      BY TokenFacts
    <3> QED BY <2>3, <3>1
  <2> QED BY <1>19, <2>2, <2>4, <2>5 DEF IsGet
<1>21. ASSUME r = <<>> PROVE u = <<>> /\ Asking(w) = <<>>
  <2>1. u \o i = <<>> /\ p = <<>>
    BY <1>12, <1>13, <1>14, <1>21, TextNone
  <2>2. u = <<>> /\ i = <<>>
    BY <1>12, <2>1, TextNone
  <2>3. Asking(w) = i \o p
    BY <1>10, <1>11 DEF Asking
  <2>4. <<>> \o <<>> = <<>>
    BY TextType, TextEmpty
  <2> QED BY <2>1, <2>2, <2>3, <2>4
<1> QED BY <1>2, <1>8, <1>9, <1>17, <1>19, <1>20, <1>21

(* Tiny closes its connection: the worker whose it is has been answered.    *)
LEMMA TinyCloses ==
    ASSUME WebInv, TinyClose, pc["tiny"] \notin {"accept", "dead"},
           \A w \in Workers : Live(w) /\ Serves(w) =>
              Asking(w) = <<>> /\ Received(w) \in Answers(task[w].path)
    PROVE  WebInv'
<1>0. StaticInv
  BY DEF WebInv
<1>1. /\ "tiny" \in Process /\ "tiny" \in Workers \cup {"tiny"} /\ "accept" \in Labels
      /\ "tiny" \notin Workers /\ "tiny" \notin Clients /\ "tiny" # "cgi"
      /\ TinyIs(pc["tiny"], call["tiny"], task["tiny"], rio["tiny"], conn, "tiny" \in up, backlog["tiny"])
      /\ rio \in [Process -> Buffer]
  BY <1>0, TinyFacts DEF Labels, RioInv
<1>2. /\ call["tiny"].fd # NoFd /\ call["tiny"].fd.side = "acceptor" /\ "tiny" \in up
      /\ ~Waits(backlog["tiny"], call["tiny"].fd.conn)
  BY <1>1 DEF TinyIs
<1>3. /\ conn' \in AfterClose({call["tiny"].fd}) /\ SetTask("tiny", NoTask)
      /\ pc' = [pc EXCEPT !["tiny"] = "accept"] /\ call' = [call EXCEPT !["tiny"] = NoCall]
      /\ rio' = [rio EXCEPT !["tiny"] = EmptyRio]
      /\ scenario' = scenario /\ up' = up /\ backlog' = backlog /\ cache' = cache /\ files' = files
  BY DEF TinyClose, Closed, Goto, shared, TinyFd
<1>4. Tasks("tiny") /\ task'["tiny"] = NoTask
  BY <1>0, <1>1, <1>3, TasksSet, TaskFacts
<1>5. Goes("tiny", "accept", NoCall) /\ Serving
  BY <1>3 DEF Goes, Serving
<1>6. Starts(NoCall) /\ NoCall.fd = NoFd /\ InRange(NoCall, conn) /\ NoCall.ret = "ok"
  BY CallFacts DEF InRange, NoCall, Call
<1>7. rio'["tiny"] = EmptyRio
  BY <1>1, <1>3
<1>8. TinyIs("accept", NoCall, task'["tiny"], rio'["tiny"], conn, "tiny" \in up, backlog["tiny"])
  BY <1>2, <1>6, <1>7 DEF TinyIs
<1>9. StaticInv' /\ StepBy("tiny") /\ pc'["tiny"] = "accept" /\ CloseView({call["tiny"].fd})
  BY <1>0, <1>1, <1>2, <1>3, <1>4, <1>5, <1>6, <1>8, CloseStep
<1>10. ASSUME NEW w \in Workers, Live(w) PROVE KeptUp(w)
  <2>0. ~Serves(w)'
    BY <1>9 DEF Serves
  <2>1. CASE ~Serves(w)
    <3>1. Opener(w) # call["tiny"].fd.conn
      BY <2>1 DEF Serves
    <3>2. conn'[Opener(w)] = conn[Opener(w)]
      BY <1>0, <1>9, <1>10, <3>1, KeptByTiny
    <3> QED BY <1>2, <1>3, <1>9, <1>10, <2>0, <2>1, <3>2, Unserved
  <2>2. CASE Serves(w)
    <3>1. /\ pc'[w] = pc[w] /\ call'[w] = call[w] /\ rio'[w] = rio[w] /\ task'[w] = task[w]
          /\ Opener(w)' = Opener(w) /\ Pending(w)' = Pending(w)
      BY <1>0, <1>9, KeptByTiny
    <3>2. /\ call["tiny"].fd = Fd(Opener(w), "acceptor") /\ call["tiny"].fd.conn = Opener(w)
          /\ Opener(w) \in 1 .. Len(conn) /\ Opener(w) \in Nat
          /\ conn[Opener(w)].in["acceptor"] \in Text /\ Pending(w) \in Text /\ Received(w) \in Text
          /\ call[w].fd.conn = Opener(w) /\ call[w].fd.side = "opener"
      <4>1. call["tiny"].fd = Fd(Opener(w), "acceptor") /\ call["tiny"].fd.conn = Opener(w)
        BY <1>0, <1>10, <2>2, ServesFacts
      <4>2. /\ Opener(w) \in 1 .. Len(conn)
            /\ conn[Opener(w)].in["acceptor"] \in Text /\ Pending(w) \in Text /\ Received(w) \in Text
            /\ call[w].fd.conn = Opener(w) /\ call[w].fd.side = "opener"
        BY <1>0, <1>10, LiveFacts DEF Opener
      <4> QED BY <4>1, <4>2
    <3>3. Asking(w) = <<>> /\ Received(w) \in Answers(task[w].path) /\ Answering(w)
      BY <1>2, <1>10, <2>2, Served
    <3>4. conn[Opener(w)].in["acceptor"] = <<>> /\ Pending(w) = <<>>
      BY <3>2, <3>3, TextNone DEF Asking
    <3>5. \A s \in Sides : Fd(Opener(w), s) \in {call["tiny"].fd} => conn[Opener(w)].in[s] = <<>>
      <4> SUFFICES ASSUME NEW s \in Sides, Fd(Opener(w), s) = Fd(Opener(w), "acceptor")
                   PROVE  conn[Opener(w)].in[s] = <<>>
        BY <3>2
      <4>1. s = "acceptor"
        BY <3>2, Ends, DescriptorFacts
      <4> QED BY <3>4, <4>1
    <3>6. /\ conn'[Opener(w)].reset = conn[Opener(w)].reset
          /\ conn'[Opener(w)].in["opener"] = conn[Opener(w)].in["opener"]
          /\ conn'[Opener(w)].open["acceptor"] = FALSE
      BY <1>9, <3>2, <3>5, Ends DEF CloseView
    <3>7. Ahead(w)' = Ahead(w)
      BY <3>1, <3>2, <3>6 DEF Ahead, Data, Incoming
    <3>8. Received(w)' = Received(w) /\ ~Answering(w)'
      BY <3>1, <3>6, <3>7 DEF Received, Answering
    <3>9. Answered0(w)'
      BY <1>2, <1>3, <2>0, <3>1, <3>2, <3>3, <3>4, <3>8 DEF Answered0
    <3>10. \E a \in Answers(task[w].path) : Begins(Received(w)', a)
      BY <3>2, <3>3, <3>8, BeginsSame
    <3> QED BY <3>3, <3>6, <3>8, <3>9, <3>10 DEF KeptUp
  <2> QED BY <2>1, <2>2
<1> QED BY <1>2, <1>3, <1>9, <1>10, TinyAgain

(* A call on Tiny's connection.                                            *)
LEMMA TinyCalls ==
    ASSUME StaticInv
    PROVE  /\ Starts(ReadLine(TinyFd)) /\ ReadLine(TinyFd).fd = call["tiny"].fd
           /\ ReadLine(TinyFd).op = "line" /\ ReadLine(TinyFd).ret = "none"
           /\ ReadLine(TinyFd).data = <<>>
           /\ \A data \in Text : /\ Starts(WriteN(TinyFd, data)) /\ WriteN(TinyFd, data).op = "write"
                                 /\ WriteN(TinyFd, data).fd = call["tiny"].fd
                                 /\ WriteN(TinyFd, data).data = data /\ WriteN(TinyFd, data).ret = "none"
<1>1. TinyFd \in Descriptor /\ TinyFd = call["tiny"].fd
  BY TinyFacts DEF TinyFd
<1> QED BY <1>1, CallFacts

LEMMA TinyDoitInv ==
    ASSUME WebInv, TinyDoit
    PROVE  WebInv'
<1>0. StaticInv
  BY DEF WebInv
<1>1. pc["tiny"] = "request" /\ call["tiny"].ret \notin {"none", "error"}
  BY DEF TinyDoit, At, Returned
<1>2. /\ "tiny" \in Workers \cup {"tiny"} /\ Data("tiny") \in Text /\ task["tiny"] \in Task
      /\ call["tiny"].ret \in {"ok", "eof"} /\ "tiny" \in up
      /\ "tiny" \in Process
  BY <1>0, <1>1, TinyFacts DEF TinyIs
<1>3. \A w \in Workers : Live(w) /\ Serves(w) =>
          /\ call["tiny"].ret = "ok" /\ Received(w) = <<>> /\ IsGet(Data("tiny"))
          /\ Data("tiny")[1][2] = task[w].path /\ Closing(Rest(w))
  BY <1>1, <1>2, LineServed
<1>4. CASE call["tiny"].ret = "eof" /\ TinyClose
  BY <1>1, <1>3, <1>4, TinyCloses
<1>5. CASE /\ ~IsGet(Data("tiny"))
           /\ Continue("tiny", "error", WriteN(TinyFd, ErrorHeader("501")))
           /\ UNCHANGED <<task, shared>>
  <2>1. PICK c : c = WriteN(TinyFd, ErrorHeader("501"))
    OBVIOUS
  <2>2. Starts(c) /\ c.op = "write" /\ c.fd = call["tiny"].fd
    BY <1>0, <2>1, TinyCalls, LinesTyped
  <2>3. Goes("tiny", "error", c) /\ conn' = conn /\ rio' = rio
    BY <1>5, <2>1, ContinueGoes
  <2>4. SetTask("tiny", task["tiny"]) /\ UNCHANGED shared
    BY <1>0, <1>2, <1>5, Unset
  <2>5. \A w \in Workers : ~(Live(w) /\ Serves(w))
    BY <1>3, <1>5
  <2> QED BY <1>1, <1>2, <2>2, <2>3, <2>4, <2>5, GoesOn
<1>6. CASE /\ IsGet(Data("tiny"))
           /\ SetTask("tiny", [NoTask EXCEPT !.path = Data("tiny")[1][2]])
           /\ Continue("tiny", "headers", ReadLine(TinyFd))
           /\ UNCHANGED shared
  <2>1. Data("tiny")[1] \in Token /\ Data("tiny")[1][1] = "get"
    <3>1. Len(Data("tiny")) \in Nat /\ Len(Data("tiny")) > 0 /\ Data("tiny")[1][1] = "get"
      BY <1>2, <1>6, TextType DEF IsGet
    <3>2. 1 \in 1 .. Len(Data("tiny"))
      BY <3>1
    <3> QED BY <1>2, <3>1, <3>2, TextType
  <2>2. PICK path \in Paths : path = Data("tiny")[1][2]
    BY <2>1, TokenFacts
  <2>3. PICK t \in Task : t = [NoTask EXCEPT !.path = path] /\ t.path = path
    <3>1. [NoTask EXCEPT !.path = path] \in Task /\ [NoTask EXCEPT !.path = path].path = path
      BY TaskFacts DEF Task
    <3> QED BY <3>1
  <2>4. SetTask("tiny", t) /\ UNCHANGED shared
    BY <1>6, <2>2, <2>3
  <2>5. PICK c : c = ReadLine(TinyFd)
    OBVIOUS
  <2>6. Starts(c) /\ c.op = "line" /\ c.fd = call["tiny"].fd /\ c.ret = "none" /\ c.data = <<>>
    BY <1>0, <2>5, TinyCalls
  <2>7. Goes("tiny", "headers", c) /\ conn' = conn /\ rio' = rio
    BY <1>6, <2>5, ContinueGoes
  <2>8. \A w \in Workers : Live(w) /\ Serves(w) => TalksAs(w, "headers", c, t.path)
    BY <1>3, <2>2, <2>3, <2>6 DEF TalksAs
  <2> QED BY <1>1, <2>4, <2>6, <2>7, <2>8, GoesOn
<1> QED BY <1>2, <1>4, <1>5, <1>6 DEF TinyDoit

LEMMA TinyReadHdrsInv ==
    ASSUME WebInv, TinyReadHdrs
    PROVE  WebInv'
<1>0. StaticInv
  BY DEF WebInv
<1>1. pc["tiny"] = "headers" /\ call["tiny"].ret \notin {"none", "error"} /\ UNCHANGED shared
  BY DEF TinyReadHdrs, At, Returned
<1>2. /\ "tiny" \in Workers \cup {"tiny"} /\ Data("tiny") \in Text /\ task["tiny"] \in Task
      /\ call["tiny"].ret \in {"ok", "eof"} /\ "tiny" \in up /\ Starts(call["tiny"])
      /\ "tiny" \in Process
  BY <1>0, <1>1, TinyFacts DEF TinyIs
<1>3. \A w \in Workers : Live(w) /\ Serves(w) =>
          /\ call["tiny"].ret = "ok" /\ Received(w) = <<>> /\ task["tiny"].path = task[w].path
          /\ Data("tiny") = <<NL>> => Unread(rio["tiny"]) = <<>> /\ Asking(w) = <<>>
          /\ Data("tiny") # <<NL>> => Closing(Rest(w))
  BY <1>1, <1>2, LineServed
<1>4. CASE /\ call["tiny"].ret = "ok" /\ Data("tiny") # <<NL>>
           /\ SetTask("tiny", [task["tiny"] EXCEPT !.line = Data("tiny")])
           /\ Continue("tiny", "headers", ReadLine(TinyFd))
  <2>1. PICK t \in Task : t = [task["tiny"] EXCEPT !.line = Data("tiny")] /\ t.path = task["tiny"].path
    <3>1. /\ [task["tiny"] EXCEPT !.line = Data("tiny")] \in Task
          /\ [task["tiny"] EXCEPT !.line = Data("tiny")].path = task["tiny"].path
      BY <1>2 DEF Task
    <3> QED BY <3>1
  <2>2. SetTask("tiny", t)
    BY <1>4, <2>1
  <2>3. PICK c : c = ReadLine(TinyFd)
    OBVIOUS
  <2>4. Starts(c) /\ c.op = "line" /\ c.fd = call["tiny"].fd /\ c.ret = "none" /\ c.data = <<>>
    BY <1>0, <2>3, TinyCalls
  <2>5. Goes("tiny", "headers", c) /\ conn' = conn /\ rio' = rio
    BY <1>4, <2>3, ContinueGoes
  <2>6. \A w \in Workers : Live(w) /\ Serves(w) => TalksAs(w, "headers", c, t.path)
    BY <1>3, <1>4, <2>1, <2>4 DEF TalksAs
  <2> QED BY <1>1, <2>2, <2>4, <2>5, <2>6, GoesOn
<1>5. CASE call["tiny"].ret = "eof" /\ Goto("tiny", "endless") /\ UNCHANGED <<rvars, task>>
  <2>1. Goes("tiny", "endless", call["tiny"]) /\ conn' = conn /\ rio' = rio
    BY <1>0, <1>2, <1>5, GotoGoes
  <2>2. SetTask("tiny", task["tiny"])
    BY <1>0, <1>2, <1>5, Unset
  <2>3. \A w \in Workers : ~(Live(w) /\ Serves(w))
    BY <1>3, <1>5
  <2> QED BY <1>1, <1>2, <2>1, <2>2, <2>3, GoesOn
<1>6. CASE /\ \/ call["tiny"].ret = "ok" /\ Data("tiny") = <<NL>>
              \/ call["tiny"].ret = "eof" /\ task["tiny"].line = <<>>
           /\ Goto("tiny", "serve") /\ UNCHANGED <<rvars, task>>
  <2>1. Goes("tiny", "serve", call["tiny"]) /\ conn' = conn /\ rio' = rio
    BY <1>0, <1>2, <1>6, GotoGoes
  <2>2. SetTask("tiny", task["tiny"])
    BY <1>0, <1>2, <1>6, Unset
  <2>3. \A w \in Workers : Live(w) /\ Serves(w) => TalksAs(w, "serve", call["tiny"], task["tiny"].path)
    BY <1>3, <1>6 DEF TalksAs
  <2> QED BY <1>1, <1>2, <2>1, <2>2, <2>3, GoesOn
<1> QED BY <1>4, <1>5, <1>6 DEF TinyReadHdrs

(* Tiny has written the first part of its answer, or all of it.            *)
LEMMA WrittenServed ==
    ASSUME WebInv, NEW w \in Workers, Live(w), Serves(w), "tiny" \in up,
           pc["tiny"] \in {"error", "open", "last"}, call["tiny"].ret = "ok"
    PROVE  /\ Unread(rio["tiny"]) = <<>> /\ Asking(w) = <<>>
           /\ pc["tiny"] = "error" => \E code \in {"404", "403"} : Received(w) = ErrorHeader(code)
           /\ pc["tiny"] = "open" => /\ task["tiny"].path = task[w].path
                                     /\ Received(w) = Header(task[w].path)
           /\ pc["tiny"] = "last" => Received(w) \in Answers(task[w].path)
<1>0. StaticInv
  BY DEF WebInv
<1>1. Talks(w)
  BY Served
<1>2. /\ Starts(call["tiny"])
      /\ TinyIs(pc["tiny"], call["tiny"], task["tiny"], rio["tiny"], conn, "tiny" \in up, backlog["tiny"])
  BY <1>0, TinyFacts
<1>3. Data("tiny") = <<>>
  BY <1>2 DEF TinyIs, Starts, Written, Data
<1>4. Received(w) \o Data("tiny") = Received(w)
  <2>1. Received(w) \in Text
    BY <1>0, LiveFacts
  <2> QED BY <1>3, <2>1, TextEmpty
<1> QED BY <1>1, <1>4 DEF Talks

LEMMA TinyServeInv ==
    ASSUME WebInv, TinyServe
    PROVE  WebInv'
<1>0. StaticInv
  BY DEF WebInv
<1> DEFINE path == task["tiny"].path
<1>1. pc["tiny"] = "serve" /\ task' = task /\ UNCHANGED shared
  BY DEF TinyServe
<1>2. /\ "tiny" \in Workers \cup {"tiny"} /\ task["tiny"] \in Task /\ "tiny" \in up
      /\ files \in SUBSET Files
  BY <1>0, <1>1, TinyFacts DEF TinyIs, StaticInv, Types
<1>3. SetTask("tiny", task["tiny"])
  BY <1>0, <1>1, <1>2, Unset
<1>4. ASSUME NEW w \in Workers, Live(w), Serves(w)
      PROVE  /\ Unread(rio["tiny"]) = <<>> /\ Asking(w) = <<>> /\ Received(w) = <<>>
             /\ path = task[w].path /\ Static(path)
  <2>1. Talks(w)
    BY <1>2, <1>4, Served
  <2>2. WorkerIs(w, pc[w], call[w], task[w], conn) /\ pc[w] \in {"send", "reply", "body"}
    BY <1>0, <1>4, LiveFacts
  <2>3. Static(task[w].path)
    BY <2>2 DEF WorkerIs
  <2> QED BY <1>1, <2>1, <2>3 DEF Talks
<1>5. \A data \in Text : <<>> \o data = data
  BY TextEmpty
<1>6. ASSUME NEW data \in Text, NEW at \in {"error", "status", "open"},
             Continue("tiny", at, WriteN(TinyFd, data)),
             at \in {"status", "open"} => path \in Files,
             \A w \in Workers : Live(w) /\ Serves(w) =>
                /\ at \in {"error", "open"}
                /\ at = "open" => data = Header(path)
                /\ at = "error" => \E code \in {"404", "403"} : data = ErrorHeader(code)
      PROVE  WebInv'
  <2>1. PICK c : c = WriteN(TinyFd, data)
    OBVIOUS
  <2>2. /\ Starts(c) /\ c.op = "write" /\ c.fd = call["tiny"].fd /\ c.data = data /\ c.ret = "none"
    BY <1>0, <2>1, TinyCalls
  <2>3. Goes("tiny", at, c) /\ conn' = conn /\ rio' = rio
    BY <1>6, <2>1, ContinueGoes
  <2>4. \A w \in Workers : Live(w) /\ Serves(w) => TalksAs(w, at, c, task["tiny"].path)
    <3> SUFFICES ASSUME NEW w \in Workers, Live(w), Serves(w)
                 PROVE  TalksAs(w, at, c, task["tiny"].path)
      OBVIOUS
    <3>1. Received(w) \o c.data = data
      BY <1>4, <1>5, <2>2
    <3> QED BY <1>4, <1>6, <2>2, <3>1 DEF TalksAs
  <2> QED BY <1>1, <1>3, <1>6, <1>2, <2>2, <2>3, <2>4, GoesOn
<1>7. CASE \E code \in {"404", "403"} : Continue("tiny", "error", WriteN(TinyFd, ErrorHeader(code)))
  <2>1. PICK code \in {"404", "403"} : Continue("tiny", "error", WriteN(TinyFd, ErrorHeader(code)))
    BY <1>7
  <2>2. ErrorHeader(code) \in Text
    BY LinesTyped
  <2> QED BY <1>6, <2>1, <2>2
<1>8. CASE path \in files /\ Dynamic(path) /\ Continue("tiny", "status", WriteN(TinyFd, Ok(path)))
  <2>1. path \in Files /\ Ok(path) \in Text
    BY <1>2, <1>8, BodyTyped
  <2>2. \A w \in Workers : ~(Live(w) /\ Serves(w))
    BY <1>4, <1>8, <2>1 DEF Static
  <2> QED BY <1>6, <1>8, <2>1, <2>2
<1>9. CASE path \in files /\ Continue("tiny", "open", WriteN(TinyFd, Header(path)))
  <2>1. path \in Files /\ Header(path) \in Text
    BY <1>2, <1>9, BodyTyped
  <2> QED BY <1>6, <1>9, <2>1
<1>10. \/ path \notin files /\ Continue("tiny", "error", WriteN(TinyFd, ErrorHeader("404")))
       \/ Continue("tiny", "error", WriteN(TinyFd, ErrorHeader("403")))
       \/ path \in files /\ Dynamic(path) /\ Continue("tiny", "status", WriteN(TinyFd, Ok(path)))
       \/ path \in files /\ Continue("tiny", "open", WriteN(TinyFd, Header(path)))
  BY Zenon DEF TinyServe
<1> QED BY <1>7, <1>8, <1>9, <1>10

(* The second of two writes.                                               *)
LEMMA TinyGoesOnInv ==
    ASSUME WebInv, TinyGoesOn
    PROVE  WebInv'
<1>0. StaticInv
  BY DEF WebInv
<1>1. call["tiny"].ret = "ok" /\ task' = task /\ UNCHANGED shared
  BY DEF TinyGoesOn
<1>2. PICK at \in {"last", "fork"}, data \in {ErrorBody, ServerLine} :
          /\ Continue("tiny", at, WriteN(TinyFd, data))
          /\ \/ at = "last" /\ data = ErrorBody /\ pc["tiny"] = "error"
             \/ at = "fork" /\ pc["tiny"] = "status"
  BY DEF TinyGoesOn, At
<1>3. /\ "tiny" \in Workers \cup {"tiny"} /\ task["tiny"] \in Task /\ "tiny" \in up
      /\ at = "fork" => task["tiny"].path \in Files
  BY <1>0, <1>2, TinyFacts DEF TinyIs
<1>4. SetTask("tiny", task["tiny"])
  BY <1>0, <1>1, <1>3, Unset
<1>5. data \in Text
  BY <1>2, LinesTyped
<1>6. PICK c : c = WriteN(TinyFd, data)
  OBVIOUS
<1>7. /\ Starts(c) /\ c.op = "write" /\ c.fd = call["tiny"].fd /\ c.data = data /\ c.ret = "none"
  BY <1>0, <1>5, <1>6, TinyCalls
<1>8. Goes("tiny", at, c) /\ conn' = conn /\ rio' = rio
  BY <1>2, <1>6, ContinueGoes
<1>9. ASSUME NEW w \in Workers, Live(w), Serves(w)
      PROVE  TalksAs(w, at, c, task["tiny"].path)
  <2>1. Talks(w)
    BY <1>3, <1>9, Served
  <2>2. at = "last" /\ data = ErrorBody /\ pc["tiny"] = "error"
    BY <1>2, <2>1 DEF Talks
  <2>3. /\ Unread(rio["tiny"]) = <<>> /\ Asking(w) = <<>>
        /\ \E code \in {"404", "403"} : Received(w) = ErrorHeader(code)
    BY <1>1, <1>3, <1>9, <2>2, WrittenServed
  <2>4. Received(w) \o c.data \in Answers(task[w].path)
    BY <1>7, <2>2, <2>3 DEF Answers, ClientError
  <2> QED BY <1>7, <2>2, <2>3, <2>4 DEF TalksAs
<1>10. /\ pc["tiny"] \notin {"accept", "dead", "wait", "endless"}
       /\ at \in {"headers", "serve", "error", "status", "open", "fork", "last", "endless"}
  BY <1>2
<1> QED BY <1>1, <1>2, <1>3, <1>4, <1>7, <1>8, <1>9, <1>10, GoesOn

LEMMA TinyOpenInv ==
    ASSUME WebInv, TinyOpen
    PROVE  WebInv'
<1>0. StaticInv
  BY DEF WebInv
<1> DEFINE path == task["tiny"].path
<1>1. pc["tiny"] = "open" /\ call["tiny"].ret = "ok"
  BY DEF TinyOpen, At
<1>2. CASE Dies("tiny")
  BY <1>2, TinyDies
<1>3. CASE path \in files /\ Continue("tiny", "last", WriteN(TinyFd, Body(path))) /\ UNCHANGED <<task, shared>>
  <2>1. /\ "tiny" \in Workers \cup {"tiny"} /\ task["tiny"] \in Task /\ "tiny" \in up
        /\ path \in Files
    BY <1>0, <1>1, <1>3, TinyFacts DEF TinyIs, StaticInv, Types
  <2>2. SetTask("tiny", task["tiny"]) /\ UNCHANGED shared
    BY <1>0, <1>3, <2>1, Unset
  <2>3. Body(path) \in Text
    BY <2>1, BodyTyped
  <2>4. PICK c : c = WriteN(TinyFd, Body(path))
    OBVIOUS
  <2>5. /\ Starts(c) /\ c.op = "write" /\ c.fd = call["tiny"].fd /\ c.data = Body(path) /\ c.ret = "none"
    BY <1>0, <2>3, <2>4, TinyCalls
  <2>6. Goes("tiny", "last", c) /\ conn' = conn /\ rio' = rio
    BY <1>3, <2>4, ContinueGoes
  <2>7. \A w \in Workers : Live(w) /\ Serves(w) => TalksAs(w, "last", c, task["tiny"].path)
    <3> SUFFICES ASSUME NEW w \in Workers, Live(w), Serves(w)
                 PROVE  TalksAs(w, "last", c, task["tiny"].path)
      OBVIOUS
    <3>1. /\ Unread(rio["tiny"]) = <<>> /\ Asking(w) = <<>> /\ path = task[w].path
          /\ Received(w) = Header(task[w].path)
      BY <1>1, <2>1, WrittenServed
    <3>2. Received(w) \o c.data = ServeStatic(task[w].path)
      BY <2>5, <3>1 DEF ServeStatic
    <3>3. ServeStatic(task[w].path) \in Answers(task[w].path)
      BY <2>1, <3>1 DEF Answers
    <3> QED BY <2>5, <3>1, <3>2, <3>3 DEF TalksAs
  <2> QED BY <1>1, <2>1, <2>2, <2>5, <2>6, <2>7, GoesOn
<1> QED BY <1>2, <1>3 DEF TinyOpen

LEMMA TinyDoneInv ==
    ASSUME WebInv, TinyDone \/ TinyWait
    PROVE  WebInv'
<1>0. StaticInv
  BY DEF WebInv
<1>1. TinyClose /\ pc["tiny"] \in {"last", "wait"} /\ (pc["tiny"] = "last" => call["tiny"].ret = "ok")
  BY DEF TinyDone, TinyWait, At
<1>2. "tiny" \in up
  BY <1>0, <1>1, TinyFacts DEF TinyIs
<1>3. ASSUME NEW w \in Workers, Live(w), Serves(w)
      PROVE  Asking(w) = <<>> /\ Received(w) \in Answers(task[w].path)
  <2>1. Talks(w)
    BY <1>2, <1>3, Served
  <2>2. pc["tiny"] = "last"
    BY <1>1, <2>1 DEF Talks
  <2> QED BY <1>1, <1>2, <1>3, <2>2, WrittenServed
<1> QED BY <1>1, <1>3, TinyCloses

(* The program begins: it answers none of the workers.                     *)
LEMMA TinyForkInv ==
    ASSUME WebInv, TinyFork
    PROVE  WebInv'
<1>0. StaticInv
  BY DEF WebInv
<1>1. /\ pc["tiny"] = "fork" /\ call["tiny"].ret = "ok"
      /\ pc' = [pc EXCEPT !["tiny"] = "wait", !["cgi"] = "running"]
      /\ call' = [call EXCEPT !["cgi"] = WriteN(TinyFd, AdderOutput(task["tiny"].path))]
      /\ conn' = conn /\ rio' = rio /\ task' = task
      /\ scenario' = scenario /\ up' = up /\ backlog' = backlog /\ cache' = cache /\ files' = files
  BY DEF TinyFork, At, shared
<1>2. /\ "tiny" \in Process /\ "cgi" \in Process /\ "tiny" # "cgi" /\ "tiny" \notin Workers
      /\ TinyIs("fork", call["tiny"], task["tiny"], rio["tiny"], conn, "tiny" \in up, backlog["tiny"])
      /\ RioInv /\ TinyFd \in Descriptor /\ InRange(call["tiny"], conn)
      /\ pc \in [Process -> Labels]
  BY <1>0, <1>1, TinyFacts, Kinds DEF StaticInv, Types
<1>3. /\ TinyFd # NoFd /\ TinyFd.side = "acceptor" /\ conn[TinyFd.conn].to = "tiny"
      /\ ~Waits(backlog["tiny"], TinyFd.conn) /\ task["tiny"].path \in Files /\ "tiny" \in up
      /\ TinyFd.conn \in 1 .. Len(conn) /\ TinyFd = call["tiny"].fd
  BY <1>2 DEF TinyIs, TinyFd, InRange
<1>4. PICK c : c = WriteN(TinyFd, AdderOutput(task["tiny"].path))
  OBVIOUS
<1>5. Starts(c) /\ c.op = "write" /\ c.fd = TinyFd /\ c \in Calling
  <2>1. AdderOutput(task["tiny"].path) \in Text
    BY <1>3, BodyTyped
  <2> QED BY <1>0, <1>3, <1>4, <2>1, TinyCalls DEF Starts
<1>6. /\ pc' \in [Process -> Labels] /\ pc'["tiny"] = "wait" /\ pc'["cgi"] = "running"
      /\ \A q \in Process \ {"tiny", "cgi"} : pc'[q] = pc[q]
  BY <1>1, <1>2 DEF Labels
<1>7. /\ call' \in [Process -> Calling] /\ call'["cgi"] = c
      /\ \A q \in Process \ {"cgi"} : call'[q] = call[q]
  BY <1>1, <1>2, <1>4, <1>5 DEF RioInv
<1>8. RioInv'
  <2>1. ASSUME NEW q \in Process PROVE CallInv(call[q])'
    <3>1. CASE q = "cgi"
      BY <1>1, <1>3, <1>5, <1>7, <3>1 DEF CallInv, Starts
    <3>2. CASE q # "cgi"
      <4>1. call'[q] = call[q] /\ CallInv(call[q])
        BY <1>2, <1>7, <3>2 DEF RioInv
      <4> QED BY <1>1, <4>1 DEF CallInv
    <3> QED BY <3>1, <3>2
  <2> QED BY <1>1, <1>2, <1>7, <2>1 DEF RioInv
<1>9. Types'
  BY <1>0, <1>1, <1>6 DEF StaticInv, Types
<1>10. \A w \in Workers : /\ pc'[w] = pc[w] /\ call'[w] = call[w] /\ rio'[w] = rio[w]
                          /\ task'[w] = task[w] /\ w \in Process /\ w # "cgi"
  BY <1>1, <1>6, <1>7, Kinds
<1>11. ASSUME NEW w \in Workers, Live(w) PROVE ~Serves(w)
  <2>1. Serves(w) => Talks(w)
    BY <1>3, <1>11, Served
  <2> QED BY <1>1, <2>1 DEF Talks
<1>12. ASSUME NEW w \in Workers
       PROVE  /\ WorkerIs(w, pc'[w], call'[w], task'[w], conn')
              /\ AloneIs(w, pc'[w], call'[w], pc'["cgi"], call'["cgi"])
  <2>1. WorkerIs(w, pc'[w], call'[w], task'[w], conn')
    BY <1>0, <1>1, <1>10 DEF StaticInv
  <2>2. Linked(pc'[w], call'[w]) => call'[w].fd.conn # call'["cgi"].fd.conn
    BY <1>1, <1>3, <1>5, <1>7, <1>10, <1>11 DEF Live, Serves, Opener
  <2> QED BY <2>1, <2>2 DEF AloneIs
<1>13. TinyIs(pc'["tiny"], call'["tiny"], task'["tiny"], rio'["tiny"], conn', "tiny" \in up', backlog'["tiny"])
  <2>1. call'["tiny"] = call["tiny"]
    BY <1>2, <1>7
  <2> QED BY <1>1, <1>3, <1>6, <2>1 DEF TinyIs
<1>14. CgiIs(pc'["cgi"], call'["cgi"], conn')
  BY <1>1, <1>3, <1>5, <1>6, <1>7 DEF CgiIs
<1>15. \A p \in Clients : ClientIs(p, call'[p], conn')
  <2> SUFFICES ASSUME NEW p \in Clients PROVE ClientIs(p, call'[p], conn')
    OBVIOUS
  <2>1. call'[p] = call[p]
    BY <1>7, Kinds
  <2> QED BY <1>0, <1>1, <2>1 DEF StaticInv
<1>16. \A s \in Servers : Queued(s, backlog'[s], conn')
  BY <1>0, <1>1 DEF StaticInv
<1>17. StaticInv'
  BY <1>8, <1>9, <1>12, <1>13, <1>14, <1>15, <1>16 DEF StaticInv
<1>18. CacheInv'
  BY <1>1, CacheKept DEF WebInv
<1>19. ASSUME NEW w \in Workers PROVE (Live(w) => UpIs(w))' /\ ReadIs(w)'
  <2>1. (Live(w) => UpIs(w)) /\ ReadIs(w)
    BY DEF WebInv
  <2>0. /\ pc'[w] = pc[w] /\ call'[w] = call[w] /\ rio'[w] = rio[w] /\ task'[w] = task[w]
        /\ conn' = conn
    BY <1>1, <1>10
  <2>2. /\ Live(w)' = Live(w) /\ Opener(w)' = Opener(w) /\ Data(w)' = Data(w)
        /\ Pending(w)' = Pending(w) /\ Answering(w)' = Answering(w) /\ Ahead(w)' = Ahead(w)
    BY <2>0 DEF Live, Opener, Data, Pending, Answering, Ahead, Incoming
  <2>3. Received(w)' = Received(w) /\ Asking(w)' = Asking(w)
    BY <2>0, <2>2 DEF Received, Asking, Opener
  <2>4. ReadIs(w)'
    BY <1>1, <1>10, <2>1, <2>2 DEF ReadIs
  <2>5. ASSUME Live(w) PROVE UpIs(w)'
    <3>1. ~Serves(w) /\ UpIs(w)
      BY <1>11, <2>1, <2>5
    <3>2. call'["tiny"].fd.conn = call["tiny"].fd.conn
      BY <1>2, <1>7
    <3>3. ~Serves(w)'
      BY <1>1, <2>2, <3>1, <3>2 DEF Serves
    <3>4. InBacklog(w) => InBacklog(w)'
      BY <1>1, <1>10, <2>2, <2>3 DEF InBacklog
    <3>5. Answered0(w) => Answered0(w)'
      BY <1>1, <1>10, <2>2, <2>3, <3>3 DEF Answered0
    <3>6. InBacklog(w) \/ Answered0(w)
      BY <1>3, <3>1 DEF UpIs, InService
    <3> QED BY <1>1, <1>3, <1>10, <2>2, <2>3, <3>1, <3>4, <3>5, <3>6 DEF UpIs
  <2> QED BY <2>2, <2>4, <2>5
<1> QED BY <1>17, <1>18, <1>19 DEF WebInv

LEMMA TinyInv ==
    ASSUME WebInv, Tiny
    PROVE  WebInv'
<1>1. CASE TinyFails
  BY <1>1, TinyDies DEF TinyFails
<1> QED BY <1>1, TinyAcceptInv, TinyDoitInv, TinyReadHdrsInv, TinyServeInv, TinyGoesOnInv, TinyOpenInv, TinyForkInv,
           TinyDoneInv, TinyRioInv DEF Tiny

(* A client or the program: its step changes no worker's part.              *)
LEMMA OtherInv ==
    ASSUME WebInv, NEW p \in Clients \cup {"cgi"}, StaticInv', StepBy(p), cache' = cache,
           \A i \in 1 .. Len(conn) : Waits(backlog["tiny"], i) => Waits(backlog'["tiny"], i),
           p = "cgi" => pc[p] = "running"
    PROVE  WebInv'
<1>1. p \in Process \ {"tiny"} /\ p \notin Workers
  BY Kinds
<1>2. CacheInv'
  BY CacheKept DEF WebInv, StepBy
<1> QED BY <1>1, <1>2, InvAgain

LEMMA OtherFacts ==
    ASSUME StaticInv, NEW p \in Process
    PROVE  /\ Starts(call[p]) /\ InRange(call[p], conn) /\ call[p].fd \in Descriptor
           /\ backlog \in [Servers -> Seq(Nat)] /\ \A s \in Servers : Queued(s, backlog[s], conn)
           /\ task \in [Workers \cup {"tiny"} -> Task] /\ call \in [Process -> Calling]
<1>1. CallInv(call[p]) /\ call[p].fd \in Descriptor
  BY RioParts DEF StaticInv
<1>2. Starts(call[p]) /\ InRange(call[p], conn)
  BY <1>1 DEF CallInv, Starts, InRange
<1> QED BY <1>1, <1>2 DEF StaticInv, Types, RioInv

LEMMA AdderInv ==
    ASSUME WebInv, Adder
    PROVE  WebInv'
<1>0. StaticInv
  BY DEF WebInv
<1>1. "cgi" \in Process /\ "cgi" \in Clients \cup {"cgi"} /\ "cgi" \notin Workers
      /\ "cgi" \notin Clients /\ "cgi" # "tiny" /\ "none" \in Labels
  BY Kinds DEF Labels
<1>2. CASE pc["cgi"] = "running" /\ (Write("cgi") \/ WriteFails("cgi")) /\ UNCHANGED wvars
  <2>1. RioStep("cgi")
    BY <1>2 DEF RioStep
  <2>2. StaticInv' /\ StepBy("cgi")
    BY <1>0, <1>1, <1>2, <2>1, RioStatic
  <2>3. backlog' = backlog /\ cache' = cache
    BY <1>2 DEF wvars, shared
  <2> QED BY <1>1, <1>2, <2>2, <2>3, OtherInv
<1>3. CASE /\ At("cgi", "running") /\ UNCHANGED <<task, shared>>
           /\ Continue("cgi", "none", NoCall) \/ Closed("cgi", "none", call["cgi"].fd)
  <2>1. /\ pc["cgi"] = "running" /\ task' = task
        /\ scenario' = scenario /\ up' = up /\ backlog' = backlog /\ cache' = cache /\ files' = files
    BY <1>3 DEF At, shared
  <2>2. Starts(NoCall) /\ NoCall.fd = NoFd /\ InRange(NoCall, conn) /\ CgiIs("none", NoCall, conn)
    BY CallFacts DEF InRange, CgiIs
  <2>3. /\ backlog \in [Servers -> Seq(Nat)] /\ \A s \in Servers : Queued(s, backlog[s], conn)
        /\ task \in [Workers \cup {"tiny"} -> Task]
    BY <1>0, <1>1, OtherFacts
  <2>4. Serving /\ Tasks("cgi")
    BY <2>1, <2>3 DEF Serving, Tasks
  <2>5. CASE Continue("cgi", "none", NoCall)
    <3>1. Goes("cgi", "none", NoCall) /\ conn' = conn
      BY <2>5, ContinueGoes
    <3>2. StaticInv' /\ StepBy("cgi")
      BY <1>0, <1>1, <2>1, <2>2, <2>3, <2>4, <3>1, Local
    <3> QED BY <1>1, <2>1, <3>2, OtherInv
  <2>6. CASE Closed("cgi", "none", call["cgi"].fd)
    <3>1. Goes("cgi", "none", NoCall) /\ conn' \in AfterClose({call["cgi"].fd})
      BY <2>6 DEF Closed, Goes, Goto
    <3>2. StaticInv' /\ StepBy("cgi")
      BY <1>0, <1>1, <2>1, <2>2, <2>3, <2>4, <3>1, CloseStep
    <3> QED BY <1>1, <2>1, <3>2, OtherInv
  <2> QED BY <1>3, <2>5, <2>6
<1> QED BY <1>2, <1>3 DEF Adder

LEMMA ClientConnectInv ==
    ASSUME WebInv, NEW p \in Clients, ClientConnect(p)
    PROVE  WebInv'
<1>0. StaticInv
  BY DEF WebInv
<1> DEFINE server == scenario.does[p].to
           data == SubSeq(Request(scenario.does[p]), 1, scenario.does[p].sends)
<1>1. /\ Connected(p, server, "sent", WriteN(NoFd, data))
      /\ scenario' = scenario /\ task' = task /\ up' = up /\ cache' = cache /\ files' = files
  BY DEF ClientConnect
<1>2. /\ p \in Process /\ p # "tiny" /\ p # "cgi" /\ p \notin Workers
      /\ p \in Clients \cup Workers /\ p \in Clients \cup {"cgi"} /\ "sent" \in Labels
      /\ "tiny" \in Servers
  BY Kinds DEF Labels
<1>3. scenario \in Scenarios /\ up \in SUBSET Servers
  BY <1>0 DEF StaticInv, Types
<1>4. data \in Text
  BY <1>3, RequestTyped
<1>5. /\ backlog \in [Servers -> Seq(Nat)] /\ \A s \in Servers : Queued(s, backlog[s], conn)
      /\ task \in [Workers \cup {"tiny"} -> Task] /\ conn \in Seq(Link)
  BY <1>0, <1>2, OtherFacts DEF StaticInv, RioInv
<1> HIDE DEF data, server
<1>6. CASE server \in up
  <2>1. PICK c : c = WriteN(Fd(Len(conn) + 1, "opener"), data)
    OBVIOUS
  <2>2. Fd(Len(conn) + 1, "opener") \in Descriptor
    <3>1. Len(conn) + 1 \in Nat
      BY <1>5, LenProperties
    <3> QED BY <3>1, DescriptorFacts, Ends
  <2>3. Starts(c) /\ c.fd = Fd(Len(conn) + 1, "opener")
    BY <1>4, <2>1, <2>2, CallFacts
  <2>4. /\ pc' = [pc EXCEPT ![p] = "sent"]
        /\ call' = [call EXCEPT ![p] = [WriteN(NoFd, data) EXCEPT !.fd = Fd(Len(conn) + 1, "opener")]]
        /\ conn' = Append(conn, Fresh(p, server)) /\ rio' = rio
        /\ backlog' = [backlog EXCEPT ![server] = Append(@, Len(conn) + 1)]
    BY <1>1, <1>6 DEF Connected, Goto
  <2>5. Goes(p, "sent", c)
    BY <2>1, <2>4, MessageTo DEF Goes
  <2>6. backlog' = Joined(server)
    BY <2>4 DEF Joined
  <2>7. conn' = Append(conn, Fresh(p, server)) /\ Serving /\ task' = task /\ server \in Servers
    BY <1>1, <1>3, <1>6, <2>4 DEF Serving
  <2>8. /\ StaticInv' /\ StepBy(p)
        /\ backlog'["tiny"] = IF server = "tiny" THEN Append(backlog["tiny"], Len(conn) + 1)
                                                 ELSE backlog["tiny"]
    BY <1>0, <1>2, <2>3, <2>5, <2>6, <2>7, OpenStep
  <2>9. \A i \in 1 .. Len(conn) : Waits(backlog["tiny"], i) => Waits(backlog'["tiny"], i)
    <3>1. backlog["tiny"] \in Seq(Nat) /\ Len(conn) + 1 \in Nat
      BY <1>2, <1>5, LenProperties
    <3>2. \A i : Waits(backlog["tiny"], i) => Waits(Append(backlog["tiny"], Len(conn) + 1), i)
      BY <3>1, WaitsOneMore
    <3> QED BY <2>8, <3>2
  <2> QED BY <1>1, <1>2, <2>8, <2>9, OtherInv
<1>7. CASE server \notin up
  <2>1. PICK c : c = WriteN(NoFd, data)
    OBVIOUS
  <2>2. Starts(c) /\ c.fd = NoFd /\ InRange(c, conn) /\ ClientIs(p, c, conn)
    BY <1>4, <2>1, CallFacts, DescriptorFacts DEF InRange, ClientIs
  <2>3. /\ pc' = [pc EXCEPT ![p] = "sent"]
        /\ call' = [call EXCEPT ![p] = [WriteN(NoFd, data) EXCEPT !.fd = NoFd]]
        /\ conn' = conn /\ rio' = rio /\ backlog' = backlog
    BY <1>1, <1>7 DEF Connected, Goto
  <2>4. Goes(p, "sent", c)
    BY <2>1, <2>3, MessageTo DEF Goes
  <2>5. Serving /\ Tasks(p)
    BY <1>1, <1>5 DEF Serving, Tasks
  <2>6. StaticInv' /\ StepBy(p)
    BY <1>0, <1>2, <1>5, <2>2, <2>3, <2>4, <2>5, Local
  <2> QED BY <1>1, <1>2, <2>3, <2>6, OtherInv
<1> QED BY <1>6, <1>7

LEMMA ClientInv ==
    ASSUME WebInv, NEW p \in Clients, Client(p)
    PROVE  WebInv'
<1>0. StaticInv
  BY DEF WebInv
<1>1. /\ p \in Process /\ p # "tiny" /\ p # "cgi" /\ p \notin Workers /\ p \in Clients \cup {"cgi"}
      /\ "ended" \in Labels /\ "receive" \in Labels
  BY Kinds DEF Labels
<1>2. /\ backlog \in [Servers -> Seq(Nat)] /\ \A s \in Servers : Queued(s, backlog[s], conn)
      /\ task \in [Workers \cup {"tiny"} -> Task] /\ call \in [Process -> Calling]
      /\ Starts(call[p]) /\ InRange(call[p], conn) /\ call[p].fd \in Descriptor
      /\ ClientIs(p, call[p], conn)
  BY <1>0, <1>1, OtherFacts DEF StaticInv
<1>3. CASE ClientConnect(p)
  BY <1>3, ClientConnectInv
<1>4. CASE ClientReceive(p)
  <2>1. /\ Continue(p, "receive", ReadN(call[p].fd, LongerThanAny)) /\ task' = task
        /\ scenario' = scenario /\ up' = up /\ backlog' = backlog /\ cache' = cache /\ files' = files
    BY <1>4 DEF ClientReceive, shared
  <2>2. PICK c : c = ReadN(call[p].fd, LongerThanAny)
    OBVIOUS
  <2>3. Starts(c) /\ c.fd = call[p].fd
    BY <1>2, <2>2, CallFacts DEF LongerThanAny
  <2>4. InRange(c, conn) /\ ClientIs(p, c, conn)
    BY <1>2, <2>3 DEF InRange, ClientIs
  <2>5. Goes(p, "receive", c) /\ conn' = conn
    BY <2>1, <2>2, ContinueGoes
  <2>6. Serving /\ Tasks(p)
    BY <1>2, <2>1 DEF Serving, Tasks
  <2>7. StaticInv' /\ StepBy(p)
    BY <1>0, <1>1, <1>2, <2>1, <2>3, <2>4, <2>5, <2>6, Local
  <2> QED BY <1>1, <2>1, <2>7, OtherInv
<1>5. CASE ClientEnd(p)
  <2>1. /\ pc' = [pc EXCEPT ![p] = "ended"] /\ conn' \in AfterClose({call[p].fd})
        /\ rio' = [rio EXCEPT ![p] = EmptyRio] /\ call' = call /\ task' = task
        /\ scenario' = scenario /\ up' = up /\ backlog' = backlog /\ cache' = cache /\ files' = files
    BY <1>5 DEF ClientEnd, Goto, shared
  <2>2. call' = [call EXCEPT ![p] = call[p]]
    BY <1>2, <2>1
  <2>3. Goes(p, "ended", call[p])
    BY <2>1, <2>2 DEF Goes
  <2>4. Serving /\ Tasks(p)
    BY <1>2, <2>1 DEF Serving, Tasks
  <2>5. StaticInv' /\ StepBy(p)
    BY <1>0, <1>1, <1>2, <2>1, <2>3, <2>4, CloseStep
  <2> QED BY <1>1, <2>1, <2>5, OtherInv
<1>6. CASE RioStep(p) /\ UNCHANGED wvars
  <2>1. StaticInv' /\ StepBy(p)
    BY <1>0, <1>1, <1>6, RioStatic
  <2>2. backlog' = backlog /\ cache' = cache
    BY <1>6 DEF wvars, shared
  <2> QED BY <1>1, <2>1, <2>2, OtherInv
<1> QED BY <1>3, <1>4, <1>5, <1>6 DEF Client

(* A file is removed, or nothing happens.                                  *)
LEMMA FilesFewer ==
    ASSUME WebInv, files' \in SUBSET files,
           UNCHANGED <<rvars, scenario, pc, task, up, backlog, cache>>
    PROVE  WebInv'
<1>0. StaticInv
  BY DEF WebInv
<1>1. /\ conn' = conn /\ rio' = rio /\ call' = call /\ scenario' = scenario /\ pc' = pc
      /\ task' = task /\ up' = up /\ backlog' = backlog /\ cache' = cache
  BY DEF rvars
<1>2. "tiny" \in Process /\ "tiny" \notin Workers /\ "tiny" \notin Clients /\ "tiny" # "cgi"
  BY Kinds
<1>3. Len(conn) \in Nat
  BY <1>0, LenProperties DEF StaticInv, RioInv
<1>4. StepBy("tiny")
  BY <1>1, <1>3 DEF StepBy, Grown
<1>5. RioInv'
  BY <1>0, <1>1 DEF StaticInv, RioInv, CallInv
<1>6. Types'
  BY <1>0, <1>1 DEF StaticInv, Types
<1>7. /\ \A s \in Servers : Queued(s, backlog'[s], conn')
      /\ \A w \in Workers \ {"tiny"} : Linked(pc[w], call[w]) => conn'[call[w].fd.conn].open["opener"]
      /\ TinyIs(pc'["tiny"], call'["tiny"], task'["tiny"], rio'["tiny"], conn', "tiny" \in up,
                backlog'["tiny"])
  BY <1>0, <1>1 DEF StaticInv, WorkerIs
<1>8. StaticInv'
  BY <1>0, <1>2, <1>4, <1>5, <1>6, <1>7, StaticAgain
<1>9. CacheInv'
  BY <1>1, CacheKept DEF WebInv
<1>10. ASSUME NEW w \in Workers PROVE (Live(w) => UpIs(w))' /\ ReadIs(w)'
  <2>1. Unmoved(w)
    BY <1>1 DEF Unmoved
  <2>2. (Live(w) => UpIs(w)) /\ ReadIs(w)
    BY DEF WebInv
  <2> QED BY <1>0, <2>1, <2>2, UnmovedKept
<1> QED BY <1>8, <1>9, <1>10 DEF WebInv

(* The initial states.                                                     *)
LEMMA WebInit ==
    ASSUME Init
    PROVE  WebInv
<1>1. /\ conn = <<>> /\ rio = [p \in Process |-> EmptyRio] /\ call = [p \in Process |-> NoCall]
      /\ scenario \in Scenarios /\ task = [p \in Workers \cup {"tiny"} |-> NoTask]
      /\ up = Servers /\ backlog = [server \in Servers |-> <<>>] /\ cache = <<>> /\ files = Files
  BY DEF Init
<1>2. /\ pc \in [Process -> Labels] /\ pc["tiny"] = "accept" /\ pc["cgi"] = "none"
      /\ \A w \in Workers : pc[w] = "idle"
  <2>1. pc = [p \in Process |-> CASE p \in Clients -> IF scenario.does[p].sends = 0 THEN "ended" ELSE "start"
                                  [] p \in Workers -> "idle"
                                  [] p = "tiny" -> "accept" [] p = "cgi" -> "none"]
    BY DEF Init
  <2>2. Process = Clients \cup Workers \cup {"tiny", "cgi"}
    BY ProcessAssumption
  <2>3. \A p \in Clients : pc[p] \in {"ended", "start"}
    BY <2>1, <2>2, Kinds
  <2>4. \A w \in Workers : pc[w] = "idle"
    BY <2>1, <2>2, Kinds
  <2>5. pc["tiny"] = "accept" /\ pc["cgi"] = "none"
    BY <2>1, <2>2, Kinds
  <2>6. \A p \in Process : pc[p] \in Labels
    BY <2>2, <2>3, <2>4, <2>5 DEF Labels
  <2> QED BY <2>1, <2>4, <2>5, <2>6
<1>3. /\ conn \in Seq(Link) /\ Len(conn) = 0
      /\ \A p \in Process : rio[p] = EmptyRio /\ call[p] = NoCall
  BY <1>1, EmptySeq
<1>4. /\ Starts(NoCall) /\ NoCall.fd = NoFd /\ NoCall \in Calling /\ NoCall.ret # "none"
  BY CallFacts DEF Starts, NoCall, Call
<1>5. RioInv
  <2>1. BufferInv(EmptyRio) /\ EmptyRio \in Buffer
    BY EmptyRioFacts
  <2>2. CallInv(NoCall)
    BY <1>4 DEF CallInv, Starts
  <2>3. rio \in [Process -> Buffer] /\ call \in [Process -> Calling]
    BY <1>1, <1>4, <2>1
  <2> QED BY <1>3, <2>1, <2>2, <2>3 DEF RioInv
<1>6. Types
  <2>1. backlog \in [Servers -> Seq(Nat)]
    BY <1>1, EmptySeq
  <2>2. task \in [Workers \cup {"tiny"} -> Task]
    BY <1>1, TaskFacts
  <2> QED BY <1>1, <1>2, <2>1, <2>2 DEF Types
<1>7. \A s \in Servers : Queued(s, backlog[s], conn)
  BY <1>1, QueuedNone
<1>8. \A p \in Clients : ClientIs(p, call[p], conn)
  BY <1>3, <1>4, Kinds DEF ClientIs
<1>9. \A w \in Workers : /\ WorkerIs(w, pc[w], call[w], task[w], conn)
                         /\ AloneIs(w, pc[w], call[w], pc["cgi"], call["cgi"])
                         /\ ~Live(w) /\ ReadIs(w)
  <2> SUFFICES ASSUME NEW w \in Workers
               PROVE  /\ WorkerIs(w, pc[w], call[w], task[w], conn)
                      /\ AloneIs(w, pc[w], call[w], pc["cgi"], call["cgi"])
                      /\ ~Live(w) /\ ReadIs(w)
    OBVIOUS
  <2>1. pc[w] = "idle" /\ call[w] = NoCall
    BY <1>2, <1>3, Kinds
  <2> QED BY <1>2, <1>4, <2>1 DEF WorkerIs, AloneIs, Live, Linked, ReadIs
<1>10. TinyIs(pc["tiny"], call["tiny"], task["tiny"], rio["tiny"], conn, "tiny" \in up, backlog["tiny"])
  BY <1>1, <1>2, <1>3, <1>4, Kinds DEF TinyIs
<1>11. CgiIs(pc["cgi"], call["cgi"], conn)
  BY <1>2 DEF CgiIs
<1>12. CacheInv
  <2>1. DOMAIN cache = {}
    BY <1>1
  <2> QED BY <2>1 DEF CacheInv
<1>13. StaticInv
  BY <1>5, <1>6, <1>7, <1>8, <1>9, <1>10, <1>11 DEF StaticInv
<1> QED BY <1>9, <1>12, <1>13 DEF WebInv

---------------------------------------------------------------------------
(* WebInv holds in every reachable state: whatever the processes, the      *)
(* files, the sizes of the buffers and the requests are, and whenever      *)
(* clients leave, files are removed and Tiny is killed, the proxy and Tiny *)
(* stay in step on every connection between them.                          *)
THEOREM Invariance == Spec => []WebInv
<1>1. WebInv /\ [Next]_vars => WebInv'
  <2> SUFFICES ASSUME WebInv, [Next]_vars PROVE WebInv'
    OBVIOUS
  <2>1. CASE UNCHANGED vars
    BY <2>1, FilesFewer DEF vars, wvars, shared
  <2>2. CASE Step
    BY <2>2, WorkerInv, TinyInv, AdderInv, ClientInv DEF Step
  <2>3. CASE Killed
    BY <2>3, TinyDies DEF Killed
  <2>4. CASE Removed
    BY <2>4, FilesFewer DEF Removed
  <2> QED BY <2>1, <2>2, <2>3, <2>4 DEF Next
<1> QED BY <1>1, WebInit, PTL DEF Spec

(* Every variable has its type; in particular the buffers of rio_readlineb *)
(* and rio_readnb never hold more than they can, and a cached reply has    *)
(* the length that its header promises.                                    *)
THEOREM TypeCorrect == Spec => []TypeOK
<1>1. WebInv => TypeOK
  <2> SUFFICES ASSUME WebInv PROVE TypeOK
    OBVIOUS
  <2>1. StaticInv /\ CacheInv /\ RioInv /\ Types
    BY DEF WebInv, StaticInv
  <2>2. RioTypeOK
    <3>1. ASSUME NEW i \in DOMAIN conn, NEW s \in Sides PROVE Len(conn[i].in[s]) <= Capacity
      <4>1. i \in 1 .. Len(conn)
        BY <2>1, LenProperties DEF RioInv
      <4> QED BY <2>1, <4>1, LinkParts
    <3>2. ASSUME NEW p \in Process
          PROVE  /\ rio[p].cnt >= 0 /\ rio[p].ptr + rio[p].cnt <= Len(rio[p].buf)
                 /\ Len(rio[p].buf) <= RioSize
                 /\ call[p].op \in {"line", "bytes", "write"}
                 /\ call[p].ret \in {"none", "ok", "eof", "error"}
      BY <2>1, RioParts DEF BufferInv
    <3> QED BY <3>1, <3>2 DEF RioTypeOK
  <2>3. \A path \in DOMAIN cache : Len(cache[path]) = Len(ServeStatic(path))
    BY <2>1, PaddedFacts, BodyTyped DEF CacheInv
  <2>4. \A server \in Servers : Range(backlog[server]) \subseteq DOMAIN conn
    <3> SUFFICES ASSUME NEW s \in Servers, NEW x \in Range(backlog[s]) PROVE x \in DOMAIN conn
      OBVIOUS
    <3>1. backlog[s] \in Seq(Nat) /\ Queued(s, backlog[s], conn) /\ conn \in Seq(Link)
      BY <2>1 DEF Types, StaticInv, RioInv
    <3>2. PICK n \in DOMAIN backlog[s] : x = backlog[s][n]
      BY DEF Range
    <3>3. n \in 1 .. Len(backlog[s])
      BY <3>1, <3>2, LenProperties
    <3>4. x \in 1 .. Len(conn)
      BY <3>1, <3>2, <3>3 DEF Queued
    <3> QED BY <3>1, <3>4, LenProperties
  <2> QED BY <2>1, <2>2, <2>3, <2>4 DEF TypeOK, Types
<1> QED BY <1>1, Invariance, PTL

(* What the proxy caches for a path is the header of the file and all of   *)
(* its bytes, unless Tiny ended: do_client caches the buffer without       *)
(* looking at how much of it Rio_readnb filled, and that is enough because *)
(* Tiny, while it runs, sends what its header promises.                    *)
THEOREM WholeCached == Spec => []CachedWhole
<1>1. WebInv => CachedWhole
  BY DEF WebInv, CacheInv, CachedWhole, OriginFailed
<1> QED BY <1>1, Invariance, PTL
=============================================================================
