------------------------- MODULE VehicleInfo_proofs -------------------------
(***************************************************************************)
(* Proofs about VehicleInfo, for any texts, tracks, counts, clocks and     *)
(* number of losses.  First the types, with the facts that tie the maps    *)
(* together; then the panes, the clock, the order of the matches, one      *)
(* match per track, and where an answer may miss its image.                *)
(***************************************************************************)
EXTENDS VehicleInfo, TLAPS

-----------------------------------------------------------------------------
(* Writes to the display.                                                   *)
Writes == [field : {"lost"}, pane : {""}, value : BOOLEAN]
            \cup [field : {"text"}, pane : Pane, value : Texts \cup {Blank}]
            \cup [field : {"img"}, pane : Pane, value : 0..MaxTrack]

\* a text is followed by the image of its track
Paired(s) ==
  /\ \A k \in 1..Len(s) : s[k].field = "text" =>
       /\ k < Len(s) /\ s[k + 1].field = "img"
       /\ s[k + 1].pane = s[k].pane /\ s[k + 1].value = s[k].value.uid
  /\ \A k \in 2..Len(s) : s[k].field = "img" =>
       s[k - 1].field = "text" /\ s[k - 1].pane = s[k].pane

TextsOf(s)   == {s[k].value : k \in {j \in 1..Len(s) : s[j].field = "text"}} \ {Blank}
Clears(s, p) == \E k \in 1..Len(s) : s[k].field = "text" /\ s[k].pane = p /\ s[k].value = Blank
Flags(s)     == \E k \in 1..Len(s) : s[k].field = "lost"

\* the panes are cleared before anything is drawn, and one text is drawn
Orderly(s) ==
  \A j, k \in 1..Len(s) :
    s[j].field = "text" /\ s[k].field = "text" /\ s[j].value # Blank =>
      IF s[k].value = Blank THEN k < j ELSE s[k].value = s[j].value

\* a list of writes as UpdateVinfo() begins it
Begins(s) == s \in Seq(Writes) /\ Paired(s) /\ (Len(s) > 0 => s[1].field # "img")

-----------------------------------------------------------------------------
LEMMA Constants ==
  /\ MaxTrack \in Nat \ {0} /\ MaxCount \in Nat /\ MaxClock \in Nat /\ MaxLosses \in Nat
  /\ Patience \in Nat /\ Second \in Nat \ {0}
  /\ Panes \subseteq SUBSET {"normal", "alert"}
<1>1. /\ {Patience, MaxCount, MaxClock, MaxLosses} \subseteq Nat
      /\ MaxTrack \in Nat \ {0} /\ Second \in Nat \ {0}
      /\ Panes \subseteq SUBSET {"normal", "alert"} \ {{}}
  BY VehicleAssumption, Zenon
<1> QED BY ONLY <1>1

LEMMA BlankText == Blank.uid = 0 /\ \A m \in Texts : m # Blank /\ m.uid \in Track /\ m.dist \in 0..2
<1>1. Blank.uid = 0
  BY DEF Blank, None
<1>2. \A m \in Texts : m.uid \in Track /\ m.dist \in 0..2
  BY DEF Texts
<1>3. 0 \notin Track
  BY Constants DEF Track
<1> QED BY <1>1, <1>2, <1>3

LEMMA ConcatElements ==
  ASSUME NEW S, NEW s \in Seq(S), NEW t \in Seq(S)
  PROVE  /\ s \o t \in Seq(S) /\ Len(s) \in Nat /\ Len(t) \in Nat
         /\ Len(s \o t) = Len(s) + Len(t)
         /\ \A k \in 1..Len(s) : (s \o t)[k] = s[k]
         /\ \A k \in 1..Len(t) : (s \o t)[Len(s) + k] = t[k]
  OBVIOUS

LEMMA TailElements ==
  ASSUME NEW S, NEW s \in Seq(S), s # <<>>
  PROVE  /\ Len(s) \in Nat \ {0} /\ Head(s) = s[1] /\ Head(s) \in S
         /\ Tail(s) \in Seq(S) /\ Len(Tail(s)) = Len(s) - 1
         /\ \A k \in 1..(Len(s) - 1) : Tail(s)[k] = s[k + 1]
  OBVIOUS

LEMMA TailFirst ==
  ASSUME NEW S, NEW s \in Seq(S), s # <<>>
  PROVE  /\ Tail(s) # <<>> => 2 \in 2..Len(s) /\ 1 \in 1..Len(s)
         /\ 1 < Len(s) => Tail(s) # <<>>
         /\ Tail(s) # <<>> => Tail(s)[1] = s[1 + 1]
<1> DEFINE t == Tail(s)
<1>1. /\ Len(s) \in Nat \ {0} /\ t \in Seq(S) /\ Len(t) = Len(s) - 1
      /\ \A k \in 1..(Len(s) - 1) : t[k] = s[k + 1]
  BY TailElements
<1> HIDE DEF t
<1>2. t # <<>> <=> Len(t) # 0
  BY <1>1
<1>3. Len(t) # 0 <=> 1 < Len(s)
  BY <1>1
<1>4. ASSUME 1 < Len(s) PROVE 2 \in 2..Len(s) /\ 1 \in 1..Len(s) /\ t[1] = s[1 + 1]
  <2>1. 2 \in 2..Len(s) /\ 1 \in 1..Len(s) /\ 1 \in 1..(Len(s) - 1)
    BY <1>1, <1>4
  <2> QED BY <2>1, <1>1
<1> QED BY <1>2, <1>3, <1>4 DEF t

\* where an element of s \o t comes from
LEMMA ConcatIndex ==
  ASSUME NEW S, NEW s \in Seq(S), NEW t \in Seq(S), NEW k \in 1..Len(s \o t)
  PROVE  \/ k \in 1..Len(s) /\ (s \o t)[k] = s[k]
         \/ /\ k - Len(s) \in 1..Len(t) /\ (s \o t)[k] = t[k - Len(s)]
            /\ k > Len(s)
<1>1. Len(s) \in Nat /\ Len(t) \in Nat /\ Len(s \o t) = Len(s) + Len(t)
  BY ConcatElements
<1>2. CASE k <= Len(s)
  BY <1>1, <1>2, ConcatElements
<1>3. CASE k > Len(s)
  <2>1. PICK j \in 1..Len(t) : k = Len(s) + j
    <3>1. k - Len(s) \in 1..Len(t) /\ k = Len(s) + (k - Len(s))
      BY <1>1, <1>3
    <3> QED BY <3>1
  <2>2. (s \o t)[k] = t[j] /\ k - Len(s) = j
    BY <1>1, <2>1, ConcatElements
  <2> QED BY <1>3, <2>2
<1> QED BY <1>1, <1>2, <1>3

LEMMA WriteTypes ==
  ASSUME NEW w \in Writes
  PROVE  \/ w.field = "lost" /\ w.pane = "" /\ w.value \in BOOLEAN
         \/ w.field = "text" /\ w.pane \in Pane /\ w.value \in Texts \cup {Blank}
         \/ w.field = "img" /\ w.pane \in Pane /\ w.value \in 0..MaxTrack
  BY DEF Writes

LEMMA ConcatBegins ==
  ASSUME NEW s, NEW t, Begins(s), Begins(t)
  PROVE  /\ Begins(s \o t)
         /\ TextsOf(s \o t) \subseteq TextsOf(s) \cup TextsOf(t)
         /\ \A p : Clears(s, p) => Clears(s \o t, p)
         /\ \A p : Clears(s \o t, p) => Clears(s, p) \/ Clears(t, p)
         /\ Flags(s) \/ Flags(t) => Flags(s \o t)
<1> DEFINE st == s \o t
<1>1. s \in Seq(Writes) /\ t \in Seq(Writes)
  BY DEF Begins
<1>2. /\ st \in Seq(Writes) /\ Len(s) \in Nat /\ Len(t) \in Nat
      /\ Len(st) = Len(s) + Len(t)
      /\ \A k \in 1..Len(s) : st[k] = s[k]
      /\ \A k \in 1..Len(t) : st[Len(s) + k] = t[k]
  BY <1>1, ConcatElements
<1>3. \A k \in 1..Len(st) : \/ k \in 1..Len(s) /\ st[k] = s[k]
                            \/ /\ k - Len(s) \in 1..Len(t) /\ st[k] = t[k - Len(s)]
                               /\ k > Len(s)
  BY <1>1, ConcatIndex
<1> HIDE DEF st
<1>4. ASSUME NEW k \in 1..Len(st), st[k].field = "text"
      PROVE  /\ k < Len(st) /\ st[k + 1].field = "img"
             /\ st[k + 1].pane = st[k].pane /\ st[k + 1].value = st[k].value.uid
  <2>1. CASE k \in 1..Len(s) /\ st[k] = s[k]
    <3>1. k < Len(s) /\ k + 1 \in 1..Len(s)
      BY <1>2, <1>4, <2>1 DEF Begins, Paired
    <3>2. st[k + 1] = s[k + 1]
      BY <1>2, <3>1
    <3> QED BY <1>2, <1>4, <2>1, <3>1, <3>2 DEF Begins, Paired
  <2>2. CASE k - Len(s) \in 1..Len(t) /\ st[k] = t[k - Len(s)]
    <3>1. PICK j \in 1..Len(t) : k = Len(s) + j /\ st[k] = t[j]
      BY <1>2, <2>2
    <3>2. j < Len(t) /\ j + 1 \in 1..Len(t)
      BY <1>2, <1>4, <3>1 DEF Begins, Paired
    <3>3. st[Len(s) + (j + 1)] = t[j + 1] /\ Len(s) + (j + 1) = k + 1
      BY <1>2, <3>1, <3>2
    <3>4. t[j + 1].field = "img" /\ t[j + 1].pane = t[j].pane /\ t[j + 1].value = t[j].value.uid
      BY <1>4, <3>1 DEF Begins, Paired
    <3>5. k < Len(st)
      BY <1>2, <3>1, <3>2
    <3> QED BY <3>1, <3>3, <3>4, <3>5
  <2> QED BY <1>3, <2>1, <2>2
<1>5. ASSUME NEW k \in 2..Len(st), st[k].field = "img"
      PROVE  st[k - 1].field = "text" /\ st[k - 1].pane = st[k].pane
  <2>1. CASE k \in 1..Len(s) /\ st[k] = s[k]
    <3>1. k \in 2..Len(s) /\ k - 1 \in 1..Len(s)
      BY <1>2, <1>5, <2>1
    <3>2. s[k - 1].field = "text" /\ s[k - 1].pane = s[k].pane
      BY <1>5, <2>1, <3>1 DEF Begins, Paired
    <3>3. st[k - 1] = s[k - 1]
      BY <1>2, <3>1
    <3> QED BY <2>1, <3>2, <3>3
  <2>2. CASE k - Len(s) \in 1..Len(t) /\ st[k] = t[k - Len(s)]
    <3>1. PICK j \in 1..Len(t) : k = Len(s) + j /\ st[k] = t[j]
      BY <1>2, <2>2
    <3>2. j # 1
      BY <1>2, <1>5, <3>1 DEF Begins
    <3>3. j \in 2..Len(t) /\ j - 1 \in 1..Len(t) /\ Len(s) + (j - 1) = k - 1
      BY <1>2, <3>1, <3>2
    <3>4. st[Len(s) + (j - 1)] = t[j - 1]
      BY <1>2, <3>3
    <3>5. t[j - 1].field = "text" /\ t[j - 1].pane = t[j].pane
      BY <1>5, <3>1, <3>3 DEF Begins, Paired
    <3> QED BY <3>1, <3>3, <3>4, <3>5
  <2> QED BY <1>3, <1>5, <2>1, <2>2, <1>2
<1>6. Len(st) > 0 => st[1].field # "img"
  <2>1. CASE Len(s) > 0
    BY <1>2, <2>1 DEF Begins
  <2>2. CASE Len(s) = 0
    <3>1. Len(st) > 0 => 1 \in 1..Len(t) /\ st[Len(s) + 1] = t[1]
      BY <1>2, <2>2
    <3> QED BY <1>2, <2>2, <3>1 DEF Begins
  <2> QED BY <1>2, <2>1, <2>2
<1>7. TextsOf(st) \subseteq TextsOf(s) \cup TextsOf(t)
  BY <1>3 DEF TextsOf
<1>8. \A p : Clears(s, p) => Clears(st, p)
  BY <1>2 DEF Clears
<1>9. \A p : Clears(st, p) => Clears(s, p) \/ Clears(t, p)
  BY <1>3 DEF Clears
<1>10. Flags(s) \/ Flags(t) => Flags(st)
  <2>1. \A k \in 1..Len(s) : k \in 1..Len(st)
    BY <1>2
  <2>2. \A k \in 1..Len(t) : Len(s) + k \in 1..Len(st)
    BY <1>2
  <2> QED BY <1>2, <2>1, <2>2 DEF Flags
<1> QED BY <1>9, <1>10, <1>2, <1>4, <1>5, <1>6, <1>7, <1>8 DEF Begins, Paired, st

LEMMA PaneBegins ==
  ASSUME NEW p \in Pane, NEW text \in Texts \cup {Blank}, NEW uid, uid = text.uid
  PROVE  LET s == PaneWrites(p, text, uid)
         IN  /\ Begins(s) /\ TextsOf(s) \subseteq {text}
             /\ text = Blank => Clears(s, p)
             /\ text # Blank => \A q : ~Clears(s, q)
<1> DEFINE s == PaneWrites(p, text, uid)
<1>1. uid \in 0..MaxTrack
  BY BlankText, Constants DEF Track
<1>2. /\ s = <<[field |-> "text", pane |-> p, value |-> text],
               [field |-> "img", pane |-> p, value |-> uid]>>
  BY DEF PaneWrites, Write
<1>3. /\ [field |-> "text", pane |-> p, value |-> text] \in Writes
      /\ [field |-> "img", pane |-> p, value |-> uid] \in Writes
  BY <1>1 DEF Writes
<1>4. /\ s \in Seq(Writes) /\ Len(s) = 2 /\ s[1].field = "text" /\ s[1].pane = p
      /\ s[1].value = text /\ s[2].field = "img" /\ s[2].pane = p /\ s[2].value = uid
  BY <1>2, <1>3
<1> HIDE DEF s
<1>5. Paired(s)
  BY <1>4 DEF Paired
<1>6. TextsOf(s) \subseteq {text}
  BY <1>4 DEF TextsOf
<1>7. text = Blank => Clears(s, p)
  BY <1>4 DEF Clears
<1>8. text # Blank => \A q : ~Clears(s, q)
  BY <1>4 DEF Clears
<1> QED BY <1>8, <1>4, <1>5, <1>6, <1>7 DEF Begins, s

LEMMA FlagBegins ==
  ASSUME NEW b \in BOOLEAN
  PROVE  LET s == <<Write("lost", "", b)>>
         IN  Begins(s) /\ TextsOf(s) = {} /\ Flags(s) /\ \A p : ~Clears(s, p)
<1> DEFINE w == Write("lost", "", b)
           s == <<w>>
<1>1. w \in [field : {"lost"}, pane : {""}, value : BOOLEAN]
  BY DEF Write
<1>2. w \in Writes /\ w.field = "lost"
  BY <1>1 DEF Writes
<1> HIDE DEF w
<1>3. s \in Seq(Writes) /\ Len(s) = 1 /\ s[1] = w
  BY <1>2
<1> HIDE DEF s
<1>4. \A k \in 1..Len(s) : k = 1 /\ s[k].field # "text" /\ s[k].field # "img"
  BY <1>2, <1>3
<1>5. Paired(s)
  BY <1>3, <1>4 DEF Paired
<1>6. TextsOf(s) = {} /\ \A p : ~Clears(s, p)
  BY <1>4 DEF TextsOf, Clears
<1>7. Flags(s)
  <2>1. 1 \in 1..Len(s) /\ s[1].field = "lost"
    BY <1>2, <1>3
  <2> QED BY <2>1 DEF Flags
<1> QED BY <1>2, <1>3, <1>5, <1>6, <1>7 DEF Begins, s, w

LEMMA EmptyBegins ==
  Begins(<<>>) /\ TextsOf(<<>>) = {} /\ ~Flags(<<>>) /\ \A p : ~Clears(<<>>, p)
  BY DEF Begins, Paired, TextsOf, Flags, Clears

\* a list that draws one text and clears nothing, or behind a list that only clears
LEMMA OneTextOrderly ==
  ASSUME NEW s, NEW text, TextsOf(s) \subseteq {text},
         \A p : ~Clears(s, p)
  PROVE  Orderly(s)
<1>1. \A k \in 1..Len(s) : s[k].field = "text" /\ s[k].value # Blank => s[k].value \in TextsOf(s)
  BY DEF TextsOf
<1> QED BY <1>1 DEF Orderly, Clears

\* what UpdateVinfo() draws of an answer
LEMMA AnswerBegins ==
  ASSUME NEW text \in Texts
  PROVE  LET s == UpdateVinfo(text, text.uid)
         IN  /\ Begins(s) /\ TextsOf(s) \subseteq {text} /\ Orderly(s) /\ Flags(s)
             /\ \A p : ~Clears(s, p)
<1> DEFINE lost   == <<Write("lost", "", FALSE)>>
           normal == IF "normal" \in text.panes THEN PaneWrites("normal", text, text.uid)
                     ELSE <<>>
           alert  == IF "alert" \in text.panes THEN PaneWrites("alert", text, text.uid)
                     ELSE <<>>
<1>1. Begins(lost) /\ TextsOf(lost) = {} /\ Flags(lost) /\ \A p : ~Clears(lost, p)
  BY FlagBegins
<1>2. Begins(normal) /\ TextsOf(normal) \subseteq {text} /\ \A p : ~Clears(normal, p)
  BY PaneBegins, EmptyBegins, BlankText DEF Pane
<1>3. Begins(alert) /\ TextsOf(alert) \subseteq {text} /\ \A p : ~Clears(alert, p)
  BY PaneBegins, EmptyBegins, BlankText DEF Pane
<1> HIDE DEF lost, normal, alert
<1>4. Begins(lost \o normal) /\ TextsOf(lost \o normal) \subseteq {text}
      /\ Flags(lost \o normal) /\ \A p : ~Clears(lost \o normal, p)
  BY <1>1, <1>2, ConcatBegins
<1>5. Begins((lost \o normal) \o alert) /\ TextsOf((lost \o normal) \o alert) \subseteq {text}
      /\ Flags((lost \o normal) \o alert) /\ \A p : ~Clears((lost \o normal) \o alert, p)
  BY <1>3, <1>4, ConcatBegins
<1>6. UpdateVinfo(text, text.uid) = (lost \o normal) \o alert
  BY DEF UpdateVinfo, lost, normal, alert
<1> QED BY <1>5, <1>6, OneTextOrderly

LEMMA RefreshBegins ==
  Begins(RefreshUI) /\ TextsOf(RefreshUI) = {} /\ \A p \in Pane : Clears(RefreshUI, p)
<1> DEFINE normal == PaneWrites("normal", Blank, None)
           alert  == PaneWrites("alert", Blank, None)
<1>1. /\ Begins(normal) /\ TextsOf(normal) \subseteq {Blank} /\ Clears(normal, "normal")
      /\ Begins(alert) /\ TextsOf(alert) \subseteq {Blank} /\ Clears(alert, "alert")
  BY PaneBegins, BlankText DEF Pane, None
<1>2. RefreshUI = normal \o alert
  BY DEF RefreshUI
<1> HIDE DEF normal, alert
<1>3. Clears(normal \o alert, "alert")
  <2>1. /\ Len(normal) \in Nat /\ Len(normal \o alert) = Len(normal) + Len(alert)
        /\ \A k \in 1..Len(alert) : (normal \o alert)[Len(normal) + k] = alert[k]
        /\ Len(alert) \in Nat
    BY <1>1, ConcatElements DEF Begins
  <2>2. PICK k \in 1..Len(alert) : alert[k].field = "text" /\ alert[k].pane = "alert"
                                    /\ alert[k].value = Blank
    BY <1>1 DEF Clears
  <2>3. Len(normal) + k \in 1..Len(normal \o alert)
    BY <2>1, <2>2
  <2> QED BY <2>1, <2>2, <2>3 DEF Clears
<1>4. Begins(normal \o alert) /\ TextsOf(normal \o alert) \subseteq {Blank}
      /\ Clears(normal \o alert, "normal")
  BY <1>1, ConcatBegins
<1>5. Blank \notin TextsOf(normal \o alert)
  BY DEF TextsOf
<1> QED BY <1>2, <1>3, <1>4, <1>5 DEF Pane

LEMMA ConcatOrderly ==
  ASSUME NEW s, NEW t, Begins(s), Begins(t), TextsOf(s) = {}, Orderly(t), \A p : ~Clears(t, p)
  PROVE  Orderly(s \o t)
<1>1. s \in Seq(Writes) /\ t \in Seq(Writes)
  BY DEF Begins
<1>2. Len(s) \in Nat /\ Len(t) \in Nat /\ Len(s \o t) = Len(s) + Len(t)
  BY <1>1, ConcatElements
<1>3. \A k \in 1..Len(s \o t) :
        \/ k \in 1..Len(s) /\ (s \o t)[k] = s[k]
        \/ k - Len(s) \in 1..Len(t) /\ (s \o t)[k] = t[k - Len(s)] /\ k > Len(s)
  BY <1>1, ConcatIndex
<1>4. \A k \in 1..Len(s) : s[k].field = "text" => s[k].value = Blank
  BY DEF TextsOf
<1>5. \A k \in 1..Len(t) : t[k].field = "text" => t[k].value # Blank
  BY DEF Clears
<1> QED BY <1>2, <1>3, <1>4, <1>5 DEF Orderly

LEMMA TailWrites ==
  ASSUME NEW s \in Seq(Writes), s # <<>>, Paired(s)
  PROVE  /\ Tail(s) \in Seq(Writes) /\ Paired(Tail(s))
         /\ TextsOf(Tail(s)) \subseteq TextsOf(s)
         /\ \A p : Clears(Tail(s), p) => Clears(s, p)
         /\ \A p : Clears(s, p) =>
              \/ Clears(Tail(s), p)
              \/ Head(s).field = "text" /\ Head(s).pane = p /\ Head(s).value = Blank
         /\ Orderly(s) => Orderly(Tail(s))
         /\ Flags(s) => Flags(Tail(s)) \/ Head(s).field = "lost"
<1>1. /\ Len(s) \in Nat \ {0} /\ Head(s) = s[1]
      /\ Tail(s) \in Seq(Writes) /\ Len(Tail(s)) = Len(s) - 1
      /\ \A k \in 1..(Len(s) - 1) : Tail(s)[k] = s[k + 1]
  BY TailElements
<1> DEFINE t == Tail(s)
<1> HIDE DEF t
<1>2. \A k \in 1..Len(t) : t[k] = s[k + 1] /\ k + 1 \in 2..Len(s) /\ k \in 1..Len(s) /\ k < Len(s)
  BY <1>1 DEF t
<1>3. ASSUME NEW k \in 1..Len(t), t[k].field = "text"
      PROVE  /\ k < Len(t) /\ t[k + 1].field = "img"
             /\ t[k + 1].pane = t[k].pane /\ t[k + 1].value = t[k].value.uid
  <2>1. s[k + 1].field = "text" /\ k + 1 \in 1..Len(s)
    BY <1>1, <1>2, <1>3
  <2>2. k + 1 < Len(s) /\ s[(k + 1) + 1].field = "img" /\ s[(k + 1) + 1].pane = s[k + 1].pane
        /\ s[(k + 1) + 1].value = s[k + 1].value.uid
    BY <2>1 DEF Paired
  <2>3. k < Len(t) /\ k + 1 \in 1..Len(t)
    BY <1>1, <2>2 DEF t
  <2>4. t[k + 1] = s[(k + 1) + 1] /\ t[k] = s[k + 1]
    BY <1>2, <2>3
  <2> QED BY <2>2, <2>3, <2>4
<1>4. ASSUME NEW k \in 2..Len(t), t[k].field = "img"
      PROVE  t[k - 1].field = "text" /\ t[k - 1].pane = t[k].pane
  <2>1. k \in 1..Len(t) /\ k - 1 \in 1..Len(t) /\ (k - 1) + 1 = k
    BY <1>1 DEF t
  <2>2. t[k] = s[k + 1] /\ t[k - 1] = s[k] /\ k + 1 \in 2..Len(s)
    BY <1>2, <2>1
  <2>3. s[(k + 1) - 1].field = "text" /\ s[(k + 1) - 1].pane = s[k + 1].pane
    BY <1>4, <2>2 DEF Paired
  <2>4. (k + 1) - 1 = k
    BY <2>1
  <2> QED BY <2>2, <2>3, <2>4
<1>5. TextsOf(t) \subseteq TextsOf(s)
  BY <1>1, <1>2 DEF TextsOf
<1>6. \A p : Clears(t, p) => Clears(s, p)
  BY <1>1, <1>2 DEF Clears
<1>7. ASSUME NEW p, Clears(s, p)
      PROVE  \/ Clears(t, p)
             \/ Head(s).field = "text" /\ Head(s).pane = p /\ Head(s).value = Blank
  <2>1. PICK k \in 1..Len(s) : s[k].field = "text" /\ s[k].pane = p /\ s[k].value = Blank
    BY <1>7 DEF Clears
  <2>2. CASE k = 1
    BY <1>1, <2>1, <2>2
  <2>3. CASE k # 1
    <3>1. k - 1 \in 1..Len(t) /\ (k - 1) + 1 = k
      BY <1>1, <2>3 DEF t
    <3>2. t[k - 1] = s[k]
      <4>1. t[k - 1] = s[(k - 1) + 1]
        BY <1>2, <3>1
      <4> QED BY <3>1, <4>1
    <3> QED BY <2>1, <3>1, <3>2 DEF Clears
  <2> QED BY <2>2, <2>3
<1>8. Orderly(s) => Orderly(t)
  <2> SUFFICES ASSUME Orderly(s), NEW j \in 1..Len(t), NEW k \in 1..Len(t),
                      t[j].field = "text", t[k].field = "text", t[j].value # Blank
               PROVE  IF t[k].value = Blank THEN k < j ELSE t[k].value = t[j].value
    BY DEF Orderly
  <2>1. /\ t[j] = s[j + 1] /\ t[k] = s[k + 1]
        /\ j + 1 \in 1..Len(s) /\ k + 1 \in 1..Len(s)
    BY <1>1, <1>2
  <2>2. IF s[k + 1].value = Blank THEN k + 1 < j + 1 ELSE s[k + 1].value = s[j + 1].value
    BY <2>1 DEF Orderly
  <2>3. j \in Nat /\ k \in Nat
    BY <1>1 DEF t
  <2> QED BY <2>1, <2>2, <2>3
<1>9. ASSUME Flags(s) PROVE Flags(t) \/ Head(s).field = "lost"
  <2>1. PICK k \in 1..Len(s) : s[k].field = "lost"
    BY <1>9 DEF Flags
  <2>2. CASE k = 1
    BY <1>1, <2>1, <2>2
  <2>3. CASE k # 1
    <3>1. k - 1 \in 1..Len(t) /\ (k - 1) + 1 = k
      BY <1>1, <2>3 DEF t
    <3>2. t[k - 1] = s[(k - 1) + 1]
      BY <1>2, <3>1
    <3> QED BY <2>1, <3>1, <3>2 DEF Flags
  <2> QED BY <2>2, <2>3
<1> QED BY <1>1, <1>3, <1>4, <1>5, <1>6, <1>7, <1>8, <1>9 DEF Paired, t

-----------------------------------------------------------------------------
(* Whole seconds.                                                           *)
LEMMA DivNat ==
  ASSUME NEW a \in Nat, NEW s \in Nat \ {0}
  PROVE  a \div s \in Nat /\ s * (a \div s) <= a /\ a < s * (a \div s + 1)
  OBVIOUS

LEMMA DivMono ==
  ASSUME NEW a \in Nat, NEW b \in Nat, NEW s \in Nat \ {0}, a <= b
  PROVE  a \div s <= b \div s
<1> DEFINE p == a \div s
           q == b \div s
<1>1. p \in Nat /\ q \in Nat /\ s * p <= a /\ b < s * (q + 1)
  BY DivNat
<1> HIDE DEF p, q
<1>2. s * p < s * (q + 1)
  <2>1. s * p \in Int /\ s * (q + 1) \in Int
    BY <1>1
  <2> QED BY <1>1, <2>1
<1>3. p < q + 1
  BY <1>1, <1>2
<1> QED BY <1>1, <1>3 DEF p, q

LEMMA DivGap ==
  ASSUME NEW a \in Nat, NEW b \in Nat, NEW s \in Nat \ {0}, NEW n \in Nat,
         a \div s - b \div s <= n
  PROVE  a - b < (n + 1) * s
<1> DEFINE p == a \div s
           q == b \div s
<1>1. p \in Nat /\ q \in Nat /\ s * q <= b /\ a < s * (p + 1) /\ p <= q + n
  BY DivNat
<1> HIDE DEF p, q
<1>2. s * (p + 1) <= s * (q + n + 1)
  BY <1>1
<1>3. s * (q + n + 1) = s * q + (n + 1) * s
  BY <1>1
<1>4. s * q \in Int /\ s * (p + 1) \in Int /\ s * (q + n + 1) \in Int /\ (n + 1) * s \in Int
  BY <1>1
<1> QED BY <1>1, <1>2, <1>3, <1>4

-----------------------------------------------------------------------------
(* Types, and what ties the maps together: a text keeps the track it was    *)
(* first seen in, and queries, answers and stored answers name that track.  *)
Displays == [lost : BOOLEAN, text : [Pane -> Texts \cup {Blank}], img : [Pane -> 0..MaxTrack]]

Recording ==
  /\ vpc # "idle" => rec.uid \in Track /\ rec.rs \in Plate /\ draw["video"] = <<>>
  /\ vpc = "sending" => mapVehicleNum[rec.rs] = rec.uid

Answers ==
  \A a \in responses \ {Login} : a \in Query /\ mapVehicleNum[a.plate] = a.uid

Stored ==
  \A u \in Track : mapVehicleJson[u] # Blank =>
    mapVehicleJson[u] \in Texts /\ mapVehicleJson[u].uid = u /\ mapVehicleJson[u].dist = Exact

Drawing ==
  /\ draw \in [Thread -> Seq(Writes)]
  /\ \A t \in Thread : Paired(draw[t])

\* an answer still to be inserted is exact, and receive has still to draw it
Inserting == newJson # Blank => newJson.dist = Exact /\ Flags(draw["receive"])

History ==
  /\ lostAt \in 0..clock /\ lostShownAt \in 0..clock /\ polled \in BOOLEAN

IndInv ==
  /\ TypeOK /\ display \in Displays
  /\ Recording /\ Answers /\ Stored /\ Drawing /\ Inserting /\ History

LEMMA TimeTyped == IndInv => clock \in Nat /\ Time \in Nat
<1> SUFFICES ASSUME IndInv PROVE clock \in Nat /\ Time \in Nat
  OBVIOUS
<1>1. clock \in Nat
  BY Constants DEF IndInv, TypeOK
<1> QED BY <1>1, DivNat, Constants DEF Time

LEMMA InitInd == Init => IndInv
<1> SUFFICES ASSUME Init PROVE IndInv
  OBVIOUS
<1>1. Blank \in Texts \cup {Blank} /\ 0 \in 0..MaxTrack /\ 0 \in 0..MaxCount
      /\ 0 \in 0..MaxLosses /\ 0 \in 0..MaxClock
  BY Constants
<1>2. display \in Displays
  BY <1>1 DEF Init, Displays, None
<1>3. Drawing
  BY EmptyBegins DEF Init, Drawing, Begins
<1>4. Recording /\ Answers /\ Stored /\ Inserting /\ History
  <2>1. Recording /\ Answers
    BY DEF Init, Recording, Answers
  <2>2. Stored /\ Inserting
    BY DEF Init, Stored, Inserting
  <2>3. History
    <3>1. lostAt = 0 /\ lostShownAt = 0 /\ clock = 0
      BY DEF Init
    <3>2. polled \in BOOLEAN
      BY DEF Init
    <3> QED BY <3>1, <3>2 DEF History
  <2> QED BY <2>1, <2>2, <2>3
<1>5. 0 \in 0..Time
  <2>1. Time \in Nat
    BY DivNat, Constants DEF Init, Time
  <2> QED BY <2>1
<1>6. /\ rec \in [rs : Plate \cup {None}, uid : 0..MaxTrack, crop : BOOLEAN]
      /\ plate_uid \in 0..MaxTrack /\ vpc \in {"idle", "sending", "storing", "looking"}
      /\ mapVehicleNum \in [Plate -> 0..MaxTrack] /\ mapRsCount \in [Plate -> 0..MaxCount]
      /\ mapVehicleImg \subseteq Track /\ mapVehicleJson \in [Track -> Texts \cup {Blank}]
      /\ mapPlateMatchCount \in [Track -> Nat]
  BY <1>1 DEF Init, None
<1>7. /\ mapPuidMatchStatus \in [Track -> 0..Dist1Matched] /\ exact_count \in 0..MaxCount
      /\ newJson \in Texts \cup {Blank}
      /\ responses \subseteq Query \cup {Login} /\ receiveError \in BOOLEAN
      /\ errorStartTime \in 0..Time /\ link \in {"up", "down"} /\ losses \in 0..MaxLosses
      /\ clock \in 0..MaxClock /\ drawn \subseteq Texts /\ raced \subseteq Pane
      /\ recounted \subseteq Track /\ crashed \in BOOLEAN
  <2>1. mapPuidMatchStatus \in [Track -> 0..Dist1Matched]
    BY DEF Init, None, Dist1Matched
  <2>2. receiveError \in BOOLEAN /\ errorStartTime \in 0..Time
    BY <1>5 DEF Init
  <2>3. /\ exact_count \in 0..MaxCount /\ newJson \in Texts \cup {Blank} /\ losses \in 0..MaxLosses /\ clock \in 0..MaxClock
        /\ responses \subseteq Query \cup {Login} /\ link \in {"up", "down"}
    BY <1>1 DEF Init
  <2>4. drawn \subseteq Texts /\ raced \subseteq Pane /\ recounted \subseteq Track
        /\ crashed \in BOOLEAN
    BY DEF Init
  <2> QED BY <2>1, <2>2, <2>3, <2>4
<1>8. display.lost \in BOOLEAN /\ display.text \in [Pane -> Texts \cup {Blank}]
      /\ display.img \in [Pane -> 0..MaxTrack]
  BY <1>2 DEF Displays
<1>9. TypeOK
  BY <1>6, <1>7, <1>8 DEF TypeOK
<1> QED BY <1>2, <1>3, <1>4, <1>9 DEF IndInv

-----------------------------------------------------------------------------
LEMMA RecognisedInd ==
  ASSUME IndInv, NEW rs \in Plate, NEW uid \in Track, NEW crop \in BOOLEAN,
         setRecognizedInfo(rs, uid, crop)
  PROVE  IndInv'
<1>1. UNCHANGED <<mapVehicleImg, mapVehicleJson, mapPlateMatchCount, mapPuidMatchStatus,
                  exact_count, newJson, draw, shown, timer, net, crashed, recounted>>
      /\ vpc = "idle" /\ draw["video"] = <<>>
  BY DEF setRecognizedInfo, Idle
<1>2. /\ rec' = [rs |-> rs, uid |-> uid, crop |-> crop] /\ plate_uid' = uid
      /\ uid \in 0..MaxTrack /\ uid # None
  BY Constants DEF setRecognizedInfo, Track, None
<1>3. /\ mapVehicleNum' \in [Plate -> 0..MaxTrack]
      /\ \A p \in Plate : mapVehicleNum[p] # None => mapVehicleNum'[p] = mapVehicleNum[p]
      /\ vpc' \in {"idle", "sending", "storing"}
      /\ vpc' = "sending" => mapVehicleNum'[rs] = uid
      /\ mapRsCount' \in [Plate -> 0..MaxCount]
  <2>1. mapVehicleNum \in [Plate -> 0..MaxTrack] /\ mapRsCount \in [Plate -> 0..MaxCount]
    BY DEF IndInv, TypeOK
  <2>2. CASE mapVehicleNum[rs] = None
    BY <1>2, <2>1, <2>2 DEF setRecognizedInfo
  <2>3. CASE mapVehicleNum[rs] # None
    <3>1. mapRsCount[rs] < MaxCount /\ mapRsCount' = [mapRsCount EXCEPT ![rs] = @ + 1]
          /\ mapVehicleNum' = mapVehicleNum /\ vpc' = IF crop THEN "storing" ELSE "idle"
      BY <2>3 DEF setRecognizedInfo
    <3>2. mapRsCount[rs] + 1 \in 0..MaxCount
      BY <2>1, <3>1, Constants
    <3> QED BY <2>1, <3>1, <3>2
  <2> QED BY <2>2, <2>3
<1>4. rec' \in [rs : Plate \cup {None}, uid : 0..MaxTrack, crop : BOOLEAN]
  BY <1>2
<1>5. TypeOK'
  BY <1>1, <1>2, <1>3, <1>4 DEF IndInv, TypeOK, shown, timer, net, Time
<1>6. Recording'
  BY <1>1, <1>2, <1>3 DEF Recording
<1>7. Answers'
  <2>1. \A a \in Query : a.plate \in Plate /\ a.uid \in Track
    BY DEF Query
  <2>2. \A u \in Track : u # None
    BY Constants DEF Track, None
  <2> QED BY <1>1, <1>3, <2>1, <2>2 DEF IndInv, Answers, net
<1>8. Stored' /\ Drawing' /\ Inserting' /\ History' /\ display' \in Displays
  BY <1>1 DEF IndInv, Stored, Drawing, Inserting, History, shown, net
<1> QED BY <1>5, <1>6, <1>7, <1>8 DEF IndInv

LEMMA SendInd ==
  ASSUME IndInv, sendRecognizedInfo
  PROVE  IndInv'
<1>1. /\ UNCHANGED <<rec, plate_uid, maps, draw, shown, timer, link, losses, clock, lostAt,
                     polled, crashed, recounted>>
      /\ vpc = "sending" /\ vpc' \in {"storing", "idle"}
  BY DEF sendRecognizedInfo
<1>2. \A a \in responses' : \/ a \in responses
                            \/ a \in Query /\ a.plate = rec.rs /\ a.uid = rec.uid
  <2>1. \/ responses' = responses
        \/ \E q \in Query : q.plate = rec.rs /\ q.uid = rec.uid /\ responses' = responses \cup {q}
    BY DEF sendRecognizedInfo
  <2> QED BY <2>1
<1>3. TypeOK'
  <2>1. responses' \subseteq Query \cup {Login}
    BY <1>2 DEF IndInv, TypeOK
  <2> QED BY <1>1, <2>1 DEF IndInv, TypeOK, maps, shown, timer, Time
<1>4. Recording'
  BY <1>1 DEF IndInv, Recording, maps
<1>5. Answers'
  BY <1>1, <1>2 DEF IndInv, Answers, Recording, maps
<1>6. Stored' /\ Drawing' /\ Inserting' /\ History' /\ display' \in Displays
  BY <1>1 DEF IndInv, Stored, Drawing, Inserting, History, shown, maps
<1> QED BY <1>3, <1>4, <1>5, <1>6 DEF IndInv

LEMMA StoreImageInd ==
  ASSUME IndInv, StoreImage
  PROVE  IndInv'
<1>1. /\ UNCHANGED <<rec, plate_uid, mapVehicleNum, mapRsCount, mapVehicleJson,
                     mapPlateMatchCount, mapPuidMatchStatus, exact_count, newJson, draw, shown,
                     timer, net, crashed, recounted>>
      /\ vpc = "storing" /\ vpc' = "looking" /\ mapVehicleImg' = mapVehicleImg \cup {rec.uid}
  BY DEF StoreImage
<1>2. rec.uid \in Track
  BY <1>1 DEF IndInv, Recording
<1>3. TypeOK'
  BY <1>1, <1>2 DEF IndInv, TypeOK, shown, timer, net, Time
<1>4. /\ Recording' /\ Answers' /\ Stored' /\ Drawing' /\ Inserting' /\ History'
      /\ display' \in Displays
  BY <1>1 DEF IndInv, Recording, Answers, Stored, Drawing, Inserting, History, shown, net
<1> QED BY <1>3, <1>4 DEF IndInv

\* a thread that is idle begins to draw
LEMMA BeginsDrawing ==
  ASSUME Drawing, NEW t \in Thread, NEW s, Begins(s), draw' = [draw EXCEPT ![t] = s]
  PROVE  /\ Drawing' /\ draw'[t] = s
         /\ \A u \in Thread : u # t => draw'[u] = draw[u]
  BY DEF Drawing, Begins

LEMMA ShowStoredInd ==
  ASSUME IndInv, ShowStored
  PROVE  IndInv'
<1>1. /\ UNCHANGED <<rec, plate_uid, mapVehicleNum, mapRsCount, mapVehicleImg, mapVehicleJson,
                     mapPuidMatchStatus, exact_count, newJson, shown, timer, net, crashed>>
      /\ vpc = "looking" /\ vpc' = "idle"
  BY DEF ShowStored
<1>2. rec.uid \in Track
  BY <1>1 DEF IndInv, Recording
<1>3. mapPlateMatchCount' \in [Track -> Nat]
  BY <1>2 DEF ShowStored, IndInv, TypeOK
<1>4. Drawing' /\ draw'["receive"] = draw["receive"]
  <2>1. CASE mapVehicleJson[rec.uid] # Blank
    <3>1. PICK text \in Texts : text = mapVehicleJson[rec.uid] /\ text.uid = rec.uid
      BY <1>2, <2>1 DEF IndInv, Stored
    <3>2. draw' = [draw EXCEPT !["video"] = UpdateVinfo(text, text.uid)]
      BY <2>1, <3>1 DEF ShowStored
    <3>3. /\ Begins(UpdateVinfo(text, text.uid))
          /\ "video" \in Thread /\ "receive" \in Thread /\ "receive" # "video"
      BY AnswerBegins DEF Thread
    <3> QED BY <3>2, <3>3, BeginsDrawing DEF IndInv
  <2>2. CASE mapVehicleJson[rec.uid] = Blank
    BY <2>2 DEF ShowStored, IndInv, Drawing
  <2> QED BY <2>1, <2>2
<1>5. recounted' \subseteq Track
  BY DEF ShowStored, IndInv, TypeOK
<1>6. TypeOK'
  BY <1>1, <1>3, <1>5 DEF IndInv, TypeOK, shown, timer, net, Time
<1>7. Recording' /\ Answers' /\ Stored' /\ Inserting' /\ History' /\ display' \in Displays
  BY <1>1, <1>4 DEF IndInv, Recording, Answers, Stored, Inserting, History, shown, net
<1> QED BY <1>4, <1>6, <1>7 DEF IndInv

-----------------------------------------------------------------------------
(* Receiving.                                                               *)
\* the answer names a track and its plate a known text
LEMMA AnswerTyped ==
  ASSUME IndInv, NEW a \in responses \ {Login}
  PROVE  /\ a \in Query /\ a.uid \in Track /\ FirstTrack(a) = a.uid
         /\ CurExactCount(a) \in 0..MaxCount /\ a.dist \in 0..3
         /\ a.dist # NoMatch =>
              LET text == Text(a, CurExactCount(a))
              IN  text \in Texts /\ text.uid = a.uid /\ text.dist = a.dist
<1>1. a \in Query /\ FirstTrack(a) = a.uid
  BY DEF IndInv, Answers, FirstTrack
<1>2. a.plate \in Plate /\ a.uid \in Track /\ a.dist \in 0..3 /\ a.panes \in Panes
  BY <1>1 DEF Query, NoMatch
<1>3. CurExactCount(a) \in 0..MaxCount
  BY <1>2, Constants DEF CurExactCount, IndInv, TypeOK
<1>4. ASSUME NEW n \in 0..MaxCount, a.dist # NoMatch
      PROVE  Text(a, n) \in Texts /\ Text(a, n).uid = a.uid /\ Text(a, n).dist = a.dist
  <2>1. a.dist \in 0..2
    BY <1>2, <1>4 DEF NoMatch
  <2> QED BY <1>2, <2>1 DEF Text, Texts
<1> QED BY <1>1, <1>2, <1>3, <1>4

LEMMA ReceiveInd ==
  ASSUME IndInv, NEW a \in responses, Receive(a),
         UNCHANGED <<mapVehicleNum, mapRsCount, mapVehicleImg>>,
         crashed' \in BOOLEAN, exact_count' \in 0..MaxCount,
         mapPlateMatchCount' \in [Track -> Nat],
         mapPuidMatchStatus' \in [Track -> 0..Dist1Matched],
         mapVehicleJson' \in [Track -> Texts \cup {Blank}], newJson' \in Texts \cup {Blank},
         Stored', Drawing', Inserting', draw'["video"] = draw["video"]
  PROVE  IndInv'
<1>1. UNCHANGED <<video, shown, link, losses, clock, lostAt, polled, recounted>>
      /\ responses' \subseteq responses /\ errorStartTime' = Time /\ receiveError' = FALSE
  BY DEF Receive
<1>2. Time' = Time /\ Time \in 0..Time /\ receiveError' \in BOOLEAN
  <2>1. Time' = Time /\ Time \in 0..Time
    BY <1>1, TimeTyped DEF Time
  <2>2. receiveError' \in BOOLEAN
    BY <1>1
  <2> QED BY <2>1, <2>2
<1>3. TypeOK'
  BY <1>1, <1>2 DEF IndInv, TypeOK, video, shown
<1>4. Recording' /\ Answers' /\ History' /\ display' \in Displays
  BY <1>1 DEF IndInv, Recording, Answers, History, shown, video
<1> QED BY <1>3, <1>4 DEF IndInv

LEMMA NoteMatchTyped ==
  ASSUME IndInv, NEW a \in responses \ {Login}, NoteMatch(a)
  PROVE  /\ mapPuidMatchStatus' \in [Track -> 0..Dist1Matched]
         /\ \A u \in Track : mapPuidMatchStatus'[u] >= mapPuidMatchStatus[u]
         /\ \A u \in Track : u # a.uid => mapPuidMatchStatus'[u] = mapPuidMatchStatus[u]
         /\ a.dist = 1 => mapPuidMatchStatus'[a.uid] = Dist1Matched
         /\ a.dist = 2 /\ ~Outdated(a) => mapPuidMatchStatus'[a.uid] # Dist1Matched
<1> DEFINE s == IF a.dist = 1 THEN Dist1Matched ELSE IF a.dist = 2 THEN Dist2Matched ELSE None
           new == IF mapPuidMatchStatus[a.uid] < s THEN s ELSE mapPuidMatchStatus[a.uid]
<1>1. a.uid \in Track /\ FirstTrack(a) = a.uid
  BY AnswerTyped
<1>2. mapPuidMatchStatus \in [Track -> 0..2]
  BY DEF IndInv, TypeOK, Dist1Matched
<1>3. mapPuidMatchStatus' = [mapPuidMatchStatus EXCEPT ![a.uid] = new]
  BY <1>1 DEF NoteMatch
<1>4. s \in 0..2 /\ (a.dist = 1 => s = 2) /\ (a.dist = 2 => s = 1)
  BY DEF Dist1Matched, Dist2Matched, None
<1>5. new \in 0..2 /\ new >= mapPuidMatchStatus[a.uid] /\ new >= s
      /\ (new = s \/ new = mapPuidMatchStatus[a.uid])
  BY <1>1, <1>2, <1>4
<1> HIDE DEF s, new
<1>6. mapPuidMatchStatus'[a.uid] = new /\ mapPuidMatchStatus' \in [Track -> 0..2]
      /\ \A u \in Track : u # a.uid => mapPuidMatchStatus'[u] = mapPuidMatchStatus[u]
  BY <1>1, <1>2, <1>3, <1>5
<1>7. a.dist = 1 => new = 2
  BY <1>4, <1>5
<1>8. a.dist = 2 /\ ~Outdated(a) => new # 2
  BY <1>1, <1>2, <1>4, <1>5 DEF Outdated, Dist2Matched
<1>9. \A u \in Track : mapPuidMatchStatus'[u] >= mapPuidMatchStatus[u]
  BY <1>1, <1>2, <1>5, <1>6
<1> QED BY <1>6, <1>7, <1>8, <1>9 DEF Dist1Matched

\* what ShowAnswer() leaves: a counter, perhaps an answer to insert, and a text to draw
ShownAnswer(a) ==
  LET text  == Text(a, CurExactCount(a))
      again == mapPlateMatchCount[a.uid] > 0
      s     == draw'["receive"]
  IN  /\ mapPlateMatchCount' = [mapPlateMatchCount EXCEPT ![a.uid] = @ + 1]
      /\ mapVehicleJson' = mapVehicleJson /\ newJson' = IF a.dist = Exact THEN text ELSE Blank
      /\ draw' = [draw EXCEPT !["receive"] = s]
      /\ Begins(s) /\ TextsOf(s) \subseteq {text} /\ Orderly(s) /\ Flags(s)
      /\ again => \A p \in Pane : Clears(s, p)

LEMMA ShowAnswerDraws ==
  ASSUME IndInv, NEW a \in responses \ {Login}, ShowAnswer(a)
  PROVE  ShownAnswer(a) /\ draw["receive"] = <<>> /\ newJson = Blank
<1> DEFINE text == Text(a, CurExactCount(a))
           again == mapPlateMatchCount[a.uid] > 0
           upd == UpdateVinfo(text, text.uid)
           s == (IF again THEN RefreshUI ELSE <<>>) \o upd
<1>1. a.dist # NoMatch /\ FirstTrack(a) = a.uid /\ a.uid \in Track
      /\ text \in Texts /\ text.uid = a.uid
  BY AnswerTyped DEF ShowAnswer
<1>2. mapPlateMatchCount' = [mapPlateMatchCount EXCEPT ![a.uid] = @ + 1]
  BY <1>1 DEF ShowAnswer
<1>3. mapPlateMatchCount'[a.uid] > 1 <=> again
  <2>1. mapPlateMatchCount[a.uid] \in Nat /\ mapPlateMatchCount'[a.uid] = mapPlateMatchCount[a.uid] + 1
    BY <1>1, <1>2 DEF IndInv, TypeOK
  <2> QED BY <2>1
<1>4. draw' = [draw EXCEPT !["receive"] = s]
  BY <1>1, <1>3 DEF ShowAnswer
<1>5. mapVehicleJson' = mapVehicleJson /\ newJson' = IF a.dist = Exact THEN text ELSE Blank
  BY DEF ShowAnswer
<1>6. Begins(upd) /\ TextsOf(upd) \subseteq {text} /\ Orderly(upd) /\ Flags(upd) /\ \A p : ~Clears(upd, p)
  BY <1>1, AnswerBegins
<1> HIDE DEF upd, text, again
<1>7. /\ Begins(s) /\ TextsOf(s) \subseteq {text} /\ Orderly(s) /\ Flags(s)
      /\ again => \A p \in Pane : Clears(s, p)
  <2>1. CASE again
    <3>1. Begins(RefreshUI \o upd) /\ TextsOf(RefreshUI \o upd) \subseteq {text}
          /\ Flags(RefreshUI \o upd) /\ \A p \in Pane : Clears(RefreshUI \o upd, p)
      BY <1>6, RefreshBegins, ConcatBegins
    <3>2. Orderly(RefreshUI \o upd)
      BY <1>6, RefreshBegins, ConcatOrderly
    <3> QED BY <2>1, <3>1, <3>2
  <2>2. CASE ~again
    <3>1. <<>> \o upd = upd
      BY <1>6 DEF Begins
    <3> QED BY <1>6, <2>2, <3>1
  <2> QED BY <2>1, <2>2
<1> HIDE DEF s
<1>8. draw'["receive"] = s
  BY <1>4 DEF IndInv, Drawing, Thread
<1>9. draw["receive"] = <<>> /\ newJson = Blank
  <2>1. draw["receive"] = <<>>
    BY DEF ShowAnswer, Receive, Idle
  <2> QED BY <2>1, EmptyBegins DEF IndInv, Inserting
<1> QED BY <1>2, <1>4, <1>5, <1>7, <1>8, <1>9 DEF ShownAnswer, text, again

LEMMA ShowAnswerInd ==
  ASSUME IndInv, NEW a \in responses \ {Login}, ShowAnswer(a)
  PROVE  IndInv'
<1>1. Receive(a) /\ a.dist # NoMatch /\ NoteMatch(a)
      /\ UNCHANGED <<mapVehicleNum, mapRsCount, mapVehicleImg, crashed>>
  BY DEF ShowAnswer
<1>2. ShownAnswer(a) /\ draw["receive"] = <<>>
  BY ShowAnswerDraws
<1> DEFINE text == Text(a, CurExactCount(a))
<1>3. a.uid \in Track /\ text \in Texts /\ text.uid = a.uid /\ text.dist = a.dist
      /\ CurExactCount(a) \in 0..MaxCount
  BY <1>1, AnswerTyped
<1> HIDE DEF text
<1>4. mapPlateMatchCount' \in [Track -> Nat]
  <2>1. mapPlateMatchCount \in [Track -> Nat]
    BY DEF IndInv, TypeOK
  <2> QED BY <1>2, <1>3, <2>1 DEF ShownAnswer
<1>5. Drawing' /\ draw'["video"] = draw["video"]
  <2>1. "receive" \in Thread /\ "video" \in Thread /\ "receive" # "video" /\ Drawing
    BY DEF Thread, IndInv
  <2> QED BY <1>2, <2>1, BeginsDrawing DEF ShownAnswer
<1>6. mapVehicleJson' \in [Track -> Texts \cup {Blank}] /\ Stored'
  <2>1. mapVehicleJson \in [Track -> Texts \cup {Blank}] /\ Stored /\ mapVehicleJson' = mapVehicleJson
    BY <1>2 DEF IndInv, TypeOK, ShownAnswer
  <2> QED BY <2>1 DEF Stored
<1>7. mapPuidMatchStatus' \in [Track -> 0..Dist1Matched]
  BY <1>1, NoteMatchTyped
<1>8. exact_count' \in 0..MaxCount
  BY DEF ShowAnswer, IndInv, TypeOK
<1>9. crashed' \in BOOLEAN
  BY <1>1 DEF IndInv, TypeOK
<1>10. newJson' \in Texts \cup {Blank} /\ Inserting'
  <2>1. newJson' = IF a.dist = Exact THEN text ELSE Blank
    BY <1>2 DEF ShownAnswer, text
  <2>2. Flags(draw'["receive"])
    BY <1>2 DEF ShownAnswer
  <2> QED BY <1>3, <2>1, <2>2 DEF Inserting
<1> QED BY <1>1, <1>4, <1>5, <1>6, <1>7, <1>8, <1>9, <1>10, ReceiveInd

LEMMA ReceiveOtherInd ==
  ASSUME IndInv,
         \/ ReceiveLogin
         \/ \E a \in responses \ {Login} :
              IgnoreAnswer(a) \/ AnswerNotShown(a) \/ AnswerWithoutImage(a)
  PROVE  /\ IndInv'
         /\ UNCHANGED <<mapVehicleJson, mapPlateMatchCount, newJson, draw, shown, recounted>>
         /\ \A u \in Track : mapPuidMatchStatus'[u] >= mapPuidMatchStatus[u]
         /\ draw["receive"] = <<>>
<1>1. PICK a \in responses :
        /\ Receive(a) /\ crashed' \in BOOLEAN
        /\ UNCHANGED <<mapVehicleNum, mapRsCount, mapVehicleImg, mapVehicleJson,
                       mapPlateMatchCount, exact_count, newJson, draw>>
        /\ \/ mapPuidMatchStatus' = mapPuidMatchStatus
           \/ a # Login /\ NoteMatch(a)
  <2>1. CASE ReceiveLogin
    <3>1. Login \in responses
      BY <2>1 DEF ReceiveLogin, Receive
    <3> QED BY <2>1, <3>1 DEF ReceiveLogin, maps, IndInv, TypeOK
  <2>2. ASSUME NEW a \in responses \ {Login},
               IgnoreAnswer(a) \/ AnswerNotShown(a) \/ AnswerWithoutImage(a)
        PROVE  /\ Receive(a) /\ crashed' \in BOOLEAN
               /\ UNCHANGED <<mapVehicleNum, mapRsCount, mapVehicleImg, mapVehicleJson,
                              mapPlateMatchCount, exact_count, newJson, draw>>
               /\ mapPuidMatchStatus' = mapPuidMatchStatus \/ NoteMatch(a)
    <3>1. crashed \in BOOLEAN
      BY DEF IndInv, TypeOK
    <3> QED BY <2>2, <3>1 DEF IgnoreAnswer, AnswerNotShown, AnswerWithoutImage, maps
  <2> QED BY <2>1, <2>2
<1>2. mapPuidMatchStatus \in [Track -> 0..Dist1Matched]
  BY DEF IndInv, TypeOK
<1>3. /\ mapPuidMatchStatus' \in [Track -> 0..Dist1Matched]
      /\ \A u \in Track : mapPuidMatchStatus'[u] >= mapPuidMatchStatus[u]
  <2>1. CASE mapPuidMatchStatus' = mapPuidMatchStatus
    BY <1>2, <2>1 DEF Dist1Matched
  <2>2. CASE a # Login /\ NoteMatch(a)
    BY <2>2, NoteMatchTyped
  <2> QED BY <1>1, <2>1, <2>2
<1>4. /\ exact_count' \in 0..MaxCount /\ mapPlateMatchCount' \in [Track -> Nat]
      /\ mapVehicleJson' \in [Track -> Texts \cup {Blank}] /\ newJson' \in Texts \cup {Blank}
      /\ Stored' /\ Drawing' /\ Inserting'
  BY <1>1 DEF IndInv, TypeOK, Stored, Drawing, Inserting
<1>5. IndInv'
  BY <1>1, <1>3, <1>4, ReceiveInd
<1>6. draw["receive"] = <<>> /\ UNCHANGED <<shown, recounted>>
  BY <1>1 DEF Receive, Idle
<1> QED BY <1>1, <1>3, <1>5, <1>6

LEMMA ReceiveNothingInd ==
  ASSUME IndInv, ReceiveNothing
  PROVE  IndInv'
<1>1. UNCHANGED <<maps, video, shown, responses, link, losses, clock, lostAt, crashed, recounted>>
      /\ polled' = TRUE /\ receiveError' = TRUE
      /\ (errorStartTime' = Time \/ errorStartTime' = errorStartTime)
  BY DEF ReceiveNothing
<1>2. draw' = draw \/ draw' = [draw EXCEPT !["receive"] = UpdateLost]
  BY DEF ReceiveNothing
<1>3. Drawing' /\ draw'["video"] = draw["video"]
  <2>1. Begins(UpdateLost)
    BY FlagBegins DEF UpdateLost
  <2>2. CASE draw' = [draw EXCEPT !["receive"] = UpdateLost]
    <3>1. Drawing /\ "receive" \in Thread /\ "video" \in Thread /\ "receive" # "video"
      BY DEF IndInv, Thread
    <3> QED BY <2>1, <2>2, <3>1, BeginsDrawing
  <2>3. CASE draw' = draw
    BY <2>3 DEF IndInv, Drawing
  <2> QED BY <1>2, <2>2, <2>3
<1>9. Inserting'
  <2>1. draw["receive"] = <<>> /\ newJson' = newJson
    BY <1>1 DEF ReceiveNothing, Idle, maps
  <2> QED BY <2>1, EmptyBegins DEF IndInv, Inserting
<1>4. Time' = Time /\ errorStartTime' \in 0..Time
  <2>1. Time' = Time
    BY <1>1 DEF Time
  <2>2. errorStartTime \in 0..Time
    BY DEF IndInv, TypeOK
  <2> QED BY <1>1, <2>1, <2>2, TimeTyped
<1>5. receiveError' \in BOOLEAN /\ polled' \in BOOLEAN
  BY <1>1
<1>6. TypeOK'
  BY <1>1, <1>4, <1>5 DEF IndInv, TypeOK, maps, video, shown
<1>7. History'
  BY <1>1, <1>5 DEF IndInv, History, shown
<1>8. Recording' /\ Answers' /\ Stored' /\ display' \in Displays
  BY <1>1, <1>3 DEF IndInv, Recording, Answers, Stored, maps, video, shown
<1> QED BY <1>3, <1>6, <1>7, <1>8, <1>9 DEF IndInv

\* a track has an exact answer as soon as the receive thread is about to insert it
HasExact(u) == mapVehicleJson[u] # Blank \/ newJson.uid = u

LEMMA InsertStep ==
  ASSUME IndInv, InsertAnswer
  PROVE  /\ IndInv' /\ \A u \in Track : HasExact(u)' <=> HasExact(u)
         /\ UNCHANGED <<mapVehicleNum, mapVehicleImg, mapPlateMatchCount, mapPuidMatchStatus,
                        video, draw, shown, timer, net, recounted>>
<1>1. /\ UNCHANGED <<mapVehicleNum, mapRsCount, mapVehicleImg, mapPlateMatchCount,
                     mapPuidMatchStatus, video, draw, shown, timer, net, crashed, recounted>>
      /\ newJson # Blank /\ newJson' = Blank /\ exact_count' = newJson.count
      /\ mapVehicleJson' =
           [mapVehicleJson EXCEPT ![newJson.uid] = IF @ = Blank THEN newJson ELSE @]
  BY DEF InsertAnswer, Inserts
<1>2. newJson \in Texts /\ newJson.uid \in Track /\ newJson.dist = Exact
      /\ newJson.count \in 0..MaxCount
  <2>1. newJson \in Texts
    BY <1>1 DEF IndInv, TypeOK
  <2> QED BY <1>1, <2>1 DEF IndInv, Inserting, Texts
<1>3. mapVehicleJson \in [Track -> Texts \cup {Blank}]
  BY DEF IndInv, TypeOK
<1>4. /\ mapVehicleJson' \in [Track -> Texts \cup {Blank}] /\ Stored'
      /\ \A u \in Track : HasExact(u)' <=> HasExact(u)
  <2>1. 0 \notin Track /\ Blank.uid = 0
    BY BlankText, Constants DEF Track
  <2>2. \A u \in Track : mapVehicleJson'[u] = IF u = newJson.uid /\ mapVehicleJson[u] = Blank
                                              THEN newJson ELSE mapVehicleJson[u]
    BY <1>1, <1>2, <1>3
  <2>3. \A u \in Track : HasExact(u)' <=> HasExact(u)
    BY <1>1, <1>2, <2>1, <2>2 DEF HasExact
  <2>4. mapVehicleJson' \in [Track -> Texts \cup {Blank}]
    BY <1>1, <1>2, <1>3
  <2> QED BY <1>2, <2>2, <2>3, <2>4 DEF IndInv, Stored
<1>5. TypeOK'
  BY <1>1, <1>2, <1>4 DEF IndInv, TypeOK, video, shown, timer, net, Time
<1>6. /\ Recording' /\ Answers' /\ Drawing' /\ Inserting' /\ History'
      /\ display' \in Displays
  BY <1>1 DEF IndInv, Recording, Answers, Drawing, Inserting, History, video, shown, net
<1> QED BY <1>1, <1>4, <1>5, <1>6 DEF IndInv

-----------------------------------------------------------------------------
(* Drawing.                                                                 *)
LEMMA DrawStep ==
  ASSUME IndInv, NEW t \in Thread, Draw(t)
  PROVE  LET w == draw[t][1]
         IN  /\ draw[t] \in Seq(Writes) /\ draw[t] # <<>> /\ Paired(draw[t])
             /\ Len(draw[t]) \in Nat \ {0} /\ w \in Writes /\ Head(draw[t]) = w
             /\ Drawing' /\ draw'[t] = Tail(draw[t])
             /\ \A u \in Thread : u # t => draw'[u] = draw[u]
             /\ UNCHANGED <<maps, video, timer, net, crashed, recounted>>
             /\ raced' = raced \cup {p \in {w.pane} \cap Pane : \A u \in Thread : WritesTo(u, p)}
             /\ display' \in Displays /\ ~crashed
<1> DEFINE w == draw[t][1]
<1>1. draw[t] \in Seq(Writes) /\ draw[t] # <<>> /\ Paired(draw[t]) /\ ~crashed
  BY DEF Draw, Idle, IndInv, Drawing
<1>2. Len(draw[t]) \in Nat \ {0} /\ w \in Writes /\ Head(draw[t]) = w
  BY <1>1, TailElements
<1>3. draw' = [draw EXCEPT ![t] = Tail(draw[t])]
  BY DEF Draw
<1>4. draw'[t] = Tail(draw[t]) /\ \A u \in Thread : u # t => draw'[u] = draw[u]
  BY <1>3 DEF IndInv, Drawing
<1>5. Drawing'
  <2>1. Tail(draw[t]) \in Seq(Writes) /\ Paired(Tail(draw[t]))
    BY <1>1, TailWrites
  <2> QED BY <1>3, <1>4, <2>1 DEF IndInv, Drawing
<1>6. UNCHANGED <<maps, video, timer, net, crashed, recounted>>
      /\ raced' = raced \cup {p \in {w.pane} \cap Pane : \A u \in Thread : WritesTo(u, p)}
  BY <1>2 DEF Draw
<1> HIDE DEF w
<1>7. display' \in Displays
  <2>1. display \in Displays
    BY DEF IndInv
  <2>2. display' = IF w.field = "lost" THEN [display EXCEPT !.lost = w.value]
                   ELSE [display EXCEPT ![w.field][w.pane] = w.value]
    BY <1>2 DEF Draw, w
  <2>3. CASE w.field = "lost" /\ w.value \in BOOLEAN
    <3>1. display' = [display EXCEPT !.lost = w.value]
      BY <2>2, <2>3
    <3> QED BY <2>1, <2>3, <3>1 DEF Displays
  <2>4. CASE w.field = "text" /\ w.pane \in Pane /\ w.value \in Texts \cup {Blank}
    <3>1. display' = [display EXCEPT !.text[w.pane] = w.value]
      BY <2>2, <2>4
    <3> QED BY <2>1, <2>4, <3>1 DEF Displays
  <2>5. CASE w.field = "img" /\ w.pane \in Pane /\ w.value \in 0..MaxTrack
    <3>1. display' = [display EXCEPT !.img[w.pane] = w.value]
      BY <2>2, <2>5
    <3> QED BY <2>1, <2>5, <3>1 DEF Displays
  <2> QED BY <1>2, <2>3, <2>4, <2>5, WriteTypes
<1> QED BY <1>1, <1>2, <1>4, <1>5, <1>6, <1>7 DEF w

LEMMA DrawFlag ==
  ASSUME IndInv, NEW t \in Thread, Draw(t), draw[t][1].field = "lost"
  PROVE  /\ display'.text = display.text /\ display'.img = display.img /\ drawn' = drawn
         /\ raced' = raced
         /\ lostShownAt' = IF draw[t][1].value = TRUE THEN clock ELSE lostShownAt
<1> DEFINE w == draw[t][1]
<1>1. Head(draw[t]) = w /\ w \in Writes
  BY DrawStep
<1>2. /\ display' = [display EXCEPT !.lost = w.value] /\ drawn' = drawn
      /\ lostShownAt' = IF w.value = TRUE THEN clock ELSE lostShownAt
  BY <1>1 DEF Draw
<1>3. display \in Displays
  BY DEF IndInv
<1>4. w.pane = ""
  BY <1>1, WriteTypes
<1>5. raced' = raced
  <2>1. "" \notin Pane
    BY DEF Pane
  <2>2. raced' = raced \cup {p \in {w.pane} \cap Pane : \A u \in Thread : WritesTo(u, p)}
    BY DrawStep
  <2>3. {w.pane} \cap Pane = {}
    BY <1>4, <2>1
  <2> QED BY <2>2, <2>3
<1> QED BY <1>2, <1>3, <1>5 DEF Displays

LEMMA DrawText ==
  ASSUME IndInv, NEW t \in Thread, Draw(t), draw[t][1].field = "text"
  PROVE  LET w == draw[t][1]
         IN  /\ w.pane \in Pane /\ w.value \in Texts \cup {Blank}
             /\ display'.text = [display.text EXCEPT ![w.pane] = w.value]
             /\ display'.img = display.img
             /\ drawn' = IF w.value # Blank THEN drawn \cup {w.value} ELSE drawn
             /\ lostShownAt' = lostShownAt
<1> DEFINE w == draw[t][1]
<1>1. Head(draw[t]) = w /\ w \in Writes
  BY DrawStep
<1>2. w.pane \in Pane /\ w.value \in Texts \cup {Blank}
  BY <1>1, WriteTypes
<1>3. /\ drawn' = IF w.value # Blank THEN drawn \cup {w.value} ELSE drawn
      /\ lostShownAt' = lostShownAt
  BY <1>1 DEF Draw
<1>4. display' = [display EXCEPT ![w.field][w.pane] = w.value]
  BY <1>1 DEF Draw
<1>5. display' = [display EXCEPT !.text[w.pane] = w.value]
  BY <1>4
<1>6. display \in Displays
  BY DEF IndInv
<1> HIDE DEF w
<1>7. display'.text = [display.text EXCEPT ![w.pane] = w.value] /\ display'.img = display.img
  BY <1>5, <1>6 DEF Displays
<1> QED BY <1>2, <1>3, <1>7 DEF w

LEMMA DrawImage ==
  ASSUME IndInv, NEW t \in Thread, Draw(t), draw[t][1].field = "img"
  PROVE  LET w == draw[t][1]
         IN  /\ w.pane \in Pane /\ w.value \in 0..MaxTrack
             /\ display'.img = [display.img EXCEPT ![w.pane] = w.value]
             /\ display'.text = display.text
             /\ drawn' = drawn /\ lostShownAt' = lostShownAt
<1> DEFINE w == draw[t][1]
<1>1. Head(draw[t]) = w /\ w \in Writes
  BY DrawStep
<1>2. w.pane \in Pane /\ w.value \in 0..MaxTrack
  BY <1>1, WriteTypes
<1>3. drawn' = drawn /\ lostShownAt' = lostShownAt
  BY <1>1 DEF Draw
<1>4. display' = [display EXCEPT ![w.field][w.pane] = w.value]
  BY <1>1 DEF Draw
<1>5. display' = [display EXCEPT !.img[w.pane] = w.value]
  BY <1>4
<1>6. display \in Displays
  BY DEF IndInv
<1> HIDE DEF w
<1>7. display'.img = [display.img EXCEPT ![w.pane] = w.value] /\ display'.text = display.text
  BY <1>5, <1>6 DEF Displays
<1> QED BY <1>2, <1>3, <1>7 DEF w

LEMMA DrawInd ==
  ASSUME IndInv, NEW t \in Thread, Draw(t)
  PROVE  IndInv'
<1>1. /\ Drawing' /\ display' \in Displays /\ ~crashed
      /\ UNCHANGED <<maps, video, timer, net, crashed, recounted>>
      /\ draw["video"] = <<>> => draw'["video"] = <<>>
  BY DrawStep DEF Thread
<1>2. drawn' \subseteq Texts /\ lostShownAt' \in 0..clock /\ raced' \subseteq Pane
  <2>1. drawn \subseteq Texts /\ lostShownAt \in 0..clock /\ clock \in Nat /\ raced \subseteq Pane
    BY TimeTyped DEF IndInv, TypeOK, History
  <2>2. raced' \subseteq Pane
    BY <2>1, DrawStep
  <2>3. CASE draw[t][1].field = "lost"
    <3>1. drawn' = drawn /\ (lostShownAt' = clock \/ lostShownAt' = lostShownAt)
      BY <2>3, DrawFlag
    <3> QED BY <2>1, <2>2, <3>1
  <2>4. CASE draw[t][1].field = "text"
    BY <2>1, <2>2, <2>4, DrawText
  <2>5. CASE draw[t][1].field = "img"
    BY <2>1, <2>2, <2>5, DrawImage
  <2> QED BY <2>3, <2>4, <2>5, DrawStep, WriteTypes
<1>3. /\ display'.lost \in BOOLEAN /\ display'.text \in [Pane -> Texts \cup {Blank}]
      /\ display'.img \in [Pane -> 0..MaxTrack]
  BY <1>1 DEF Displays
<1>4. TypeOK'
  BY <1>1, <1>2, <1>3 DEF IndInv, TypeOK, maps, video, timer, net, Time
<1>5. Recording' /\ Answers' /\ Stored' /\ History'
  BY <1>1, <1>2 DEF IndInv, Recording, Answers, Stored, History, maps, video, net
<1>6. Inserting'
  <2> SUFFICES ASSUME newJson # Blank PROVE newJson.dist = Exact /\ Flags(draw'["receive"])
    BY <1>1 DEF Inserting, maps
  <2>1. newJson.dist = Exact /\ Flags(draw["receive"])
    BY DEF IndInv, Inserting
  <2>2. CASE t = "receive"
    <3>1. Head(draw[t]).field # "lost"
      BY <2>2 DEF Draw, Inserts
    <3> QED BY <2>1, <2>2, <3>1, DrawStep, TailWrites
  <2>3. CASE t # "receive"
    <3>1. draw'["receive"] = draw["receive"]
      BY <2>3, DrawStep DEF Thread
    <3> QED BY <2>1, <3>1
  <2> QED BY <2>2, <2>3
<1> QED BY <1>1, <1>4, <1>5, <1>6 DEF IndInv

LEMMA WorldInd ==
  ASSUME IndInv, LoseConnection \/ Reconnect \/ Tick
  PROVE  IndInv'
<1>1. UNCHANGED <<maps, video, draw, shown, timer, crashed, recounted>>
      /\ (responses' = responses \/ responses' \subseteq {Login})
  BY DEF LoseConnection, Reconnect, Tick
<1>2. /\ clock' \in 0..MaxClock /\ clock' >= clock /\ lostAt' \in 0..clock'
      /\ losses' \in 0..MaxLosses /\ link' \in {"up", "down"} /\ clock \in Nat
      /\ lostShownAt \in 0..clock
  <2>1. /\ clock \in 0..MaxClock /\ lostAt \in 0..clock /\ losses \in 0..MaxLosses
        /\ link \in {"up", "down"} /\ lostShownAt \in 0..clock
    BY DEF IndInv, TypeOK, History
  <2>2. CASE LoseConnection
    BY <2>1, <2>2, Constants DEF LoseConnection
  <2>3. CASE Reconnect
    BY <2>1, <2>3, Constants DEF Reconnect
  <2>4. CASE Tick
    BY <2>1, <2>4, Constants DEF Tick
  <2> QED BY <2>2, <2>3, <2>4
<1>3. polled' \in BOOLEAN
  <2>1. polled \in BOOLEAN
    BY DEF IndInv, History
  <2> QED BY <2>1 DEF LoseConnection, Reconnect, Tick
<1>4. Time' \in Nat /\ Time <= Time' /\ Time \in Nat
  <2>1. clock' \in Nat /\ clock \in Nat /\ clock <= clock'
    BY <1>2, Constants
  <2> QED BY <2>1, DivNat, DivMono, Constants DEF Time
<1>5. errorStartTime' \in 0..Time'
  <2>1. errorStartTime \in 0..Time /\ errorStartTime' = errorStartTime
    BY <1>1 DEF IndInv, TypeOK, timer
  <2> QED BY <1>4, <2>1
<1>6. TypeOK'
  <2>1. responses' \subseteq Query \cup {Login}
    BY <1>1 DEF IndInv, TypeOK
  <2> QED BY <1>1, <1>2, <1>5, <2>1 DEF IndInv, TypeOK, maps, video, shown, timer
<1>7. History'
  <2>1. lostShownAt' = lostShownAt /\ lostShownAt' \in 0..clock'
    <3>1. lostShownAt' = lostShownAt
      BY <1>1 DEF shown
    <3>2. clock' \in Nat
      BY <1>2, Constants
    <3> QED BY <1>2, <3>1, <3>2
  <2> QED BY <1>2, <1>3, <2>1 DEF History
<1>8. Recording' /\ Answers' /\ Stored' /\ Drawing' /\ Inserting' /\ display' \in Displays
  BY <1>1 DEF IndInv, Recording, Answers, Stored, Drawing, Inserting, maps, video, shown
<1> QED BY <1>6, <1>7, <1>8 DEF IndInv

LEMMA NextInd == IndInv /\ [Next]_vars => IndInv'
<1> SUFFICES ASSUME IndInv, [Next]_vars PROVE IndInv'
  OBVIOUS
<1>1. CASE UNCHANGED vars
  <2>1. Time' = Time
    BY <1>1 DEF vars, net, Time
  <2> QED BY <1>1, <2>1 DEF vars, maps, video, shown, timer, net, IndInv, TypeOK, Recording,
     Answers, Stored, Drawing, Inserting, History
<1>2. CASE VideoNext
  BY <1>2, RecognisedInd, SendInd, StoreImageInd, ShowStoredInd, DrawInd DEF VideoNext, Thread
<1>3. CASE ReceiveNext
  <2>1. CASE ReceiveLogin
    BY <2>1, ReceiveOtherInd
  <2>2. ASSUME NEW a \in responses \ {Login},
               IgnoreAnswer(a) \/ AnswerNotShown(a) \/ AnswerWithoutImage(a) \/ ShowAnswer(a)
        PROVE  IndInv'
    BY <2>2, ReceiveOtherInd, ShowAnswerInd
  <2> QED BY <1>3, <2>1, <2>2, InsertStep, ReceiveNothingInd, DrawInd DEF ReceiveNext, Thread
<1> QED BY <1>1, <1>2, <1>3, WorldInd DEF Next

LEMMA IndInvariant == Spec => []IndInv
  BY InitInd, NextInd, PTL DEF Spec

(***************************************************************************)
(* Types: no map is asked for a track or a text that does not exist, and   *)
(* the display shows only what was answered.                               *)
(***************************************************************************)
THEOREM DisplayTypeCorrect == Spec => []TypeOK
<1>1. IndInv => TypeOK
  BY DEF IndInv
<1> QED BY <1>1, IndInvariant, PTL

-----------------------------------------------------------------------------
(* The panes.  Between the text and the image of a pair the image shown is  *)
(* the one before; nobody else is on the pane, or it counts as raced.       *)
Mid(t, p) == draw[t] # <<>> /\ draw[t][1].field = "img" /\ draw[t][1].pane = p

PaneInv ==
  \A p \in Pane : p \notin raced =>
    /\ \A t \in Thread : Mid(t, p) => display.text[p].uid = draw[t][1].value
    /\ (\A t \in Thread : ~Mid(t, p)) => display.text[p].uid = display.img[p]

\* a thread that has nothing to draw begins, or one goes on
LEMMA DrawSteps ==
  ASSUME IndInv, [Next]_vars
  PROVE  \/ UNCHANGED <<draw, shown>>
         \/ /\ UNCHANGED shown
            /\ \E t \in Thread : /\ draw[t] = <<>> /\ Begins(draw'[t])
                                 /\ \A u \in Thread : u # t => draw'[u] = draw[u]
         \/ \E t \in Thread : Draw(t)
<1>1. CASE ShowStored
  <2>1. /\ rec.uid \in Track /\ draw["video"] = <<>> /\ UNCHANGED shown
        /\ "video" \in Thread /\ Drawing
    BY <1>1 DEF ShowStored, IndInv, Recording, Thread
  <2>2. CASE mapVehicleJson[rec.uid] # Blank
    <3>1. PICK text \in Texts : text = mapVehicleJson[rec.uid] /\ text.uid = rec.uid
      BY <2>1, <2>2 DEF IndInv, Stored
    <3>2. draw' = [draw EXCEPT !["video"] = UpdateVinfo(text, text.uid)]
      BY <1>1, <2>2, <3>1 DEF ShowStored
    <3>3. Begins(UpdateVinfo(text, text.uid))
      BY AnswerBegins
    <3> QED BY <2>1, <3>2, <3>3, BeginsDrawing
  <2>3. CASE mapVehicleJson[rec.uid] = Blank
    BY <1>1, <2>1, <2>3 DEF ShowStored
  <2> QED BY <2>2, <2>3
<1>2. ASSUME NEW a \in responses \ {Login}, ShowAnswer(a)
      PROVE  /\ UNCHANGED shown
             /\ \E t \in Thread : /\ draw[t] = <<>> /\ Begins(draw'[t])
                                  /\ \A u \in Thread : u # t => draw'[u] = draw[u]
  <2>1. ShownAnswer(a) /\ draw["receive"] = <<>> /\ UNCHANGED shown
    BY <1>2, ShowAnswerDraws DEF ShowAnswer, Receive
  <2>2. "receive" \in Thread /\ Drawing
    BY DEF IndInv, Thread
  <2> QED BY <2>1, <2>2, BeginsDrawing DEF ShownAnswer
<1>3. CASE ReceiveNothing
  <2>1. draw["receive"] = <<>> /\ UNCHANGED shown /\ "receive" \in Thread /\ Drawing
    BY <1>3 DEF ReceiveNothing, Idle, Thread, IndInv
  <2>2. draw' = draw \/ draw' = [draw EXCEPT !["receive"] = UpdateLost]
    BY <1>3 DEF ReceiveNothing
  <2>3. Begins(UpdateLost)
    BY FlagBegins DEF UpdateLost
  <2> QED BY <2>1, <2>2, <2>3, BeginsDrawing
<1>4. CASE \/ ReceiveLogin
           \/ \E a \in responses \ {Login} :
                IgnoreAnswer(a) \/ AnswerNotShown(a) \/ AnswerWithoutImage(a)
  BY <1>4, ReceiveOtherInd
<1>5. CASE \/ \E rs \in Plate, uid \in Track, crop \in BOOLEAN : setRecognizedInfo(rs, uid, crop)
           \/ sendRecognizedInfo \/ StoreImage \/ LoseConnection \/ Reconnect \/ Tick
           \/ UNCHANGED vars
  BY <1>5 DEF setRecognizedInfo, sendRecognizedInfo, StoreImage, LoseConnection, Reconnect,
     Tick, vars
<1>6. CASE Draw("video") \/ Draw("receive")
  BY <1>6 DEF Thread
<1>7. CASE VideoNext
  BY <1>1, <1>5, <1>6, <1>7 DEF VideoNext
<1>8. CASE ReceiveNext
  BY <1>2, <1>3, <1>4, <1>6, <1>8, InsertStep DEF ReceiveNext
<1> QED BY <1>5, <1>7, <1>8 DEF Next

LEMMA DrawPane ==
  ASSUME IndInv, PaneInv, NEW t \in Thread, Draw(t)
  PROVE  PaneInv'
<1> DEFINE w == draw[t][1]
<1>1. /\ draw[t] \in Seq(Writes) /\ draw[t] # <<>> /\ Paired(draw[t])
      /\ Len(draw[t]) \in Nat \ {0} /\ w \in Writes
      /\ draw'[t] = Tail(draw[t]) /\ \A u \in Thread : u # t => draw'[u] = draw[u]
      /\ raced' = raced \cup {p \in {w.pane} \cap Pane : \A u \in Thread : WritesTo(u, p)}
      /\ display \in Displays
  BY DrawStep DEF IndInv
<1>2. /\ Len(Tail(draw[t])) = Len(draw[t]) - 1
      /\ \A k \in 1..(Len(draw[t]) - 1) : Tail(draw[t])[k] = draw[t][k + 1]
      /\ Tail(draw[t]) \in Seq(Writes)
  BY <1>1, TailElements
<1> HIDE DEF w
<1> SUFFICES ASSUME NEW p \in Pane, p \notin raced'
             PROVE  /\ \A u \in Thread : Mid(u, p)' => display'.text[p].uid = draw'[u][1].value
                    /\ (\A u \in Thread : ~Mid(u, p)') => display'.text[p].uid = display'.img[p]
  BY DEF PaneInv
<1>3. p \notin raced
  BY <1>1
\* the thread is between text and image exactly if the text was written now
<1>4. Mid(t, p)' => /\ w.field = "text" /\ w.pane = p
                    /\ draw'[t][1].value = w.value.uid
  <2> SUFFICES ASSUME Mid(t, p)' PROVE w.field = "text" /\ w.pane = p /\ draw'[t][1].value = w.value.uid
    OBVIOUS
  <2>2. 2 \in 2..Len(draw[t]) /\ 1 \in 1..Len(draw[t]) /\ draw'[t][1] = draw[t][1 + 1]
    <3>1. Tail(draw[t]) # <<>>
      BY <1>1 DEF Mid
    <3> QED BY <1>1, <3>1, TailFirst
  <2>3. draw[t][2] = draw'[t][1] /\ draw[t][2].field = "img" /\ draw[t][2].pane = p
    BY <2>2 DEF Mid
  <2>4. draw[t][2 - 1].field = "text" /\ draw[t][2 - 1].pane = p
    BY <1>1, <2>2, <2>3 DEF Paired
  <2>5. w.field = "text" /\ w.pane = p
    BY <2>4 DEF w
  <2>6. draw[t][1 + 1].value = w.value.uid
    BY <1>1, <2>2, <2>5 DEF Paired, w
  <2> QED BY <2>2, <2>5, <2>6
<1>5. w.field = "text" /\ w.pane = p => Mid(t, p)'
  <2> SUFFICES ASSUME w.field = "text", w.pane = p PROVE Mid(t, p)'
    OBVIOUS
  <2>1. 1 \in 1..Len(draw[t])
    BY <1>1
  <2>2. 1 < Len(draw[t]) /\ draw[t][1 + 1].field = "img" /\ draw[t][1 + 1].pane = p
    BY <1>1, <2>1 DEF Paired, w
  <2>3. draw'[t] # <<>> /\ draw'[t][1] = draw[t][1 + 1]
    <3>1. Tail(draw[t]) # <<>> /\ Tail(draw[t])[1] = draw[t][1 + 1]
      BY <1>1, <2>2, TailFirst
    <3> QED BY <1>1, <3>1
  <2> QED BY <2>2, <2>3 DEF Mid
<1>6. w.pane = p => \A u \in Thread : u # t => ~Mid(u, p)
  <2> SUFFICES ASSUME w.pane = p, NEW u \in Thread, u # t, Mid(u, p) PROVE FALSE
    OBVIOUS
  <2>1. WritesTo(t, p)
    <3>1. 1 \in 1..Len(draw[t]) /\ draw[t][1].pane = p
      BY <1>1 DEF w
    <3> QED BY <3>1 DEF WritesTo
  <2>2. WritesTo(u, p)
    <3>1. draw[u] \in Seq(Writes) /\ draw[u] # <<>> /\ draw[u][1].pane = p
      BY DEF IndInv, Drawing, Mid
    <3>2. 1 \in 1..Len(draw[u])
      BY <3>1
    <3> QED BY <3>1, <3>2 DEF WritesTo
  <2>3. \A v \in Thread : WritesTo(v, p)
    BY <2>1, <2>2 DEF Thread
  <2>4. p \in raced'
    BY <1>1, <2>3
  <2> QED BY <2>4
<1>7. \A u \in Thread : u # t => (Mid(u, p)' <=> Mid(u, p)) /\ draw'[u] = draw[u]
  BY <1>1 DEF Mid
<1>8. Mid(t, p) <=> w.field = "img" /\ w.pane = p
  BY <1>1 DEF Mid, w
<1>9. CASE w.field = "text" /\ w.pane = p
  <2>1. display'.text[p] = w.value
    <3>1. display'.text = [display.text EXCEPT ![p] = w.value]
      BY <1>9, DrawText DEF w
    <3> QED BY <1>1, <3>1 DEF Displays
  <2>2. Mid(t, p)' /\ draw'[t][1].value = w.value.uid
    BY <1>4, <1>5, <1>9
  <2> QED BY <1>6, <1>7, <1>9, <2>1, <2>2
<1>10. CASE w.field = "img" /\ w.pane = p
  <2>1. display'.text[p] = display.text[p] /\ display'.img[p] = w.value
    <3>1. display'.img = [display.img EXCEPT ![p] = w.value] /\ display'.text = display.text
      BY <1>10, DrawImage DEF w
    <3> QED BY <1>1, <3>1 DEF Displays
  <2>2. display.text[p].uid = w.value
    BY <1>3, <1>8, <1>10 DEF PaneInv, w
  <2>3. ~Mid(t, p)'
    BY <1>4, <1>10
  <2> QED BY <1>6, <1>7, <1>10, <2>1, <2>2, <2>3
<1>11. CASE w.field = "lost" \/ w.pane # p
  <2>1. display'.text[p] = display.text[p] /\ display'.img[p] = display.img[p]
    <3>1. CASE w.field = "lost"
      BY <3>1, DrawFlag DEF w
    <3>2. CASE w.field = "text" /\ w.pane # p
      <4>1. display'.text = [display.text EXCEPT ![w.pane] = w.value]
            /\ display'.img = display.img
        BY <3>2, DrawText DEF w
      <4> QED BY <1>1, <3>2, <4>1 DEF Displays
    <3>3. CASE w.field = "img" /\ w.pane # p
      <4>1. display'.img = [display.img EXCEPT ![w.pane] = w.value]
            /\ display'.text = display.text
        BY <3>3, DrawImage DEF w
      <4> QED BY <1>1, <3>3, <4>1 DEF Displays
    <3> QED BY <1>1, <1>11, <3>1, <3>2, <3>3, WriteTypes
  <2>2. ~Mid(t, p)' /\ ~Mid(t, p)
    BY <1>4, <1>8, <1>11
  <2>3. \A u \in Thread : Mid(u, p)' <=> Mid(u, p)
    BY <1>7, <2>2
  <2>4. \A u \in Thread : Mid(u, p) => draw'[u] = draw[u]
    BY <1>7, <2>2
  <2> QED BY <1>3, <2>1, <2>3, <2>4 DEF PaneInv
<1> QED BY <1>1, <1>9, <1>10, <1>11, WriteTypes

LEMMA NextPane == IndInv /\ PaneInv /\ [Next]_vars => PaneInv'
<1> SUFFICES ASSUME IndInv, PaneInv, [Next]_vars PROVE PaneInv'
  OBVIOUS
<1>1. CASE UNCHANGED <<draw, shown>>
  BY <1>1 DEF PaneInv, Mid, shown
<1>2. ASSUME UNCHANGED shown, NEW t \in Thread, draw[t] = <<>>, Begins(draw'[t]),
             \A u \in Thread : u # t => draw'[u] = draw[u]
      PROVE  PaneInv'
  <2>1. \A p \in Pane : ~Mid(t, p) /\ ~Mid(t, p)'
    <3>1. draw'[t] # <<>> => draw'[t][1].field # "img"
      <4>1. draw'[t] \in Seq(Writes) /\ (Len(draw'[t]) > 0 => draw'[t][1].field # "img")
        BY <1>2 DEF Begins
      <4> QED BY <4>1
    <3> QED BY <1>2, <3>1 DEF Mid
  <2>2. \A u \in Thread, p \in Pane : (Mid(u, p)' <=> Mid(u, p)) /\ (Mid(u, p) => draw'[u] = draw[u])
    BY <1>2, <2>1 DEF Mid
  <2> QED BY <1>2, <2>2 DEF PaneInv, shown
<1> QED BY <1>1, <1>2, DrawSteps, DrawPane

(***************************************************************************)
(* Text and image of a pane are of one track unless both threads drew in   *)
(* it at once, although the track, the image and the answer come from      *)
(* different maps: a text keeps the track it was first seen in.            *)
(***************************************************************************)
THEOREM PanesConsistent == Spec => []PaneShowsOneTrack
<1>1. Init => PaneInv
  BY DEF Init, PaneInv, Mid, Blank, None, Thread
<1>2. IndInv /\ PaneInv => PaneShowsOneTrack
  <2> SUFFICES ASSUME IndInv, PaneInv, NEW p \in Pane,
                      \A t \in Thread : ~WritesTo(t, p), p \notin raced
               PROVE  display.text[p].uid = display.img[p]
    BY DEF PaneShowsOneTrack
  <2>1. ASSUME NEW t \in Thread, Mid(t, p) PROVE FALSE
    <3>1. draw[t] \in Seq(Writes) /\ draw[t] # <<>> /\ draw[t][1].pane = p
      BY <2>1 DEF IndInv, Drawing, Mid
    <3>2. 1 \in 1..Len(draw[t])
      BY <3>1
    <3> QED BY <3>1, <3>2 DEF WritesTo
  <2> QED BY <2>1 DEF PaneInv
<1> QED BY <1>1, <1>2, NextPane, IndInvariant, PTL DEF Spec

-----------------------------------------------------------------------------
(* The clock.  While reads fail the timer runs, and it was last started at  *)
(* the latest when they began to fail or when the loss was last shown.      *)
LostBefore == \/ errorStartTime <= lostAt \div Second
              \/ errorStartTime <= lostShownAt \div Second
              \/ draw["receive"] = UpdateLost

TimerRuns  == Time - errorStartTime <= Patience

TimerInv ==
  link = "down" =>
    /\ (~polled /\ clock = lostAt) \/ (receiveError /\ LostBefore)
    /\ polled => receiveError /\ TimerRuns

LEMMA LostFlag ==
  UpdateLost # <<>> /\ UpdateLost[1].field = "lost" /\ UpdateLost[1].value = TRUE
<1>1. Len(UpdateLost) = 1 /\ UpdateLost[1] = [field |-> "lost", pane |-> "", value |-> TRUE]
  BY DEF UpdateLost, Write
<1>2. UpdateLost # <<>>
  BY DEF UpdateLost
<1>3. UpdateLost[1].field = "lost" /\ (UpdateLost[1].value = TRUE)
  <2>1. ASSUME NEW w, w = [field |-> "lost", pane |-> "", value |-> TRUE]
        PROVE  w.field = "lost" /\ (w.value = TRUE)
    BY <2>1
  <2> QED BY <1>1, <2>1
<1> QED BY <1>2, <1>3

LEMMA TimerTyped ==
  ASSUME IndInv
  PROVE  /\ clock \in Nat /\ Time \in Nat /\ errorStartTime \in Nat /\ errorStartTime <= Time
         /\ lostAt \in Nat /\ lostShownAt \in Nat /\ lostAt <= clock /\ lostShownAt <= clock
         /\ lostAt \div Second \in Nat /\ lostShownAt \div Second \in Nat
<1>1. clock \in Nat /\ Time \in Nat
  BY TimeTyped
<1>2. errorStartTime \in 0..Time /\ lostAt \in 0..clock /\ lostShownAt \in 0..clock
  BY DEF IndInv, TypeOK, History
<1>3. lostAt \in Nat /\ lostShownAt \in Nat
  BY <1>1, <1>2
<1>4. lostAt \div Second \in Nat /\ lostShownAt \div Second \in Nat
  BY <1>3, DivNat, Constants
<1> QED BY <1>1, <1>2, <1>3, <1>4

LEMMA DrawTimer ==
  ASSUME IndInv, TimerInv, NEW t \in Thread, Draw(t)
  PROVE  TimerInv'
<1>1. UNCHANGED <<timer, net>> /\ \A u \in Thread : u # t => draw'[u] = draw[u]
  BY DrawStep
<1>2. Time' = Time
  BY <1>1 DEF net, Time
<1>3. lostShownAt' = lostShownAt \/ lostShownAt' = clock
  BY DEF Draw
<1>4. lostShownAt \div Second <= lostShownAt' \div Second
  <2>1. lostShownAt \in Nat /\ lostShownAt' \in Nat /\ lostShownAt <= lostShownAt'
    BY <1>3, TimerTyped
  <2> QED BY <2>1, DivMono, Constants
<1>5. lostShownAt' \div Second \in Nat
  <2>1. lostShownAt' \in Nat
    BY <1>3, TimerTyped
  <2> QED BY <2>1, DivNat, Constants
<1>6. LostBefore => LostBefore'
  <2>1. CASE errorStartTime <= lostAt \div Second
    BY <1>1, <2>1 DEF LostBefore, timer, net
  <2>2. CASE errorStartTime <= lostShownAt \div Second
    <3>1. errorStartTime <= lostShownAt' \div Second
      BY <1>4, <1>5, <2>2, TimerTyped
    <3> QED BY <1>1, <3>1 DEF LostBefore, timer
  <2>3. CASE draw["receive"] = UpdateLost /\ t # "receive"
    <3>1. draw'["receive"] = draw["receive"]
      BY <1>1, <2>3 DEF Thread
    <3> QED BY <2>3, <3>1 DEF LostBefore
  <2>4. CASE draw["receive"] = UpdateLost /\ t = "receive"
    <3>1. draw[t][1].field = "lost" /\ draw[t][1].value = TRUE
      BY <2>4, LostFlag
    <3>2. lostShownAt' = clock
      BY <3>1, DrawFlag
    <3>3. errorStartTime <= lostShownAt' \div Second
      BY <3>2, TimerTyped DEF Time
    <3> QED BY <1>1, <3>3 DEF LostBefore, timer
  <2> QED BY <2>1, <2>2, <2>3, <2>4 DEF LostBefore
<1>7. UNCHANGED <<link, polled, clock, lostAt, receiveError, errorStartTime>>
  BY <1>1 DEF timer, net
<1>8. link = "down" => (~polled' /\ clock' = lostAt') \/ (receiveError' /\ LostBefore')
  BY <1>6, <1>7 DEF TimerInv
<1>9. link = "down" /\ polled => receiveError' /\ TimerRuns'
  <2>1. TimerRuns' <=> TimerRuns
    BY <1>2, <1>7 DEF TimerRuns
  <2> QED BY <1>7, <2>1 DEF TimerInv
<1> QED BY <1>7, <1>8, <1>9 DEF TimerInv

LEMMA ReceiveNothingTimer ==
  ASSUME IndInv, TimerInv, ReceiveNothing
  PROVE  TimerInv'
<1> DEFINE late == receiveError /\ Time - errorStartTime > Patience
<1>1. /\ link = "down" /\ draw["receive"] = <<>> /\ link' = link /\ polled' = TRUE
      /\ receiveError' = TRUE /\ lostAt' = lostAt /\ clock' = clock /\ lostShownAt' = lostShownAt
      /\ errorStartTime' = IF late \/ ~receiveError THEN Time ELSE errorStartTime
      /\ draw' = IF late THEN [draw EXCEPT !["receive"] = UpdateLost] ELSE draw
  BY DEF ReceiveNothing, Idle, shown
<1>2. Time' = Time /\ receiveError \in BOOLEAN
  BY <1>1 DEF Time, IndInv, TypeOK
<1>3. ASSUME clock = lostAt PROVE Time = lostAt \div Second
  BY <1>3 DEF Time
<1>4. TimerRuns'
  <2>1. CASE late \/ ~receiveError
    <3>1. errorStartTime' = Time
      BY <1>1, <2>1
    <3> QED BY <1>2, <3>1, TimerTyped, Constants DEF TimerRuns
  <2>2. CASE ~late /\ receiveError
    <3>1. errorStartTime' = errorStartTime
      BY <1>1, <2>2
    <3>2. ~(Time - errorStartTime > Patience)
      BY <2>2
    <3>3. Time - errorStartTime <= Patience
      BY <3>2, TimerTyped, Constants
    <3> QED BY <1>2, <3>1, <3>3 DEF TimerRuns
  <2> QED BY <1>2, <2>1, <2>2
<1>5. LostBefore'
  <2>1. CASE late
    <3>1. draw'["receive"] = UpdateLost
      BY <1>1, <2>1 DEF IndInv, Drawing, Thread
    <3> QED BY <3>1 DEF LostBefore
  <2>2. CASE ~late /\ ~receiveError
    <3>1. clock = lostAt
      BY <1>1, <2>2 DEF TimerInv
    <3>2. errorStartTime' = lostAt \div Second
      BY <1>1, <1>3, <2>2, <3>1
    <3>3. errorStartTime' <= lostAt' \div Second
      BY <1>1, <3>2, TimerTyped
    <3> QED BY <3>3 DEF LostBefore
  <2>3. CASE ~late /\ receiveError
    <3>1. errorStartTime' = errorStartTime
      BY <1>1, <2>3
    <3>2. CASE clock = lostAt
      <4>1. errorStartTime <= lostAt \div Second
        BY <1>3, <3>2, TimerTyped
      <4> QED BY <1>1, <3>1, <4>1 DEF LostBefore
    <3>3. CASE LostBefore
      <4>1. draw["receive"] # UpdateLost
        BY <1>1, LostFlag
      <4> QED BY <1>1, <3>1, <3>3, <4>1 DEF LostBefore
    <3> QED BY <1>1, <3>2, <3>3 DEF TimerInv
  <2> QED BY <1>2, <2>1, <2>2, <2>3
<1> HIDE DEF late
<1> QED BY <1>1, <1>4, <1>5 DEF TimerInv

LEMMA TickTimer ==
  ASSUME IndInv, TimerInv, Tick
  PROVE  TimerInv'
<1>1. UNCHANGED <<link, lostAt, lostShownAt, receiveError, errorStartTime, draw>>
      /\ polled' = FALSE /\ (link = "down" => polled)
  BY DEF Tick, timer, shown
<1>2. LostBefore' <=> LostBefore
  BY <1>1 DEF LostBefore
<1> QED BY <1>1, <1>2 DEF TimerInv

LEMMA NextTimer == IndInv /\ TimerInv /\ [Next]_vars => TimerInv'
<1> SUFFICES ASSUME IndInv, TimerInv, [Next]_vars PROVE TimerInv'
  OBVIOUS
<1>1. CASE LoseConnection
  <2>1. polled' = FALSE /\ lostAt' = clock /\ clock' = clock
    BY <1>1 DEF LoseConnection
  <2> QED BY <2>1 DEF TimerInv
<1>2. CASE Reconnect
  <2>1. link' = "up"
    BY <1>2 DEF Reconnect
  <2> QED BY <2>1 DEF TimerInv
<1>3. ASSUME NEW a, Receive(a) PROVE TimerInv'
  <2>1. link' = "up"
    BY <1>3 DEF Receive
  <2> QED BY <2>1 DEF TimerInv
<1>4. CASE \/ \E rs \in Plate, uid \in Track, crop \in BOOLEAN : setRecognizedInfo(rs, uid, crop)
           \/ sendRecognizedInfo \/ StoreImage \/ ShowStored \/ UNCHANGED vars
  <2>1. UNCHANGED <<link, lostAt, lostShownAt, clock, polled, receiveError, errorStartTime>>
    BY <1>4 DEF setRecognizedInfo, sendRecognizedInfo, StoreImage, ShowStored, vars, shown, net, timer
  <2>2. draw'["receive"] = draw["receive"]
    <3>1. draw' = draw \/ \E s : draw' = [draw EXCEPT !["video"] = s]
      BY <1>4 DEF setRecognizedInfo, sendRecognizedInfo, StoreImage, ShowStored, vars
    <3> QED BY <3>1 DEF IndInv, Drawing, Thread
  <2>3. (LostBefore' <=> LostBefore) /\ (TimerRuns' <=> TimerRuns)
    BY <2>1, <2>2 DEF LostBefore, TimerRuns, Time
  <2> QED BY <2>1, <2>3 DEF TimerInv
<1>5. CASE Draw("video") \/ Draw("receive")
  BY <1>5, DrawTimer DEF Thread
<1>8. CASE InsertAnswer
  <2>1. UNCHANGED <<link, lostAt, lostShownAt, clock, polled, receiveError, errorStartTime, draw>>
    BY <1>8 DEF InsertAnswer, shown, net, timer
  <2>2. (LostBefore' <=> LostBefore) /\ (TimerRuns' <=> TimerRuns)
    BY <2>1 DEF LostBefore, TimerRuns, Time
  <2> QED BY <2>1, <2>2 DEF TimerInv
<1>6. CASE VideoNext
  BY <1>4, <1>5, <1>6 DEF VideoNext
<1>7. CASE ReceiveNext
  BY <1>3, <1>5, <1>7, <1>8, ReceiveNothingTimer
  DEF ReceiveNext, ReceiveLogin, IgnoreAnswer, AnswerNotShown, AnswerWithoutImage, ShowAnswer
<1> QED BY <1>1, <1>2, <1>4, <1>6, <1>7, TickTimer DEF Next

(***************************************************************************)
(* The loss is shown in time, for every Patience and clock: whole seconds  *)
(* cost at most one more than Patience, and a timer left running by an     *)
(* earlier loss only makes it sooner.                                      *)
(***************************************************************************)
THEOREM LossIsShown == Spec => []LossShown
<1>1. Init => TimerInv
  BY DEF Init, TimerInv
<1>2. IndInv /\ TimerInv => LossShown
  <2> SUFFICES ASSUME IndInv, TimerInv, FailingSince(Limit)
               PROVE  clock - lostShownAt < Limit
    BY DEF LossShown
  <2>1. link = "down" /\ polled /\ draw["receive"] = <<>> /\ clock - lostAt >= Limit
    BY DEF FailingSince, Idle
  <2>2. LostBefore /\ Time - errorStartTime <= Patience
    BY <2>1 DEF TimerInv, TimerRuns
  <2>3. draw["receive"] # UpdateLost
    BY <2>1, LostFlag
  <2>4. Limit \in Nat
    BY Constants DEF Limit
  <2>5. CASE errorStartTime <= lostAt \div Second
    <3>1. clock \div Second - lostAt \div Second <= Patience
      BY <2>2, <2>5, TimerTyped, Constants DEF Time
    <3>2. clock - lostAt < Limit
      BY <3>1, DivGap, TimerTyped, Constants DEF Limit
    <3> QED BY <2>1, <2>4, <3>2, TimerTyped
  <2>6. CASE errorStartTime <= lostShownAt \div Second
    <3>1. clock \div Second - lostShownAt \div Second <= Patience
      BY <2>2, <2>6, TimerTyped, Constants DEF Time
    <3> QED BY <3>1, DivGap, TimerTyped, Constants DEF Limit
  <2> QED BY <2>2, <2>3, <2>5, <2>6 DEF LostBefore
<1> QED BY <1>1, <1>2, NextTimer, IndInvariant, PTL DEF Spec

-----------------------------------------------------------------------------
(* The order of the matches.  A match that was shown, or is to be, left its *)
(* trace in the maps of its track; what the receive thread is drawing was   *)
(* the best match when it looked, and nobody else writes those maps.        *)
Pending(t) == TextsOf(draw[t])

Known(m)  == /\ m.dist = Exact => HasExact(m.uid)
             /\ m.dist = 1 => mapPuidMatchStatus[m.uid] = Dist1Matched
Newest(m) == /\ m.dist # Exact => ~HasExact(m.uid)
             /\ m.dist = 2 => mapPuidMatchStatus[m.uid] # Dist1Matched

MatchInv ==
  /\ \A m \in drawn : m \in Texts /\ Known(m)
  /\ \A t \in Thread : \A m \in Pending(t) : m \in Texts /\ Known(m)
  /\ \A m \in Pending("video") : m.dist = Exact
  /\ \A m \in Pending("receive") : Newest(m)

\* what a thread writes, and what it has written
LEMMA DrawPending ==
  ASSUME IndInv, NEW t \in Thread, Draw(t)
  PROVE  /\ TextsOf(draw'[t]) \subseteq TextsOf(draw[t])
         /\ drawn' \subseteq drawn \cup TextsOf(draw[t]) /\ drawn \subseteq drawn'
         /\ \A p \in Pane : \/ display'.text[p] \in {display.text[p], Blank}
                            \/ /\ display'.text[p] \in TextsOf(draw[t]) \cap drawn'
                               /\ draw[t][1].field = "text" /\ draw[t][1].pane = p
                               /\ draw[t][1].value = display'.text[p]
<1> DEFINE w == draw[t][1]
<1>1. draw[t] \in Seq(Writes) /\ draw[t] # <<>> /\ Paired(draw[t]) /\ Len(draw[t]) \in Nat \ {0}
      /\ w \in Writes /\ draw'[t] = Tail(draw[t]) /\ display \in Displays
  BY DrawStep DEF IndInv
<1>2. TextsOf(draw'[t]) \subseteq TextsOf(draw[t])
  BY <1>1, TailWrites
<1>3. w.field = "text" /\ w.value # Blank => w.value \in TextsOf(draw[t])
  <2>1. 1 \in 1..Len(draw[t])
    BY <1>1
  <2> QED BY <2>1 DEF TextsOf
<1>4. CASE w.field = "text"
  <2>1. /\ display'.text = [display.text EXCEPT ![w.pane] = w.value]
        /\ drawn' = IF w.value # Blank THEN drawn \cup {w.value} ELSE drawn
    BY <1>4, DrawText
  <2>2. \A p \in Pane : display'.text[p] = IF p = w.pane THEN w.value ELSE display.text[p]
    BY <1>1, <2>1 DEF Displays
  <2> QED BY <1>2, <1>3, <1>4, <2>1, <2>2
<1>5. CASE w.field # "text"
  <2>1. display'.text = display.text /\ drawn' = drawn
    BY <1>1, <1>5, WriteTypes, DrawFlag, DrawImage
  <2> QED BY <1>2, <2>1
<1> QED BY <1>4, <1>5

LEMMA PendingTyped ==
  ASSUME IndInv, NEW t \in Thread
  PROVE  Pending(t) \subseteq Texts
<1>1. draw[t] \in Seq(Writes)
  BY DEF IndInv, Drawing
<1> SUFFICES ASSUME NEW k \in 1..Len(draw[t]), draw[t][k].field = "text",
                    draw[t][k].value # Blank
             PROVE  draw[t][k].value \in Texts
  BY DEF Pending, TextsOf
<1>2. draw[t][k] \in Writes
  BY <1>1
<1> QED BY <1>2, WriteTypes

LEMMA StoredMatch ==
  ASSUME IndInv, MatchInv, ShowStored
  PROVE  MatchInv'
<1>1. /\ rec.uid \in Track /\ draw["video"] = <<>> /\ Drawing
      /\ UNCHANGED <<mapVehicleJson, mapPuidMatchStatus, newJson, drawn>>
  BY DEF ShowStored, IndInv, Recording, shown
<1>2. /\ draw'["receive"] = draw["receive"]
      /\ \A m \in TextsOf(draw'["video"]) : m \in Texts /\ m.dist = Exact /\ mapVehicleJson[m.uid] # Blank
  <2>1. CASE mapVehicleJson[rec.uid] # Blank
    <3>1. PICK text \in Texts : text = mapVehicleJson[rec.uid] /\ text.uid = rec.uid
                                /\ text.dist = Exact
      BY <1>1, <2>1 DEF IndInv, Stored
    <3>2. draw' = [draw EXCEPT !["video"] = UpdateVinfo(text, text.uid)]
      BY <2>1, <3>1 DEF ShowStored
    <3>3. Begins(UpdateVinfo(text, text.uid)) /\ TextsOf(UpdateVinfo(text, text.uid)) \subseteq {text}
      BY AnswerBegins
    <3>4. draw'["video"] = UpdateVinfo(text, text.uid) /\ draw'["receive"] = draw["receive"]
      BY <1>1, <3>2, <3>3, BeginsDrawing DEF Thread
    <3> QED BY <2>1, <3>1, <3>3, <3>4
  <2>2. CASE mapVehicleJson[rec.uid] = Blank
    <3>1. draw' = draw
      BY <2>2 DEF ShowStored
    <3> QED BY <1>1, <3>1, EmptyBegins
  <2> QED BY <2>1, <2>2
<1>3. \A m : m.dist = Exact => m.dist # 1
  BY DEF Exact
<1> QED BY <1>1, <1>2, <1>3 DEF MatchInv, Pending, Known, Newest, HasExact, Thread

\* the maps of a track that has an answer keep it
LEMMA NotedMatch ==
  ASSUME IndInv, MatchInv, NEW a \in responses \ {Login}, NoteMatch(a),
         draw["receive"] = <<>>, drawn' = drawn, draw'["video"] = draw["video"],
         \A u \in Track : HasExact(u) => HasExact(u)'
  PROVE  /\ \A m \in drawn' : m \in Texts /\ Known(m)'
         /\ \A m \in TextsOf(draw'["video"]) : m \in Texts /\ Known(m)' /\ m.dist = Exact
<1>1. /\ mapPuidMatchStatus' \in [Track -> 0..Dist1Matched]
      /\ \A u \in Track : mapPuidMatchStatus'[u] >= mapPuidMatchStatus[u]
  BY NoteMatchTyped
<1>2. ASSUME NEW m \in Texts, Known(m) PROVE Known(m)'
  <2>1. m.uid \in Track
    BY <1>2, BlankText
  <2>2. mapPuidMatchStatus[m.uid] = 2 => mapPuidMatchStatus'[m.uid] = 2
    <3>1. mapPuidMatchStatus'[m.uid] \in 0..2 /\ mapPuidMatchStatus'[m.uid] >= mapPuidMatchStatus[m.uid]
      BY <1>1, <2>1 DEF Dist1Matched
    <3> QED BY <3>1
  <2> QED BY <1>2, <2>1, <2>2 DEF Known, Dist1Matched
<1> QED BY <1>2 DEF MatchInv, Pending, Thread

LEMMA ShowAnswerMatch ==
  ASSUME IndInv, MatchInv, NEW a \in responses \ {Login}, ShowAnswer(a)
  PROVE  MatchInv'
<1>1. ShownAnswer(a) /\ draw["receive"] = <<>> /\ newJson = Blank
      /\ a.dist # NoMatch /\ NoteMatch(a)
      /\ ~Outdated(a) /\ Shows(a) /\ drawn' = drawn
  BY ShowAnswerDraws DEF ShowAnswer, Receive, shown
<1>2. PICK text \in Texts : /\ text = Text(a, CurExactCount(a))
                            /\ a.uid \in Track /\ text.uid = a.uid /\ text.dist = a.dist
  BY <1>1, AnswerTyped
<1>3. /\ draw'["video"] = draw["video"]
      /\ TextsOf(draw'["receive"]) \subseteq {text}
  <2>1. "receive" \in Thread /\ "video" \in Thread /\ "receive" # "video" /\ Drawing
    BY DEF Thread, IndInv
  <2> QED BY <1>1, <1>2, <2>1, BeginsDrawing DEF ShownAnswer
<1>4. /\ \A u \in Track : HasExact(u) => HasExact(u)'
      /\ a.dist = Exact => HasExact(a.uid)'
      /\ a.dist # Exact => ~(HasExact(a.uid)')
  <2>1. /\ mapVehicleJson' = mapVehicleJson /\ newJson' = IF a.dist = Exact THEN text ELSE Blank
        /\ Blank.uid = 0 /\ 0 \notin Track
    BY <1>1, <1>2, BlankText, Constants DEF ShownAnswer, Track
  <2>2. \A u \in Track : HasExact(u) => HasExact(u)'
    BY <1>1, <2>1 DEF HasExact
  <2>3. a.dist = Exact => HasExact(a.uid)'
    BY <1>2, <2>1 DEF HasExact
  <2>4. a.dist # Exact => ~(HasExact(a.uid)')
    BY <1>1, <1>2, <2>1 DEF HasExact, Shows
  <2> QED BY <2>2, <2>3, <2>4
<1>5. /\ a.dist = 1 => mapPuidMatchStatus'[a.uid] = Dist1Matched
      /\ a.dist = 2 => mapPuidMatchStatus'[a.uid] # Dist1Matched
  BY <1>1, NoteMatchTyped
<1>6. Known(text)' /\ Newest(text)'
  BY <1>2, <1>4, <1>5 DEF Known, Newest
<1>7. /\ \A m \in drawn' : m \in Texts /\ Known(m)'
      /\ \A m \in TextsOf(draw'["video"]) : m \in Texts /\ Known(m)' /\ m.dist = Exact
  BY <1>1, <1>3, <1>4, NotedMatch
<1>8. \A m \in TextsOf(draw'["receive"]) : m \in Texts /\ Known(m)' /\ Newest(m)'
  BY <1>2, <1>3, <1>6
<1> QED BY <1>7, <1>8 DEF MatchInv, Pending, Thread

LEMMA NextMatch == IndInv /\ MatchInv /\ [Next]_vars => MatchInv'
<1> SUFFICES ASSUME IndInv, MatchInv, [Next]_vars PROVE MatchInv'
  OBVIOUS
<1>1. CASE UNCHANGED <<mapVehicleJson, newJson, mapPuidMatchStatus, draw, drawn>>
  BY <1>1 DEF MatchInv, Pending, Known, Newest, HasExact
<1>2. CASE \/ \E rs \in Plate, uid \in Track, crop \in BOOLEAN : setRecognizedInfo(rs, uid, crop)
           \/ sendRecognizedInfo \/ StoreImage \/ LoseConnection \/ Reconnect \/ Tick
           \/ ReceiveLogin
           \/ \E a \in responses \ {Login} : IgnoreAnswer(a) \/ AnswerWithoutImage(a)
           \/ UNCHANGED vars
  <2>1. UNCHANGED <<mapVehicleJson, newJson, mapPuidMatchStatus, draw, drawn>>
    BY <1>2 DEF setRecognizedInfo, sendRecognizedInfo, StoreImage, LoseConnection, Reconnect, Tick,
       ReceiveLogin, IgnoreAnswer, AnswerWithoutImage, Receive, vars, maps, shown
  <2> QED BY <1>1, <2>1
<1>3. ASSUME NEW a \in responses \ {Login}, AnswerNotShown(a) PROVE MatchInv'
  <2>1. NoteMatch(a) /\ UNCHANGED <<mapVehicleJson, newJson, draw, drawn>> /\ draw["receive"] = <<>>
    BY <1>3 DEF AnswerNotShown, Receive, shown, Idle
  <2>2. /\ \A m \in drawn' : m \in Texts /\ Known(m)'
        /\ \A m \in TextsOf(draw'["video"]) : m \in Texts /\ Known(m)' /\ m.dist = Exact
    BY <2>1, NotedMatch DEF HasExact
  <2>3. TextsOf(draw'["receive"]) = {}
    BY <2>1, EmptyBegins
  <2> QED BY <2>2, <2>3 DEF MatchInv, Pending, Thread
<1>4. CASE ReceiveNothing
  <2>1. UNCHANGED <<mapVehicleJson, newJson, mapPuidMatchStatus, drawn>> /\ draw["receive"] = <<>>
        /\ "receive" \in Thread /\ "video" \in Thread /\ "receive" # "video" /\ Drawing
    BY <1>4 DEF ReceiveNothing, maps, shown, Idle, Thread, IndInv
  <2>2. draw' = draw \/ draw' = [draw EXCEPT !["receive"] = UpdateLost]
    BY <1>4 DEF ReceiveNothing
  <2>3. Begins(UpdateLost) /\ TextsOf(UpdateLost) = {}
    BY FlagBegins DEF UpdateLost
  <2>4. draw'["video"] = draw["video"] /\ TextsOf(draw'["receive"]) = {}
    BY <2>1, <2>2, <2>3, BeginsDrawing, EmptyBegins
  <2> QED BY <2>1, <2>4 DEF MatchInv, Pending, Known, HasExact, Thread
<1>5. ASSUME NEW t \in Thread, Draw(t) PROVE MatchInv'
  <2>1. /\ UNCHANGED <<mapVehicleJson, newJson, mapPuidMatchStatus>>
        /\ \A u \in Thread : u # t => draw'[u] = draw[u]
    BY <1>5, DrawStep DEF maps
  <2>2. TextsOf(draw'[t]) \subseteq TextsOf(draw[t]) /\ drawn' \subseteq drawn \cup TextsOf(draw[t])
    BY <1>5, DrawPending
  <2>3. \A u \in Thread : TextsOf(draw'[u]) \subseteq TextsOf(draw[u])
    BY <2>1, <2>2
  <2>4. \A m : (Known(m)' <=> Known(m)) /\ (Newest(m)' <=> Newest(m))
    BY <2>1 DEF Known, Newest, HasExact
  <2>5. \A m \in drawn' : m \in Texts /\ Known(m)
    BY <2>2 DEF MatchInv, Pending
  <2>6. /\ \A u \in Thread : \A m \in TextsOf(draw'[u]) : m \in Texts /\ Known(m)
        /\ \A m \in TextsOf(draw'["video"]) : m.dist = Exact
        /\ \A m \in TextsOf(draw'["receive"]) : Newest(m)
    BY <2>3 DEF MatchInv, Pending, Thread
  <2> QED BY <2>4, <2>5, <2>6 DEF MatchInv, Pending
<1>8. CASE InsertAnswer
  <2>1. /\ UNCHANGED <<mapPuidMatchStatus, draw, drawn>>
        /\ \A u \in Track : HasExact(u)' <=> HasExact(u)
    BY <1>8, InsertStep DEF shown
  <2>2. \A m \in Texts : (Known(m)' <=> Known(m)) /\ (Newest(m)' <=> Newest(m))
    BY <2>1, BlankText DEF Known, Newest
  <2>3. \A t \in Thread : Pending(t)' = Pending(t) /\ Pending(t) \subseteq Texts
    BY <2>1, PendingTyped DEF Pending
  <2> QED BY <2>1, <2>2, <2>3 DEF MatchInv, Thread
<1>6. CASE VideoNext
  BY <1>2, <1>5, <1>6, StoredMatch DEF VideoNext, Thread
<1>7. CASE ReceiveNext
  <2>1. ASSUME NEW a \in responses \ {Login},
               IgnoreAnswer(a) \/ AnswerNotShown(a) \/ AnswerWithoutImage(a) \/ ShowAnswer(a)
        PROVE  MatchInv'
    BY <1>2, <1>3, <2>1, ShowAnswerMatch
  <2> QED BY <1>2, <1>4, <1>5, <1>7, <1>8, <2>1 DEF ReceiveNext, Thread
<1> QED BY <1>2, <1>6, <1>7 DEF Next

(***************************************************************************)
(* A coarser match of a track never replaces a finer one on the display,   *)
(* although answers come in any order and two threads draw: the status of  *)
(* the track is noted before an answer is drawn, and the video thread only *)
(* draws exact ones.                                                       *)
(***************************************************************************)
THEOREM CoarserNeverShown == Spec => NeverCoarser
<1> DEFINE A == \A p \in Pane :
                  display'.text[p] \notin {display.text[p], Blank} =>
                    \A m \in drawn : m.uid = display'.text[p].uid => display'.text[p].dist <= m.dist
<1>1. Init => MatchInv
  BY EmptyBegins DEF Init, MatchInv, Pending, Thread
<1>2. IndInv /\ MatchInv /\ [Next]_vars => [A]_vars
  <2> SUFFICES ASSUME IndInv, MatchInv, [Next]_vars, NEW p \in Pane,
                      display'.text[p] \notin {display.text[p], Blank},
                      NEW m \in drawn, m.uid = display'.text[p].uid
               PROVE  display'.text[p].dist <= m.dist
    BY DEF vars
  <2>1. PICK t \in Thread : Draw(t)
    BY DrawSteps DEF shown
  <2> DEFINE new == display'.text[p]
  <2>2. new \in TextsOf(draw[t])
    BY <2>1, DrawPending
  <2> HIDE DEF new
  <2>3. new \in Texts /\ Known(new) /\ m \in Texts /\ Known(m) /\ m.uid = new.uid
    BY <2>2 DEF MatchInv, Pending, new
  <2>4. new.dist \in 0..2 /\ m.dist \in 0..2
    BY <2>3, BlankText
  <2>5. new.dist = Exact \/ Newest(new)
    BY <2>1, <2>2 DEF MatchInv, Pending, Thread
  <2>6. CASE new.dist = Exact
    BY <2>4, <2>6 DEF Exact, new
  <2>7. CASE new.dist # Exact /\ Newest(new)
    <3>1. m.dist # Exact
      BY <2>3, <2>7 DEF Known, Newest
    <3>2. new.dist = 2 => m.dist # 1
      BY <2>3, <2>7 DEF Known, Newest
    <3>3. new.dist <= m.dist
      BY <2>4, <2>7, <3>1, <3>2 DEF Exact
    <3> QED BY <3>3 DEF new
  <2> QED BY <2>5, <2>6, <2>7
<1>3. (Spec => [][A]_vars) => (Spec => NeverCoarser)
  BY DEF NeverCoarser
<1> QED BY <1>1, <1>2, <1>3, NextMatch, IndInvariant, PTL DEF Spec

-----------------------------------------------------------------------------
(* One match per track.  Whatever was shown of a track is counted, so the   *)
(* next match clears the panes first; until its counter is set back.        *)
CountInv ==
  /\ \A u \in Track \ recounted : HasExact(u) => mapPlateMatchCount[u] > 0
  /\ \A m \in drawn : m.uid \notin recounted => mapPlateMatchCount[m.uid] > 0
  /\ \A t \in Thread : \A m \in Pending(t) : m.uid \notin recounted => mapPlateMatchCount[m.uid] > 0
  /\ \A p \in Pane : display.text[p] \in drawn \cup {Blank}
  /\ Orderly(draw["receive"])

\* a match that is not exact stays on a pane: nothing clears it
Stays(p) == /\ display.text[p] # Blank /\ display.text[p].dist # Exact
            /\ display.text[p].uid \notin recounted /\ ~Clears(draw["receive"], p)

Alone ==
  \A p \in Pane : Stays(p) =>
    /\ ~HasExact(display.text[p].uid)
    /\ \A q \in Pane : /\ display.text[q] # Blank /\ display.text[q].uid = display.text[p].uid
                       /\ ~Clears(draw["receive"], q)
                       => display.text[q] = display.text[p]
    /\ \A m \in Pending("receive") : m.uid = display.text[p].uid => m = display.text[p]

LEMMA SameAlone ==
  ASSUME Alone, UNCHANGED <<display, mapVehicleJson, newJson>>, recounted \subseteq recounted',
         TextsOf(draw'["receive"]) = TextsOf(draw["receive"]),
         \A p \in Pane : Clears(draw'["receive"], p) <=> Clears(draw["receive"], p)
  PROVE  Alone'
  BY DEF Alone, Stays, Pending, HasExact

LEMMA StoredCount ==
  ASSUME IndInv, CountInv, Alone, ShowStored
  PROVE  CountInv' /\ Alone'
<1>1. /\ rec.uid \in Track /\ draw["video"] = <<>> /\ Drawing
      /\ UNCHANGED <<mapVehicleJson, newJson, drawn, display>>
      /\ recounted' = recounted \cup {u \in Track : mapPlateMatchCount'[u] < mapPlateMatchCount[u]}
  BY DEF ShowStored, IndInv, Recording, shown
<1>2. /\ draw'["receive"] = draw["receive"]
      /\ \A m \in TextsOf(draw'["video"]) : m \in Texts /\ mapVehicleJson[m.uid] # Blank
  <2>1. CASE mapVehicleJson[rec.uid] # Blank
    <3>1. PICK text \in Texts : text = mapVehicleJson[rec.uid] /\ text.uid = rec.uid
      BY <1>1, <2>1 DEF IndInv, Stored
    <3>2. draw' = [draw EXCEPT !["video"] = UpdateVinfo(text, text.uid)]
      BY <2>1, <3>1 DEF ShowStored
    <3>3. Begins(UpdateVinfo(text, text.uid)) /\ TextsOf(UpdateVinfo(text, text.uid)) \subseteq {text}
      BY AnswerBegins
    <3>4. draw'["video"] = UpdateVinfo(text, text.uid) /\ draw'["receive"] = draw["receive"]
      BY <1>1, <3>2, <3>3, BeginsDrawing DEF Thread
    <3> QED BY <2>1, <3>1, <3>3, <3>4
  <2>2. CASE mapVehicleJson[rec.uid] = Blank
    <3>1. draw' = draw
      BY <2>2 DEF ShowStored
    <3> QED BY <1>1, <3>1, EmptyBegins
  <2> QED BY <2>1, <2>2
<1>3. \A u \in Track \ recounted' : mapPlateMatchCount[u] > 0 => mapPlateMatchCount'[u] > 0
  <2>1. mapPlateMatchCount \in [Track -> Nat] /\ mapPlateMatchCount' \in [Track -> Nat]
    BY ShowStoredInd DEF IndInv, TypeOK
  <2> SUFFICES ASSUME NEW u \in Track, u \notin recounted', mapPlateMatchCount[u] > 0
               PROVE  mapPlateMatchCount'[u] > 0
    OBVIOUS
  <2>2. ~(mapPlateMatchCount'[u] < mapPlateMatchCount[u])
    BY <1>1
  <2>3. mapPlateMatchCount[u] \in Nat /\ mapPlateMatchCount'[u] \in Nat
    BY <2>1
  <2> QED BY <2>2, <2>3
<1>4. /\ drawn \subseteq Texts /\ Pending("receive") \subseteq Texts
      /\ \A m \in Texts : m.uid \in Track
  BY PendingTyped, BlankText DEF IndInv, TypeOK, Thread
<1>5. /\ \A u \in Track \ recounted' : HasExact(u) => mapPlateMatchCount'[u] > 0
      /\ \A m \in drawn : m.uid \notin recounted' => mapPlateMatchCount'[m.uid] > 0
      /\ \A m \in Pending("receive") : m.uid \notin recounted' => mapPlateMatchCount'[m.uid] > 0
  <2>1. recounted \subseteq recounted'
    BY <1>1
  <2>2. /\ \A u \in Track \ recounted : HasExact(u) => mapPlateMatchCount[u] > 0
        /\ \A m \in drawn : m.uid \notin recounted => mapPlateMatchCount[m.uid] > 0
        /\ \A m \in Pending("receive") : m.uid \notin recounted => mapPlateMatchCount[m.uid] > 0
    BY DEF CountInv, Thread
  <2> QED BY <1>3, <1>4, <2>1, <2>2
<1>6. \A m \in TextsOf(draw'["video"]) : m.uid \notin recounted' => mapPlateMatchCount'[m.uid] > 0
  BY <1>2, <1>4, <1>5 DEF HasExact
<1>7. CountInv'
  <2>1. \A t \in Thread : \A m \in Pending(t)' : m.uid \notin recounted' => mapPlateMatchCount'[m.uid] > 0
    BY <1>2, <1>5, <1>6 DEF Pending, Thread
  <2>2. Orderly(draw'["receive"]) /\ \A p \in Pane : display'.text[p] \in drawn' \cup {Blank}
    BY <1>1, <1>2 DEF CountInv
  <2> QED BY <1>1, <1>5, <2>1, <2>2 DEF CountInv, HasExact
<1>8. Alone'
  BY <1>1, <1>2, SameAlone
<1> QED BY <1>7, <1>8

LEMMA ShowAnswerCount ==
  ASSUME IndInv, CountInv, Alone, NEW a \in responses \ {Login}, ShowAnswer(a)
  PROVE  CountInv' /\ Alone'
<1>1. ShownAnswer(a) /\ draw["receive"] = <<>> /\ newJson = Blank /\ a.dist # NoMatch
      /\ UNCHANGED <<drawn, display, recounted>>
  BY ShowAnswerDraws DEF ShowAnswer, Receive, shown
<1>2. PICK text \in Texts : /\ text = Text(a, CurExactCount(a))
                            /\ a.uid \in Track /\ text.uid = a.uid /\ text.dist = a.dist
  BY <1>1, AnswerTyped
<1>3. /\ draw'["video"] = draw["video"] /\ TextsOf(draw'["receive"]) \subseteq {text}
      /\ Orderly(draw'["receive"])
      /\ mapPlateMatchCount[a.uid] > 0 => \A p \in Pane : Clears(draw'["receive"], p)
  <2>1. "receive" \in Thread /\ "video" \in Thread /\ "receive" # "video" /\ Drawing
    BY DEF Thread, IndInv
  <2> QED BY <1>1, <1>2, <2>1, BeginsDrawing DEF ShownAnswer
<1>4. /\ mapPlateMatchCount'[a.uid] > 0
      /\ \A u \in Track : mapPlateMatchCount[u] > 0 => mapPlateMatchCount'[u] > 0
  <2>1. mapPlateMatchCount \in [Track -> Nat]
    BY DEF IndInv, TypeOK
  <2>2. mapPlateMatchCount' = [mapPlateMatchCount EXCEPT ![a.uid] = mapPlateMatchCount[a.uid] + 1]
    BY <1>1 DEF ShownAnswer
  <2>3. mapPlateMatchCount[a.uid] \in Nat /\ mapPlateMatchCount'[a.uid] = mapPlateMatchCount[a.uid] + 1
    BY <1>2, <2>1, <2>2
  <2>4. \A u \in Track : u # a.uid => mapPlateMatchCount'[u] = mapPlateMatchCount[u]
    BY <1>2, <2>1, <2>2
  <2> QED BY <2>3, <2>4
<1>5. \A u \in Track : u # a.uid => (HasExact(u)' <=> HasExact(u))
  <2>1. /\ mapVehicleJson' = mapVehicleJson /\ newJson' = IF a.dist = Exact THEN text ELSE Blank
        /\ Blank.uid = 0 /\ 0 \notin Track
    BY <1>1, <1>2, BlankText, Constants DEF ShownAnswer, Track
  <2> QED BY <1>1, <1>2, <2>1 DEF HasExact
<1>6. \A m \in drawn \cup Pending("video") : m \in Texts /\ m.uid \in Track
  BY PendingTyped, BlankText DEF IndInv, TypeOK, Thread
<1>7. CountInv'
  <2>1. \A u \in Track \ recounted' : HasExact(u)' => mapPlateMatchCount'[u] > 0
    BY <1>1, <1>4, <1>5 DEF CountInv
  <2>2. \A m \in drawn \cup Pending("video") : m.uid \notin recounted => mapPlateMatchCount'[m.uid] > 0
    BY <1>4, <1>6 DEF CountInv, Thread
  <2>3. \A t \in Thread : \A m \in Pending(t)' : m.uid \notin recounted' => mapPlateMatchCount'[m.uid] > 0
    BY <1>1, <1>2, <1>3, <1>4, <2>2 DEF Pending, Thread
  <2>4. \A p \in Pane : display'.text[p] \in drawn' \cup {Blank}
    BY <1>1 DEF CountInv
  <2> QED BY <1>1, <1>3, <2>1, <2>2, <2>3, <2>4 DEF CountInv
<1>8. Alone'
  <2> SUFFICES ASSUME NEW p \in Pane, Stays(p)'
               PROVE  /\ ~(HasExact(display.text[p].uid)')
                      /\ \A q \in Pane : /\ display'.text[q] # Blank
                                         /\ display'.text[q].uid = display'.text[p].uid
                                         /\ ~Clears(draw'["receive"], q)
                                         => display'.text[q] = display'.text[p]
                      /\ \A m \in TextsOf(draw'["receive"]) :
                           m.uid = display'.text[p].uid => m = display'.text[p]
    BY DEF Alone, Pending
  <2>1. /\ display.text[p] \in drawn /\ display.text[p].uid \notin recounted
        /\ display.text[p].uid \in Track /\ Stays(p)
        /\ \A q \in Pane : ~Clears(draw["receive"], q)
    BY <1>1, <1>6, EmptyBegins DEF Stays, CountInv
  <2>2. display.text[p].uid # a.uid
    <3>1. mapPlateMatchCount[display.text[p].uid] > 0
      BY <2>1 DEF CountInv
    <3>2. ~Clears(draw'["receive"], p)
      BY DEF Stays
    <3> QED BY <1>3, <3>1, <3>2
  <2> QED BY <1>1, <1>2, <1>3, <1>5, <2>1, <2>2 DEF Alone
<1> QED BY <1>7, <1>8

\* the only text a thread draws once it does not clear
LEMMA OrderlyHead ==
  ASSUME NEW s \in Seq(Writes), s # <<>>, Orderly(s), s[1].field = "text", s[1].value # Blank
  PROVE  \A m \in TextsOf(s) : m = s[1].value
<1>1. 1 \in 1..Len(s)
  <2>1. Len(s) \in Nat \ {0}
    BY TailElements
  <2> QED BY <2>1
<1> QED BY <1>1 DEF Orderly, TextsOf

LEMMA DrawClears ==
  ASSUME IndInv, NEW t \in Thread, Draw(t), NEW p \in Pane, display'.text[p] # Blank,
         ~Clears(draw'["receive"], p)
  PROVE  ~Clears(draw["receive"], p)
<1>1. CASE t # "receive"
  <2>1. draw'["receive"] = draw["receive"]
    BY <1>1, DrawStep DEF Thread
  <2> QED BY <2>1
<1>2. CASE t = "receive"
  <2>1. draw[t] \in Seq(Writes) /\ draw[t] # <<>> /\ Paired(draw[t]) /\ draw'[t] = Tail(draw[t])
        /\ Head(draw[t]) = draw[t][1] /\ display \in Displays
    BY DrawStep DEF IndInv
  <2>2. ASSUME Clears(draw[t], p) PROVE FALSE
    <3>1. draw[t][1].field = "text" /\ draw[t][1].pane = p /\ draw[t][1].value = Blank
      BY <1>2, <2>1, <2>2, TailWrites
    <3>2. display'.text = [display.text EXCEPT ![p] = Blank]
      BY <3>1, DrawText
    <3>3. display'.text[p] = Blank
      BY <2>1, <3>2 DEF Displays
    <3> QED BY <3>3
  <2> QED BY <1>2, <2>2
<1> QED BY <1>1, <1>2

LEMMA DrawCount ==
  ASSUME IndInv, CountInv, NEW t \in Thread, Draw(t)
  PROVE  CountInv'
<1>1. /\ UNCHANGED <<mapVehicleJson, newJson, mapPlateMatchCount, recounted>>
      /\ \A u \in Thread : u # t => draw'[u] = draw[u]
      /\ draw[t] \in Seq(Writes) /\ draw[t] # <<>> /\ Paired(draw[t]) /\ draw'[t] = Tail(draw[t])
  BY DrawStep DEF maps
<1>2. /\ TextsOf(draw'[t]) \subseteq TextsOf(draw[t])
      /\ drawn' \subseteq drawn \cup TextsOf(draw[t]) /\ drawn \subseteq drawn'
      /\ \A p \in Pane : display'.text[p] \in {display.text[p], Blank} \cup drawn'
  BY DrawPending
<1>3. Orderly(draw'["receive"])
  BY <1>1, TailWrites DEF CountInv, Thread
<1>4. \A u \in Thread : TextsOf(draw'[u]) \subseteq TextsOf(draw[u])
  BY <1>1, <1>2
<1> QED BY <1>1, <1>2, <1>3, <1>4 DEF CountInv, Pending, HasExact

LEMMA DrawAlone ==
  ASSUME IndInv, MatchInv, CountInv, Alone, NEW t \in Thread, Draw(t)
  PROVE  Alone'
<1> DEFINE new(p) == display'.text[p]
           old(p) == display.text[p]
<1>1. /\ UNCHANGED <<mapVehicleJson, newJson, recounted>>
      /\ \A u \in Thread : u # t => draw'[u] = draw[u]
      /\ draw[t] \in Seq(Writes) /\ draw[t] # <<>>
  BY DrawStep DEF maps
<1>2. /\ TextsOf(draw'[t]) \subseteq TextsOf(draw[t])
      /\ \A p \in Pane : \/ new(p) \in {old(p), Blank}
                         \/ /\ new(p) \in TextsOf(draw[t])
                            /\ draw[t][1].field = "text" /\ draw[t][1].pane = p
                            /\ draw[t][1].value = new(p)
  BY DrawPending
<1>3. TextsOf(draw'["receive"]) \subseteq TextsOf(draw["receive"])
  BY <1>1, <1>2 DEF Thread
<1>4. \A p \in Pane : new(p) # Blank /\ ~Clears(draw'["receive"], p) => ~Clears(draw["receive"], p)
  BY DrawClears
<1>5. \A p \in Pane : old(p) \in drawn \cup {Blank}
  BY DEF CountInv
<1>6. /\ \A m \in drawn : m.dist = Exact => HasExact(m.uid)
      /\ \A m \in TextsOf(draw[t]) : m.dist = Exact => HasExact(m.uid)
      /\ t = "video" => \A m \in TextsOf(draw[t]) : m.dist = Exact
      /\ t = "receive" => \A m \in TextsOf(draw[t]) : m.dist # Exact => ~HasExact(m.uid)
  BY DEF MatchInv, Known, Newest, Pending
<1>7. \A p \in Pane : /\ old(p) # Blank /\ old(p).dist # Exact /\ old(p).uid \notin recounted
                      /\ ~Clears(draw["receive"], p)
        => /\ ~HasExact(old(p).uid)
           /\ \A q \in Pane : /\ old(q) # Blank /\ old(q).uid = old(p).uid
                              /\ ~Clears(draw["receive"], q)
                              => old(q) = old(p)
           /\ \A m \in TextsOf(draw["receive"]) : m.uid = old(p).uid => m = old(p)
  BY DEF Alone, Stays, Pending
<1>8. ASSUME NEW p \in Pane, Stays(p)'
      PROVE  /\ new(p) # Blank /\ new(p).dist # Exact /\ new(p).uid \notin recounted
             /\ ~Clears(draw["receive"], p)
  BY <1>1, <1>4, <1>8 DEF Stays
<1> HIDE DEF new, old
<1>9. ASSUME NEW p \in Pane, Stays(p)'
      PROVE  /\ ~HasExact(new(p).uid)
             /\ \A q \in Pane : /\ new(q) # Blank /\ new(q).uid = new(p).uid
                                /\ ~Clears(draw'["receive"], q)
                                => new(q) = new(p)
             /\ \A m \in TextsOf(draw'["receive"]) : m.uid = new(p).uid => m = new(p)
  <2>1. new(p) # Blank /\ new(p).dist # Exact /\ new(p).uid \notin recounted
        /\ ~Clears(draw["receive"], p)
    BY <1>8, <1>9
  <2>2. CASE new(p) = old(p)
    <3>1. /\ ~HasExact(new(p).uid)
          /\ \A m \in TextsOf(draw["receive"]) : m.uid = new(p).uid => m = new(p)
      BY <1>7, <2>1, <2>2
    <3>2. ASSUME NEW q \in Pane, new(q) # Blank, new(q).uid = new(p).uid,
                 ~Clears(draw'["receive"], q)
          PROVE  new(q) = new(p)
      <4>1. ~Clears(draw["receive"], q)
        BY <1>4, <3>2
      <4>2. CASE new(q) = old(q)
        BY <1>7, <2>1, <2>2, <3>2, <4>1, <4>2
      <4>3. CASE new(q) \in TextsOf(draw[t])
        <5>1. CASE t = "receive"
          BY <3>1, <3>2, <4>3, <5>1
        <5>2. CASE t = "video"
          BY <1>6, <3>1, <3>2, <4>3, <5>2
        <5> QED BY <5>1, <5>2 DEF Thread
      <4> QED BY <1>2, <3>2, <4>2, <4>3
    <3> QED BY <1>3, <3>1, <3>2
  <2>3. CASE /\ new(p) \in TextsOf(draw[t])
             /\ draw[t][1].field = "text" /\ draw[t][1].pane = p /\ draw[t][1].value = new(p)
    <3>1. t = "receive"
      BY <1>6, <2>1, <2>3 DEF Thread
    <3>2. ~HasExact(new(p).uid)
      BY <1>6, <2>1, <2>3, <3>1
    <3>3. \A m \in TextsOf(draw["receive"]) : m = new(p)
      BY <1>1, <2>1, <2>3, <3>1, OrderlyHead DEF CountInv
    <3>4. ASSUME NEW q \in Pane, new(q) # Blank, new(q).uid = new(p).uid,
                 ~Clears(draw'["receive"], q)
          PROVE  new(q) = new(p)
      <4>1. CASE new(q) \in TextsOf(draw[t])
        BY <3>1, <3>3, <4>1
      <4>2. CASE new(q) = old(q)
        <5>1. ~Clears(draw["receive"], q) /\ old(q) \in drawn
          BY <1>4, <1>5, <3>4, <4>2
        <5>2. old(q).dist # Exact
          BY <1>6, <3>2, <3>4, <4>2, <5>1
        <5>3. old(q).uid \notin recounted /\ new(p) \in TextsOf(draw["receive"])
          BY <2>1, <2>3, <3>1, <3>4, <4>2
        <5> QED BY <1>7, <3>4, <4>2, <5>1, <5>2, <5>3
      <4> QED BY <1>2, <3>4, <4>1, <4>2
    <3> QED BY <1>3, <3>2, <3>3, <3>4
  <2> QED BY <1>2, <2>1, <2>2, <2>3
<1>10. Alone'
  BY <1>1, <1>9 DEF Alone, Pending, HasExact, new
<1> QED BY <1>10

LEMMA NextAlone ==
  IndInv /\ MatchInv /\ CountInv /\ Alone /\ [Next]_vars => CountInv' /\ Alone'
<1> SUFFICES ASSUME IndInv, MatchInv, CountInv, Alone, [Next]_vars PROVE CountInv' /\ Alone'
  OBVIOUS
<1>1. CASE \/ \E rs \in Plate, uid \in Track, crop \in BOOLEAN : setRecognizedInfo(rs, uid, crop)
           \/ sendRecognizedInfo \/ StoreImage \/ LoseConnection \/ Reconnect \/ Tick
           \/ ReceiveLogin
           \/ \E a \in responses \ {Login} :
                IgnoreAnswer(a) \/ AnswerNotShown(a) \/ AnswerWithoutImage(a)
           \/ UNCHANGED vars
  <2>1. UNCHANGED <<mapVehicleJson, newJson, mapPlateMatchCount, draw, drawn, display, recounted>>
    BY <1>1 DEF setRecognizedInfo, sendRecognizedInfo, StoreImage, LoseConnection, Reconnect, Tick,
       ReceiveLogin, IgnoreAnswer, AnswerNotShown, AnswerWithoutImage, Receive, vars, maps, shown
  <2>2. CountInv'
    BY <2>1 DEF CountInv, Pending, HasExact
  <2> QED BY <2>1, <2>2, SameAlone
<1>2. CASE ReceiveNothing
  <2>1. /\ UNCHANGED <<mapVehicleJson, newJson, mapPlateMatchCount, drawn, display, recounted>>
        /\ draw["receive"] = <<>> /\ Drawing
        /\ "receive" \in Thread /\ "video" \in Thread /\ "receive" # "video"
    BY <1>2 DEF ReceiveNothing, maps, shown, Idle, Thread, IndInv
  <2>2. draw' = draw \/ draw' = [draw EXCEPT !["receive"] = UpdateLost]
    BY <1>2 DEF ReceiveNothing
  <2>3. Begins(UpdateLost) /\ TextsOf(UpdateLost) = {} /\ \A p : ~Clears(UpdateLost, p)
    BY FlagBegins DEF UpdateLost
  <2>4. /\ draw'["video"] = draw["video"] /\ TextsOf(draw'["receive"]) = {}
        /\ \A p : ~Clears(draw'["receive"], p)
    BY <2>1, <2>2, <2>3, BeginsDrawing, EmptyBegins
  <2>5. Orderly(draw'["receive"])
    BY <2>4, OneTextOrderly
  <2>6. CountInv'
    BY <2>1, <2>4, <2>5 DEF CountInv, Pending, HasExact, Thread
  <2>7. TextsOf(draw["receive"]) = {} /\ \A p : ~Clears(draw["receive"], p)
    BY <2>1, EmptyBegins
  <2> QED BY <2>1, <2>4, <2>6, <2>7, SameAlone
<1>5. CASE InsertAnswer
  <2>1. /\ UNCHANGED <<mapPlateMatchCount, draw, drawn, display, recounted>>
        /\ \A u \in Track : HasExact(u)' <=> HasExact(u)
    BY <1>5, InsertStep DEF shown
  <2>2. \A p \in Pane : display.text[p] # Blank => display.text[p].uid \in Track
    <3>1. drawn \subseteq Texts /\ \A p \in Pane : display.text[p] \in drawn \cup {Blank}
      BY DEF IndInv, TypeOK, CountInv
    <3> QED BY <3>1, BlankText
  <2>3. CountInv'
    BY <2>1 DEF CountInv, Pending
  <2>4. Alone'
    BY <2>1, <2>2 DEF Alone, Stays, Pending
  <2> QED BY <2>3, <2>4
<1>3. CASE VideoNext
  BY <1>1, <1>3, StoredCount, DrawCount, DrawAlone DEF VideoNext, Thread
<1>4. CASE ReceiveNext
  <2>1. ASSUME NEW a \in responses \ {Login},
               IgnoreAnswer(a) \/ AnswerNotShown(a) \/ AnswerWithoutImage(a) \/ ShowAnswer(a)
        PROVE  CountInv' /\ Alone'
    BY <1>1, <2>1, ShowAnswerCount
  <2> QED BY <1>1, <1>2, <1>4, <1>5, <2>1, DrawCount, DrawAlone DEF ReceiveNext, Thread
<1> QED BY <1>1, <1>3, <1>4 DEF Next

(***************************************************************************)
(* The panes never show two matches of one track, apart from two exact     *)
(* ones, unless ShowStored() set the counter of the track back: an earlier *)
(* match is cleared before a later one is drawn, and no thread draws it    *)
(* again.                                                                  *)
(***************************************************************************)
THEOREM TracksShownOnce == Spec => []OneMatchPerTrack
<1>1. Init => CountInv /\ Alone
  <2>1. ASSUME Init  PROVE  CountInv
    <3>1. /\ draw["video"] = <<>> /\ draw["receive"] = <<>>
          /\ mapVehicleJson = [u \in Track |-> Blank] /\ newJson = Blank /\ drawn = {}
          /\ \A p \in Pane : display.text[p] = Blank
      BY <2>1 DEF Init, Thread
    <3>2. \A t \in Thread : Pending(t) = {}
      BY <3>1, EmptyBegins DEF Pending, Thread
    <3>3. Orderly(draw["receive"])
      <4>1. TextsOf(<<>>) \subseteq {Blank} /\ \A p : ~Clears(<<>>, p)
        BY EmptyBegins
      <4> QED BY <3>1, <4>1, OneTextOrderly
    <3>4. \A u \in Track : ~HasExact(u)
      <4>1. Blank.uid = 0 /\ 0 \notin Track
        BY BlankText, Constants DEF Track
      <4> QED BY <3>1, <4>1 DEF HasExact
    <3> QED BY <3>1, <3>2, <3>3, <3>4 DEF CountInv
  <2>2. Init => Alone
    BY DEF Init, Alone, Stays
  <2> QED BY <2>1, <2>2
<1>2. Init => MatchInv
  BY EmptyBegins DEF Init, MatchInv, Pending, Thread
<1>3. IndInv /\ Alone => OneMatchPerTrack
  <2> DEFINE normal == display.text["normal"]
             alert  == display.text["alert"]
  <2> SUFFICES ASSUME IndInv, Alone, \A t \in Thread : draw[t] = <<>>,
                      normal # Blank, alert # Blank, normal.uid = alert.uid, normal # alert,
                      {normal.dist, alert.dist} # {Exact}, normal.uid \notin recounted
               PROVE  FALSE
    BY DEF OneMatchPerTrack
  <2>1. \A p : ~Clears(draw["receive"], p)
    BY EmptyBegins DEF Thread
  <2>2. "normal" \in Pane /\ "alert" \in Pane
    BY DEF Pane
  <2>3. CASE normal.dist # Exact
    <3>1. Stays("normal")
      BY <2>1, <2>3 DEF Stays
    <3> QED BY <2>1, <2>2, <3>1 DEF Alone
  <2>4. CASE alert.dist # Exact
    <3>1. Stays("alert")
      BY <2>1, <2>4 DEF Stays
    <3> QED BY <2>1, <2>2, <3>1 DEF Alone
  <2> QED BY <2>3, <2>4
<1> QED BY <1>1, <1>2, <1>3, NextMatch, NextAlone, IndInvariant, PTL DEF Spec

-----------------------------------------------------------------------------
(* The images.  A track begins with an image, which the video thread stores *)
(* before it goes on to another text: every track has one but the track it  *)
(* is working on, whose only text was not yet answered while it is sent.    *)
Storing(u) == /\ vpc \in {"sending", "storing"} /\ rec.uid = u
              /\ vpc = "sending" => rec.crop

ImageInv ==
  /\ \A p \in Plate : mapVehicleNum[p] <= plate_uid
  /\ \A u \in 1..plate_uid : u \in mapVehicleImg \/ Storing(u)
  /\ vpc = "sending" =>
       /\ \A a \in responses \ {Login} : a.plate # rec.rs
       /\ rec.uid \notin mapVehicleImg =>
            \A p \in Plate : mapVehicleNum[p] = rec.uid => p = rec.rs

LEMMA RecognisedImage ==
  ASSUME IndInv, ImageInv, NEW rs \in Plate, NEW uid \in Track, NEW crop \in BOOLEAN,
         setRecognizedInfo(rs, uid, crop)
  PROVE  ImageInv'
<1>1. /\ vpc = "idle" /\ mapVehicleImg' = mapVehicleImg /\ responses' = responses
      /\ rec' = [rs |-> rs, uid |-> uid, crop |-> crop] /\ plate_uid' = uid
      /\ (uid = plate_uid \/ (uid = plate_uid + 1 /\ crop))
  BY DEF setRecognizedInfo, Recognised, net
<1>2. /\ plate_uid \in Nat /\ uid \in Nat \ {0} /\ mapVehicleNum \in [Plate -> 0..MaxTrack]
      /\ plate_uid <= uid
  BY <1>1, Constants DEF IndInv, TypeOK, Track
<1>3. \A u \in 1..plate_uid : u \in mapVehicleImg
  BY <1>1 DEF ImageInv, Storing
<1>4. /\ \A p \in Plate : mapVehicleNum[p] \in Nat /\ mapVehicleNum[p] <= plate_uid
      /\ \A p \in Plate : p # rs => mapVehicleNum'[p] = mapVehicleNum[p]
      /\ mapVehicleNum'[rs] \in {mapVehicleNum[rs], uid}
      /\ vpc' = "sending" => mapVehicleNum[rs] = 0
      /\ crop => vpc' \in {"sending", "storing"}
  <2>1. \A p \in Plate : mapVehicleNum[p] \in Nat /\ mapVehicleNum[p] <= plate_uid
    <3>1. \A p \in Plate : mapVehicleNum[p] \in 0..MaxTrack
      BY <1>2
    <3>2. \A p \in Plate : mapVehicleNum[p] <= plate_uid
      BY DEF ImageInv
    <3>3. 0..MaxTrack \subseteq Nat
      BY Constants
    <3> QED BY <3>1, <3>2, <3>3
  <2>2. CASE mapVehicleNum[rs] = None
    <3>1. mapVehicleNum' = [mapVehicleNum EXCEPT ![rs] = uid] /\ vpc' = "sending"
      BY <2>2 DEF setRecognizedInfo
    <3> QED BY <1>2, <2>1, <2>2, <3>1 DEF None
  <2>3. CASE mapVehicleNum[rs] # None
    <3>1. mapVehicleNum' = mapVehicleNum /\ vpc' = IF crop THEN "storing" ELSE "idle"
      BY <2>3 DEF setRecognizedInfo
    <3> QED BY <2>1, <3>1
  <2> QED BY <2>2, <2>3
<1>5. \A p \in Plate : mapVehicleNum'[p] <= plate_uid'
  BY <1>1, <1>2, <1>4
<1>6. ASSUME NEW u \in 1..plate_uid' PROVE u \in mapVehicleImg' \/ Storing(u)'
  <2>1. CASE u <= plate_uid
    BY <1>1, <1>2, <1>3, <2>1
  <2>2. CASE ~(u <= plate_uid)
    <3>1. u = uid /\ crop
      BY <1>1, <1>2, <2>2
    <3> QED BY <1>1, <1>4, <3>1 DEF Storing
  <2> QED BY <2>1, <2>2
<1>7. ASSUME vpc' = "sending", NEW a \in responses' \ {Login}' PROVE a.plate # rec'.rs
  <2>1. a \in Query /\ mapVehicleNum[a.plate] = a.uid
    BY <1>1, <1>7 DEF IndInv, Answers, Login
  <2>2. a.uid # 0
    BY <2>1, Constants DEF Query, Track
  <2> QED BY <1>1, <1>4, <1>7, <2>1, <2>2
<1>8. ASSUME rec'.uid \notin mapVehicleImg', NEW p \in Plate, mapVehicleNum'[p] = rec'.uid
      PROVE  p = rec'.rs
  <2>1. ~(uid <= plate_uid)
    BY <1>1, <1>2, <1>3, <1>8
  <2> QED BY <1>1, <1>2, <1>4, <1>8, <2>1
<1> QED BY <1>5, <1>6, <1>7, <1>8 DEF ImageInv

LEMMA SendImage ==
  ASSUME ImageInv, sendRecognizedInfo
  PROVE  ImageInv'
<1>1. /\ vpc = "sending" /\ vpc' = IF rec.crop THEN "storing" ELSE "idle"
      /\ UNCHANGED <<rec, plate_uid, mapVehicleNum, mapVehicleImg>>
  BY DEF sendRecognizedInfo, maps
<1>2. \A u \in 1..plate_uid : u \in mapVehicleImg \/ Storing(u)'
  BY <1>1 DEF ImageInv, Storing
<1> QED BY <1>1, <1>2 DEF ImageInv

LEMMA StoreImageImage ==
  ASSUME ImageInv, StoreImage
  PROVE  ImageInv'
<1>1. /\ vpc = "storing" /\ vpc' = "looking" /\ mapVehicleImg' = mapVehicleImg \cup {rec.uid}
      /\ UNCHANGED <<rec, plate_uid, mapVehicleNum>>
  BY DEF StoreImage
<1> QED BY <1>1 DEF ImageInv, Storing

LEMMA KeepsImage ==
  ASSUME ImageInv, responses' \subseteq responses \cup {Login},
         UNCHANGED <<rec, plate_uid, mapVehicleNum, mapVehicleImg>>,
         vpc' = vpc \/ (vpc = "looking" /\ vpc' = "idle")
  PROVE  ImageInv'
<1>1. Login' = Login
  BY DEF Login
<1>2. \A u \in 1..plate_uid : u \in mapVehicleImg \/ Storing(u)'
  BY DEF ImageInv, Storing
<1>3. \A a \in responses' \ {Login} : a \in responses \ {Login}
  OBVIOUS
<1> QED BY <1>1, <1>2, <1>3 DEF ImageInv

LEMMA NextImage == IndInv /\ ImageInv /\ [Next]_vars => ImageInv'
<1> SUFFICES ASSUME IndInv, ImageInv, [Next]_vars PROVE ImageInv'
  OBVIOUS
<1>1. CASE ReceiveNext
  <2>1. ASSUME NEW a \in responses, Receive(a), UNCHANGED <<mapVehicleNum, mapVehicleImg>>
        PROVE  ImageInv'
    BY <2>1, KeepsImage DEF Receive, video
  <2>2. CASE ReceiveLogin
    BY <2>1, <2>2 DEF ReceiveLogin, Receive, maps
  <2>3. ASSUME NEW a \in responses \ {Login},
               IgnoreAnswer(a) \/ AnswerNotShown(a) \/ AnswerWithoutImage(a) \/ ShowAnswer(a)
        PROVE  ImageInv'
    BY <2>1, <2>3 DEF IgnoreAnswer, AnswerNotShown, AnswerWithoutImage, ShowAnswer, maps
  <2>4. CASE InsertAnswer \/ ReceiveNothing \/ Draw("receive")
    BY <2>4, KeepsImage DEF InsertAnswer, ReceiveNothing, Draw, maps, video, net
  <2> QED BY <1>1, <2>2, <2>3, <2>4 DEF ReceiveNext
<1>2. CASE VideoNext
  <2>1. CASE ShowStored \/ Draw("video")
    BY <2>1, KeepsImage DEF ShowStored, Draw, maps, video, net
  <2> QED BY <1>2, <2>1, RecognisedImage, SendImage, StoreImageImage DEF VideoNext
<1>3. CASE LoseConnection \/ Reconnect \/ Tick
  BY <1>3, KeepsImage DEF LoseConnection, Reconnect, Tick, maps, video
<1>4. CASE UNCHANGED vars
  BY <1>4, KeepsImage DEF vars, maps, video, net
<1> QED BY <1>1, <1>2, <1>3, <1>4 DEF Next

(***************************************************************************)
(* An answer that does not find its image came while the video thread was  *)
(* about to store it, for any number of texts and tracks: what is left to  *)
(* go wrong is the one window between a query and the store behind it.     *)
(***************************************************************************)
THEOREM ImageMissedOnceOnly == Spec => []ImageOnlyLate
<1>1. Init => ImageInv
  <2> SUFFICES ASSUME Init PROVE ImageInv
    OBVIOUS
  <2>1. plate_uid = 0 /\ vpc = "idle" /\ \A p \in Plate : mapVehicleNum[p] = 0
    BY DEF Init, None
  <2> QED BY <2>1 DEF ImageInv
<1>2. IndInv /\ ImageInv => ImageOnlyLate
  <2> SUFFICES ASSUME IndInv, ImageInv, NEW a \in responses \ {Login}
               PROVE  /\ FirstTrack(a) = a.uid
                      /\ FirstTrack(a) \notin mapVehicleImg =>
                           vpc = "storing" /\ rec.uid = FirstTrack(a)
    BY DEF ImageOnlyLate
  <2>1. a.plate \in Plate /\ a.uid \in Track /\ FirstTrack(a) = a.uid
    BY DEF IndInv, Answers, Query, FirstTrack
  <2>2. a.uid \in 1..plate_uid
    <3>1. mapVehicleNum[a.plate] = a.uid /\ mapVehicleNum[a.plate] <= plate_uid
      BY <2>1 DEF ImageInv, FirstTrack
    <3>2. plate_uid \in Nat /\ a.uid \in Nat \ {0}
      BY <2>1, Constants DEF IndInv, TypeOK, Track
    <3> QED BY <3>1, <3>2
  <2>3. ASSUME a.uid \notin mapVehicleImg PROVE vpc = "storing" /\ rec.uid = a.uid
    <3>1. Storing(a.uid)
      BY <2>2, <2>3 DEF ImageInv
    <3>2. vpc # "sending"
      BY <2>1, <2>3, <3>1 DEF ImageInv, Storing, FirstTrack
    <3> QED BY <3>1, <3>2 DEF Storing
  <2> QED BY <2>1, <2>3
<1> QED BY <1>1, <1>2, NextImage, IndInvariant, PTL DEF Spec

=============================================================================
