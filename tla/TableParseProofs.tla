-------------------------- MODULE TableParseProofs --------------------------
(***************************************************************************)
(* Proofs about TableParse, for tables of any versions, sections of any    *)
(* length and packets of any capacity.                                     *)
(***************************************************************************)
EXTENDS TableParse, FiniteSetTheorems, SequenceTheorems, TLAPS

USE VersionAssumption, LengthAssumption, CapacityAssumption

LEMMA SectionParts ==
  ASSUME NEW s \in Sections
  PROVE  /\ s.version \in Versions /\ s.number \in 0..LastNumber[s.version]
         /\ s = [version |-> s.version, number |-> s.number]
  BY DEF Sections

LEMMA SectionOf ==
  ASSUME NEW v \in Versions, NEW n \in 0..LastNumber[v]
  PROVE  [version |-> v, number |-> n] \in Sections
  BY DEF Sections

LEMMA LongType == \A s \in Sections : Long(s) \in Nat \ {0}
  OBVIOUS

LEMMA NextSectionType ==
  ASSUME sending \in Sections
  PROVE  NextSection \in Sections
<1>1. /\ sending.version \in Versions
      /\ sending.number \in 0..LastNumber[sending.version]
      /\ sending = [version |-> sending.version, number |-> sending.number]
  BY SectionParts
<1>2. LastNumber[sending.version] \in Nat
  BY <1>1
<1>3. PICK n \in 0..LastNumber[sending.version] :
        NextSection = [version |-> sending.version, number |-> n]
  <2>1. CASE sending.number = LastNumber[sending.version]
    BY <1>1, <1>2, <2>1 DEF NextSection
  <2>2. CASE sending.number # LastNumber[sending.version]
    <3>1. sending.number + 1 \in 0..LastNumber[sending.version]
      BY <1>1, <1>2, <2>2
    <3> QED
      BY <1>1, <2>2, <3>1 DEF NextSection
  <2> QED
    BY <2>1, <2>2
<1> QED
  BY <1>1, <1>3, SectionOf

\* The packets of a section follow one another, and the next section them.
LEMMA NextPacketType ==
  ASSUME sending \in Sections, sent \in 0..(Long(sending) - 1), NextPacket
  PROVE  sending' \in Sections /\ sent' \in 0..(Long(sending') - 1)
<1>1. Long(sending) \in Nat \ {0}
  BY LongType
<1>2. CASE sent + Capacity < Long(sending)
  BY <1>1, <1>2 DEF NextPacket
<1>3. CASE ~(sent + Capacity < Long(sending))
  <2>1. sending' \in Sections /\ sent' = 0
    BY <1>3, NextSectionType DEF NextPacket
  <2>2. Long(sending') \in Nat \ {0}
    BY <2>1, LongType
  <2> QED
    BY <2>1, <2>2
<1> QED
  BY <1>2, <1>3

\* What PutTheBufferToSection appends, and how long the section is then.
LEMMA PutLength ==
  ASSUME TypeOK, NEW head \in Sections, CopyLength(head) >= 0
  PROVE  /\ CopyLength(head) \in 0..Capacity
         /\ SubSeq(Payload, 1, CopyLength(head)) \in Seq(AllUnits)
         /\ Len(SubSeq(Payload, 1, CopyLength(head))) = CopyLength(head)
         /\ \A i \in 1..CopyLength(head) :
              SubSeq(Payload, 1, CopyLength(head))[i]
                = [section |-> sending, unit |-> sent + i]
         /\ Len(aucSectionBuffer) + CopyLength(head) <= Long(head)
<1>1. Long(head) \in Nat \ {0} /\ Len(aucSectionBuffer) \in Nat
  BY LongType, LenProperties DEF TypeOK
<1>2. CopyLength(head) \in 0..Capacity
  BY <1>1 DEF CopyLength
<1>3. Len(aucSectionBuffer) + CopyLength(head) <= Long(head)
  BY <1>1 DEF CopyLength
<1>4. sent \in Nat /\ sending \in Sections
  BY LongType DEF TypeOK
<1>5. \A i \in 1..CopyLength(head) :
         /\ Payload[i] = [section |-> sending, unit |-> sent + i]
         /\ Payload[i] \in AllUnits
  BY <1>2, <1>4 DEF Payload, AllUnits
<1> DEFINE c == CopyLength(head)
<1>6. /\ SubSeq(Payload, 1, c) \in Seq(AllUnits)
      /\ Len(SubSeq(Payload, 1, c)) = IF 1 <= c THEN c - 1 + 1 ELSE 0
      /\ \A i \in 1..(c - 1 + 1) : SubSeq(Payload, 1, c)[i] = Payload[1 + i - 1]
  <2>1. c \in Int
    BY <1>2
  <2> HIDE DEF c
  <2>2. \A i \in 1..c : Payload[i] \in AllUnits
    BY <1>5 DEF c
  <2> QED
    BY <2>1, <2>2, SubSeqProperties
<1> QED
  BY <1>2, <1>3, <1>5, <1>6

-----------------------------------------------------------------------------
(* Type correctness, with or without loss *)

LEMMA InitType == Init => TypeOK
<1> SUFFICES ASSUME Init PROVE TypeOK
  OBVIOUS
<1>1. /\ <<>> \in Seq(AllUnits) /\ Len(<<>>) = 0
  BY EmptySeq
<1>2. sending \in Sections /\ sent \in 0..(Long(sending) - 1)
  BY DEF Init
<1>3. Long(sending) \in Nat \ {0}
  BY <1>2, LongType
<1>4. Len(<<>>) <= Long(sending)
  BY <1>1, <1>3
<1> QED
  BY <1>1, <1>2, <1>4 DEF Init, TypeOK

LEMMA PutType ==
  ASSUME TypeOK, NEW head \in Sections, PutTheBufferToSection(head),
         iReturn = "parsing"
  PROVE  /\ stSectionHead' \in Sections /\ iFlagSectionStart' \in BOOLEAN
         /\ aucSectionBuffer' \in Seq(AllUnits)
         /\ iReturn' # "overrun" =>
              Len(aucSectionBuffer') <= Long(stSectionHead')
         /\ iReturn' \in {"parsing", "overrun"}
<1>1. CASE CopyLength(head) < 0
  BY <1>1 DEF PutTheBufferToSection, TypeOK
<1>2. CASE ~(CopyLength(head) < 0)
  <2> DEFINE more == SubSeq(Payload, 1, CopyLength(head))
  <2>1. CopyLength(head) >= 0
    <3>1. CopyLength(head) \in Int
      BY LongType, LenProperties DEF CopyLength, TypeOK
    <3> QED
      BY <1>2, <3>1
  <2>2. /\ more \in Seq(AllUnits) /\ Len(more) = CopyLength(head)
        /\ Len(aucSectionBuffer) + CopyLength(head) <= Long(head)
    BY <2>1, PutLength
  <2>3. aucSectionBuffer' = aucSectionBuffer \o more
    BY <1>2 DEF PutTheBufferToSection
  <2>4. /\ aucSectionBuffer \o more \in Seq(AllUnits)
        /\ Len(aucSectionBuffer \o more) = Len(aucSectionBuffer) + Len(more)
    <3> HIDE DEF more
    <3>1. aucSectionBuffer \in Seq(AllUnits)
      BY DEF TypeOK
    <3> QED
      BY <2>2, <3>1, ConcatProperties
  <2>5. stSectionHead' = head /\ iFlagSectionStart' = TRUE
        /\ iReturn' = "parsing"
    BY <1>2 DEF PutTheBufferToSection
  <2> HIDE DEF more
  <2> QED
    BY <2>2, <2>3, <2>4, <2>5
<1> QED
  BY <1>1, <1>2

\* A new section: nothing is in the buffer.
LEMMA NewSectionType ==
  ASSUME TypeOK, NewSection
  PROVE  /\ stSectionHead' \in Sections /\ iFlagSectionStart' \in BOOLEAN
         /\ aucSectionBuffer' \in Seq(AllUnits)
         /\ Len(aucSectionBuffer') <= Long(stSectionHead')
<1>1. aucSectionBuffer' = <<>> /\ stSectionHead' = stSectionHead
      /\ iFlagSectionStart' = FALSE
  BY DEF NewSection
<1>2. <<>> \in Seq(AllUnits) /\ Len(<<>>) = 0
  BY EmptySeq
<1>3. stSectionHead \in Sections /\ Long(stSectionHead) \in Nat
  BY LongType DEF TypeOK
<1>4. 0 <= Long(stSectionHead)
  BY <1>3
<1> QED
  BY <1>1, <1>2, <1>3, <1>4

LEMMA TypeStep == TypeOK /\ [Next]_vars => TypeOK'
<1> SUFFICES ASSUME TypeOK, [Next]_vars PROVE TypeOK'
  OBVIOUS
<1> USE DEF section, table, capture, vars
<1>0. <<>> \in Seq(AllUnits)
  BY EmptySeq
<1>1. CASE ReadStart
  <2>1. sending \in Sections /\ sending.version \in Versions
    BY SectionParts DEF TypeOK
  <2>2. sending' \in Sections /\ sent' \in 0..(Long(sending') - 1)
    BY <1>1, NextPacketType DEF ReadStart, TypeOK
  <2>3. /\ stSectionHead' \in Sections /\ iFlagSectionStart' \in BOOLEAN
        /\ aucSectionBuffer' \in Seq(AllUnits)
        /\ iReturn' # "overrun" =>
             Len(aucSectionBuffer') <= Long(stSectionHead')
        /\ iReturn' \in {"parsing", "overrun"}
    BY <1>1, <2>1, PutType DEF ReadStart, Reads
  <2> QED
    BY <1>1, <2>1, <2>2, <2>3 DEF ReadStart, TypeOK
<1>2. CASE ReadContinued
  <2>1. sending' \in Sections /\ sent' \in 0..(Long(sending') - 1)
    BY <1>2, NextPacketType DEF ReadContinued, TypeOK
  <2>2. CASE iFlagSectionStart
    <3>1. /\ stSectionHead' \in Sections /\ iFlagSectionStart' \in BOOLEAN
          /\ aucSectionBuffer' \in Seq(AllUnits)
          /\ iReturn' # "overrun" =>
               Len(aucSectionBuffer') <= Long(stSectionHead')
          /\ iReturn' \in {"parsing", "overrun"}
      BY <1>2, <2>2, PutType DEF ReadContinued, Reads, TypeOK
    <3> QED
      BY <1>2, <2>1, <3>1 DEF ReadContinued, TypeOK
  <2>3. CASE ~iFlagSectionStart
    BY <1>2, <2>1, <2>3 DEF ReadContinued, TypeOK
  <2> QED
    BY <2>2, <2>3
<1>3. CASE VersionChange
  BY <1>0, <1>3, NewSectionType DEF VersionChange, TypeOK
<1>4. CASE SectionOver
  <2>1. /\ Len(aucSectionBuffer) \in Nat \ {0}
        /\ Len(aucSectionBuffer) = Long(stSectionHead)
    BY <1>4, LongType, LenProperties DEF SectionOver, IsOneSectionOver, TypeOK
  <2>2. Header \in Sections
    <3>1. aucSectionBuffer[1] \in AllUnits
      BY <2>1, ElementOfSeq DEF TypeOK
    <3> QED
      BY <3>1 DEF Header, AllUnits
  <2>3. Header.number \in Nat
    BY <2>2, SectionParts
  <2>4. astPAT_Info \o ParsePAT_Section \in Seq(AllUnits)
    <3> DEFINE n == IF Long(Header) < Len(aucSectionBuffer)
                      THEN Long(Header) ELSE Len(aucSectionBuffer)
    <3>1. n \in 0..Len(aucSectionBuffer)
      BY <2>1, <2>2, LongType
    <3>2. \A i \in 1..n : aucSectionBuffer[i] \in AllUnits
      BY <2>1, <3>1, ElementOfSeq DEF TypeOK
    <3>3. ParsePAT_Section = SubSeq(aucSectionBuffer, 1, n)
      BY DEF ParsePAT_Section
    <3>4. n \in Int
      BY <3>1
    <3> HIDE DEF n
    <3>5. ParsePAT_Section \in Seq(AllUnits)
      BY <3>2, <3>3, <3>4, SubSeqProperties
    <3> QED
      BY <3>5, ConcatProperties DEF TypeOK
  <2> QED
    BY <1>4, <2>3, <2>4, NewSectionType DEF SectionOver, TypeOK
<1>5. CASE CaptureEnds
  BY <1>5 DEF CaptureEnds, Reads, TypeOK
<1>6. CASE Lose
  <2>1. sending' \in Sections /\ sent' \in 0..(Long(sending') - 1)
    BY <1>6, NextPacketType DEF Lose, TypeOK
  <2> QED
    BY <1>6, <2>1 DEF Lose, TypeOK
<1>7. CASE \E v \in Versions : ChangeVersion(v)
  <2>1. PICK v \in Versions : ChangeVersion(v)
    BY <1>7
  <2>2. [version |-> v, number |-> 0] \in Sections
    BY SectionOf
  <2>3. Long([version |-> v, number |-> 0]) \in Nat \ {0}
    BY <2>2, LongType
  <2> QED
    BY <2>1, <2>2, <2>3 DEF ChangeVersion, TypeOK
<1>8. CASE UNCHANGED vars
  BY <1>8 DEF TypeOK
<1> QED
  BY <1>1, <1>2, <1>3, <1>4, <1>5, <1>6, <1>7, <1>8 DEF Next, Parse

\* The variables of the parser stay in their ranges, and a section never
\* outgrows the length in the header GetOneSection goes by (unless memcpy
\* runs over), also when packets are missing.
THEOREM TypeCorrect == Spec => []TypeOK
  BY InitType, TypeStep, PTL DEF Spec

-----------------------------------------------------------------------------
(* A stream without losses: sections are put together in order *)

\* The buffer is a beginning of the section that its header belongs to: all
\* of it, when the packet that ended it has just been read, or as much of it
\* as the packets read so far have held.
Assembled ==
  /\ iReturn # "overrun"
  /\ ~iFlagSectionStart => aucSectionBuffer = <<>>
  /\ iFlagSectionStart =>
       /\ \A i \in 1..Len(aucSectionBuffer) :
            aucSectionBuffer[i] = [section |-> stSectionHead, unit |-> i]
       /\ Len(aucSectionBuffer) > 0
       /\ \/ Len(aucSectionBuffer) = Long(stSectionHead) /\ sent = 0
          \/ stSectionHead = sending /\ sent = Len(aucSectionBuffer)

LEMMA PutInOrder ==
  ASSUME TypeOK, iReturn = "parsing", Len(aucSectionBuffer) = sent,
         \A i \in 1..sent :
           aucSectionBuffer[i] = [section |-> sending, unit |-> i],
         PutTheBufferToSection(sending), NextPacket
  PROVE  Assembled'
<1> DEFINE c == CopyLength(sending)
           more == SubSeq(Payload, 1, c)
<1>1. /\ sending \in Sections /\ Long(sending) \in Nat \ {0}
      /\ sent \in 0..(Long(sending) - 1)
  BY LongType DEF TypeOK
<1>2. /\ c \in 1..Capacity /\ sent + c <= Long(sending)
      /\ sent + Capacity < Long(sending) => c = Capacity
      /\ ~(sent + Capacity < Long(sending)) => sent + c = Long(sending)
  BY <1>1 DEF CopyLength
<1>3. /\ aucSectionBuffer' = aucSectionBuffer \o more
      /\ stSectionHead' = sending /\ iFlagSectionStart' = TRUE
      /\ iReturn' = "parsing"
  <2>1. ~(CopyLength(sending) < 0)
    BY <1>2
  <2> QED
    BY <2>1 DEF PutTheBufferToSection
<1>4. /\ more \in Seq(AllUnits) /\ Len(more) = c
      /\ \A i \in 1..c : more[i] = [section |-> sending, unit |-> sent + i]
  <2>1. c >= 0
    BY <1>2
  <2> QED
    BY <1>1, <2>1, PutLength
<1>5. aucSectionBuffer \in Seq(AllUnits)
  BY DEF TypeOK
<1> HIDE DEF more, c
<1>6. /\ Len(aucSectionBuffer') = sent + c
      /\ \A i \in 1..(sent + c) : aucSectionBuffer'[i] =
           IF i <= sent THEN aucSectionBuffer[i] ELSE more[i - sent]
  <2> DEFINE all == aucSectionBuffer \o more
  <2>1. /\ Len(all) = Len(aucSectionBuffer) + Len(more)
        /\ \A i \in 1..(Len(aucSectionBuffer) + Len(more)) :
             all[i] = IF i <= Len(aucSectionBuffer)
                        THEN aucSectionBuffer[i]
                        ELSE more[i - Len(aucSectionBuffer)]
    BY <1>4, <1>5, ConcatProperties
  <2>2. aucSectionBuffer' = all
    BY <1>3
  <2> HIDE DEF all
  <2> QED
    BY <1>4, <2>1, <2>2
<1>7. ASSUME NEW i \in 1..(sent + c)
      PROVE  aucSectionBuffer'[i] = [section |-> sending, unit |-> i]
  <2>1. CASE i <= sent
    <3>1. i \in 1..sent
      BY <1>1, <1>2, <2>1
    <3> QED
      BY <1>6, <2>1, <3>1
  <2>2. CASE ~(i <= sent)
    <3>1. i - sent \in 1..c /\ sent + (i - sent) = i
      BY <1>1, <1>2, <2>2
    <3> QED
      BY <1>4, <1>6, <2>2, <3>1
  <2> QED
    BY <2>1, <2>2
<1>8. \/ Len(aucSectionBuffer') = Long(stSectionHead') /\ sent' = 0
      \/ stSectionHead' = sending' /\ sent' = Len(aucSectionBuffer')
  <2>1. CASE sent + Capacity < Long(sending)
    <3>1. sent' = sent + Capacity /\ sending' = sending
      BY <2>1 DEF NextPacket
    <3> QED
      BY <1>2, <1>3, <1>6, <2>1, <3>1
  <2>2. CASE ~(sent + Capacity < Long(sending))
    BY <1>2, <1>3, <1>6, <2>2 DEF NextPacket
  <2> QED
    BY <2>1, <2>2
<1>9. Len(aucSectionBuffer') > 0
  BY <1>1, <1>2, <1>6
<1> QED
  BY <1>3, <1>6, <1>7, <1>8, <1>9 DEF Assembled

LEMMA AssembledStep ==
  ASSUME ~missed', TypeOK, Assembled, [Next]_vars
  PROVE  Assembled'
<1> USE DEF section, table, capture, vars
<1>1. CASE ReadStart
  <2>1. ~iFlagSectionStart
    BY <1>1 DEF ReadStart, Reads, IsOneSectionOver, Assembled
  <2>2. Len(aucSectionBuffer) = sent
    BY <1>1, <2>1, EmptySeq DEF ReadStart, Assembled
  <2>3. \A i \in 1..sent :
          aucSectionBuffer[i] = [section |-> sending, unit |-> i]
    BY <1>1 DEF ReadStart
  <2> QED
    BY <1>1, <2>2, <2>3, PutInOrder DEF ReadStart, Reads
<1>2. CASE ReadContinued
  <2>1. CASE iFlagSectionStart
    <3>1. stSectionHead = sending /\ sent = Len(aucSectionBuffer)
      BY <1>2, <2>1 DEF ReadContinued, Reads, IsOneSectionOver, Assembled
    <3> QED
      BY <1>2, <2>1, <3>1, PutInOrder DEF ReadContinued, Reads, Assembled
  <2>2. CASE ~iFlagSectionStart
    BY <1>2, <2>2 DEF ReadContinued, Assembled
  <2> QED
    BY <2>1, <2>2
<1>3. CASE VersionChange
  BY <1>3 DEF VersionChange, NewSection, Assembled
<1>4. CASE SectionOver
  BY <1>4 DEF SectionOver, NewSection, Assembled
<1>5. CASE CaptureEnds
  BY <1>5 DEF CaptureEnds, Assembled
<1>6. CASE Lose
  BY <1>6 DEF Lose
<1>7. CASE \E v \in Versions : ChangeVersion(v)
  <2>1. PICK v \in Versions : ChangeVersion(v)
    BY <1>7
  <2> QED
    BY <2>1 DEF ChangeVersion, Assembled
<1>8. CASE UNCHANGED vars
  BY <1>8 DEF Assembled
<1> QED
  BY <1>1, <1>2, <1>3, <1>4, <1>5, <1>6, <1>7, <1>8 DEF Next, Parse

LEMMA InitAssembled == Init => Assembled
  BY DEF Init, Assembled

\* A packet that is missing stays missing.
LEMMA StaysMissed == ASSUME [Next]_vars, ~missed' PROVE ~missed
<1> USE DEF section, table, capture, vars
<1>1. CASE Parse
  BY <1>1 DEF Parse, ReadStart, ReadContinued, VersionChange, SectionOver
<1>2. CASE CaptureEnds
  BY <1>2 DEF CaptureEnds
<1>3. CASE Lose
  BY <1>3 DEF Lose
<1>4. CASE \E v \in Versions : ChangeVersion(v)
  BY <1>4 DEF ChangeVersion
<1>5. CASE UNCHANGED vars
  BY <1>5
<1> QED
  BY <1>1, <1>2, <1>3, <1>4, <1>5 DEF Next

\* In a capture that has every packet the parser never copies past the end of
\* a section (PutTheBufferToSection).
THEOREM CopyAlwaysFits == Spec => []CopyFits
<1> DEFINE I == TypeOK /\ (~missed => Assembled)
<1>1. I /\ [Next]_vars => I'
  BY TypeStep, AssembledStep, StaysMissed
<1>2. Init => I
  BY InitType, InitAssembled
<1>3. I => CopyFits
  BY DEF Assembled, CopyFits
<1> QED
  BY <1>1, <1>2, <1>3, PTL DEF Spec

-----------------------------------------------------------------------------
(* The table that is found *)

Elements(s) == {s[i] : i \in DOMAIN s}

LEMMA ConcatElements ==
  ASSUME NEW S, NEW s \in Seq(S), NEW t \in Seq(S)
  PROVE  Elements(s \o t) = Elements(s) \cup Elements(t)
<1>1. /\ DOMAIN s = 1..Len(s) /\ DOMAIN t = 1..Len(t)
      /\ DOMAIN (s \o t) = 1..(Len(s) + Len(t))
      /\ Len(s) \in Nat /\ Len(t) \in Nat
  BY LenProperties, ConcatProperties
<1>2. \A i \in 1..(Len(s) + Len(t)) :
        (s \o t)[i] = IF i <= Len(s) THEN s[i] ELSE t[i - Len(s)]
  BY ConcatProperties
<1>3. ASSUME NEW i \in 1..(Len(s) + Len(t))
      PROVE  (s \o t)[i] \in {s[j] : j \in 1..Len(s)} \cup {t[j] : j \in 1..Len(t)}
  <2>1. CASE i <= Len(s)
    BY <1>1, <1>2, <2>1
  <2>2. CASE ~(i <= Len(s))
    <3>1. i - Len(s) \in 1..Len(t)
      BY <1>1, <2>2
    <3> QED
      BY <1>2, <2>2, <3>1
  <2> QED
    BY <2>1, <2>2
<1>4. \A j \in 1..Len(s) :
        j \in 1..(Len(s) + Len(t)) /\ (s \o t)[j] = s[j]
  BY <1>1, <1>2
<1>5. \A j \in 1..Len(t) :
        /\ Len(s) + j \in 1..(Len(s) + Len(t))
        /\ (s \o t)[Len(s) + j] = t[j]
  <2> TAKE j \in 1..Len(t)
  <2>1. Len(s) + j \in 1..(Len(s) + Len(t)) /\ ~(Len(s) + j <= Len(s))
        /\ (Len(s) + j) - Len(s) = j
    BY <1>1
  <2> QED
    BY <1>2, <2>1
<1>6. {(s \o t)[i] : i \in 1..(Len(s) + Len(t))}
        \subseteq {s[j] : j \in 1..Len(s)} \cup {t[j] : j \in 1..Len(t)}
  BY <1>3
<1>7. {s[j] : j \in 1..Len(s)}
        \subseteq {(s \o t)[i] : i \in 1..(Len(s) + Len(t))}
  BY <1>4
<1>8. {t[j] : j \in 1..Len(t)}
        \subseteq {(s \o t)[i] : i \in 1..(Len(s) + Len(t))}
  BY <1>5
<1> QED
  BY <1>1, <1>6, <1>7, <1>8 DEF Elements

LEMMA ConcatInjective ==
  ASSUME NEW S, NEW s \in Seq(S), NEW t \in Seq(S),
         \A i, j \in DOMAIN s : s[i] = s[j] => i = j,
         \A i, j \in DOMAIN t : t[i] = t[j] => i = j,
         \A i \in DOMAIN s, j \in DOMAIN t : s[i] # t[j]
  PROVE  \A i, j \in DOMAIN (s \o t) : (s \o t)[i] = (s \o t)[j] => i = j
<1>1. /\ DOMAIN s = 1..Len(s) /\ DOMAIN t = 1..Len(t)
      /\ DOMAIN (s \o t) = 1..(Len(s) + Len(t))
      /\ Len(s) \in Nat /\ Len(t) \in Nat
  BY LenProperties, ConcatProperties
<1>2. \A i \in 1..(Len(s) + Len(t)) :
        (s \o t)[i] = IF i <= Len(s) THEN s[i] ELSE t[i - Len(s)]
  BY ConcatProperties
<1> SUFFICES ASSUME NEW i \in 1..(Len(s) + Len(t)),
                    NEW j \in 1..(Len(s) + Len(t)),
                    (s \o t)[i] = (s \o t)[j]
             PROVE  i = j
  BY <1>1
<1>3. CASE i <= Len(s) /\ j <= Len(s)
  BY <1>1, <1>2, <1>3
<1>4. CASE i <= Len(s) /\ ~(j <= Len(s))
  <2>1. i \in 1..Len(s) /\ j - Len(s) \in 1..Len(t)
    BY <1>1, <1>4
  <2>2. (s \o t)[i] = s[i] /\ (s \o t)[j] = t[j - Len(s)]
    BY <1>2, <1>4
  <2>3. s[i] # t[j - Len(s)]
    BY <1>1, <2>1
  <2> QED
    BY <2>2, <2>3
<1>5. CASE ~(i <= Len(s)) /\ j <= Len(s)
  <2>1. j \in 1..Len(s) /\ i - Len(s) \in 1..Len(t)
    BY <1>1, <1>5
  <2>2. (s \o t)[j] = s[j] /\ (s \o t)[i] = t[i - Len(s)]
    BY <1>2, <1>5
  <2>3. s[j] # t[i - Len(s)]
    BY <1>1, <2>1
  <2> QED
    BY <2>2, <2>3
<1>6. CASE ~(i <= Len(s)) /\ ~(j <= Len(s))
  <2>1. i - Len(s) \in 1..Len(t) /\ j - Len(s) \in 1..Len(t)
    BY <1>1, <1>6
  <2>2. i - Len(s) = j - Len(s)
    BY <1>1, <1>2, <1>6, <2>1
  <2> QED
    BY <1>1, <2>2
<1> QED
  BY <1>3, <1>4, <1>5, <1>6

\* The sections of the recorded version that were recorded.
Recorded == {[version |-> uiVersion, number |-> n] : n \in auiRecordSectionNumber}

\* What is collected are the recorded sections of the recorded version, each
\* once; a section that is being put together is one of that version.
Collected ==
  /\ uiVersion = INITIAL_VERSION =>
       auiRecordSectionNumber = {} /\ ~iFlagSectionStart
  /\ uiVersion # INITIAL_VERSION =>
       auiRecordSectionNumber \subseteq 0..LastNumber[uiVersion]
  /\ iFlagSectionStart => stSectionHead.version = uiVersion
  /\ {astPAT_Info[i] : i \in DOMAIN astPAT_Info}
       = UNION {Units(s) : s \in Recorded}
  /\ \A i, j \in DOMAIN astPAT_Info : astPAT_Info[i] = astPAT_Info[j] => i = j
  /\ iReturn = "found" =>
       /\ uiVersion # INITIAL_VERSION
       /\ auiRecordSectionNumber = 0..LastNumber[uiVersion]

LEMMA InitCollected == Init => Collected
<1> SUFFICES ASSUME Init PROVE Collected
  OBVIOUS
<1>1. DOMAIN <<>> = {}
  OBVIOUS
<1>2. {astPAT_Info[i] : i \in DOMAIN astPAT_Info} = {} /\ Recorded = {}
  BY <1>1 DEF Init, Recorded
<1> QED
  BY <1>1, <1>2 DEF Init, Collected

\* A complete section is parsed as a whole.
LEMMA WholeSection ==
  ASSUME TypeOK, Assembled, IsOneSectionOver
  PROVE  /\ Header = stSectionHead
         /\ ParsePAT_Section = aucSectionBuffer
         /\ {aucSectionBuffer[i] : i \in DOMAIN aucSectionBuffer}
              = Units(stSectionHead)
         /\ \A i, j \in DOMAIN aucSectionBuffer :
              aucSectionBuffer[i] = aucSectionBuffer[j] => i = j
<1> DEFINE n == Len(aucSectionBuffer)
<1>1. /\ aucSectionBuffer \in Seq(AllUnits) /\ n = Long(stSectionHead)
      /\ n \in Nat \ {0} /\ DOMAIN aucSectionBuffer = 1..n
  BY LongType, LenProperties DEF TypeOK, IsOneSectionOver
<1>2. \A i \in 1..n :
        aucSectionBuffer[i] = [section |-> stSectionHead, unit |-> i]
  BY DEF IsOneSectionOver, Assembled
<1>3. Header = stSectionHead
  BY <1>1, <1>2 DEF Header
<1>4. ParsePAT_Section = SubSeq(aucSectionBuffer, 1, n)
  BY <1>1, <1>3 DEF ParsePAT_Section
<1>5. ParsePAT_Section = aucSectionBuffer
  BY <1>1, <1>4, SubSeqFull
<1>6. {aucSectionBuffer[i] : i \in 1..n} = Units(stSectionHead)
  <2>1. \A i \in 1..n : aucSectionBuffer[i] \in Units(stSectionHead)
    BY <1>1, <1>2 DEF Units
  <2>2. ASSUME NEW u \in Units(stSectionHead)
        PROVE  u.unit \in 1..n /\ u = aucSectionBuffer[u.unit]
    BY <1>1, <1>2 DEF Units
  <2> HIDE DEF n
  <2> QED
    BY <2>1, <2>2
<1> QED
  BY <1>1, <1>2, <1>3, <1>5, <1>6

LEMMA IntervalSize ==
  ASSUME NEW m \in Nat
  PROVE  IsFiniteSet(0..m) /\ Cardinality(0..m) = m + 1
<1>1. /\ IsFiniteSet(0..m)
      /\ Cardinality(0..m) = IF 0 > m THEN 0 ELSE m - 0 + 1
  BY FS_Interval
<1>2. Cardinality(0..m) = m + 1
  BY <1>1
<1> QED
  BY <1>1, <1>2

\* A section is added to what is recorded and collected, or was there.
LEMMA CollectedOver ==
  ASSUME TypeOK, Assembled, Collected, SectionOver
  PROVE  Collected'
<1> DEFINE n == stSectionHead.number
<1>1. /\ Header = stSectionHead /\ ParsePAT_Section = aucSectionBuffer
      /\ {aucSectionBuffer[i] : i \in DOMAIN aucSectionBuffer}
           = Units(stSectionHead)
      /\ \A i, j \in DOMAIN aucSectionBuffer :
           aucSectionBuffer[i] = aucSectionBuffer[j] => i = j
  BY WholeSection DEF SectionOver
<1>2. /\ iFlagSectionStart /\ uiVersion # INITIAL_VERSION
      /\ stSectionHead.version = uiVersion /\ uiVersion' = uiVersion
      /\ uiVersion \in Versions
  BY DEF SectionOver, IsOneSectionOver, Collected, TypeOK
<1>3. /\ n \in 0..LastNumber[uiVersion]
      /\ stSectionHead = [version |-> uiVersion, number |-> n]
      /\ LastNumber[uiVersion] \in Nat
  BY <1>2, SectionParts DEF TypeOK
<1>4. /\ auiRecordSectionNumber' = auiRecordSectionNumber \cup {n}
      /\ auiRecordSectionNumber' \subseteq 0..LastNumber[uiVersion]
      /\ iFlagSectionStart' = FALSE
  BY <1>1, <1>2, <1>3 DEF SectionOver, NewSection, Collected
<1>5. Recorded' = Recorded \cup {stSectionHead}
  BY <1>2, <1>3, <1>4 DEF Recorded
<1>6. /\ {astPAT_Info'[i] : i \in DOMAIN astPAT_Info'}
           = UNION {Units(s) : s \in Recorded'}
      /\ \A i, j \in DOMAIN astPAT_Info' :
           astPAT_Info'[i] = astPAT_Info'[j] => i = j
  <2>1. CASE n \in auiRecordSectionNumber
    <3>1. astPAT_Info' = astPAT_Info
      BY <1>1, <2>1 DEF SectionOver
    <3>2. Recorded' = Recorded
      BY <1>2, <1>4, <2>1 DEF Recorded
    <3> QED
      BY <3>1, <3>2 DEF Collected
  <2>2. CASE n \notin auiRecordSectionNumber
    <3>1. astPAT_Info' = astPAT_Info \o aucSectionBuffer
      BY <1>1, <2>2 DEF SectionOver
    <3>2. astPAT_Info \in Seq(AllUnits) /\ aucSectionBuffer \in Seq(AllUnits)
      BY DEF TypeOK
    <3>3. {(astPAT_Info \o aucSectionBuffer)[i] :
             i \in DOMAIN (astPAT_Info \o aucSectionBuffer)}
            = (UNION {Units(s) : s \in Recorded}) \cup Units(stSectionHead)
      <4>1. Elements(astPAT_Info \o aucSectionBuffer)
              = Elements(astPAT_Info) \cup Elements(aucSectionBuffer)
        BY <3>2, ConcatElements
      <4>2. {astPAT_Info[i] : i \in DOMAIN astPAT_Info}
              = UNION {Units(s) : s \in Recorded}
        BY DEF Collected
      <4>3. {aucSectionBuffer[i] : i \in DOMAIN aucSectionBuffer}
              = Units(stSectionHead)
        BY <1>1
      <4> QED
        BY <4>1, <4>2, <4>3 DEF Elements
    <3>4. (UNION {Units(s) : s \in Recorded}) \cup Units(stSectionHead)
            = UNION {Units(s) : s \in Recorded'}
      BY <1>5
    <3>5. ASSUME NEW i \in DOMAIN astPAT_Info,
                 NEW j \in DOMAIN aucSectionBuffer
          PROVE  astPAT_Info[i] # aucSectionBuffer[j]
      <4>1. PICK s \in Recorded : astPAT_Info[i] \in Units(s)
        BY DEF Collected
      <4>2. aucSectionBuffer[j] \in Units(stSectionHead)
        BY <1>1
      <4>3. s # stSectionHead
        BY <2>2, <4>1 DEF Recorded
      <4> QED
        BY <4>1, <4>2, <4>3 DEF Units
    <3>6. \A i, j \in DOMAIN (astPAT_Info \o aucSectionBuffer) :
            (astPAT_Info \o aucSectionBuffer)[i]
              = (astPAT_Info \o aucSectionBuffer)[j] => i = j
      BY <1>1, <3>2, <3>5, ConcatInjective DEF Collected
    <3> QED
      BY <3>1, <3>3, <3>4, <3>6
  <2> QED
    BY <2>1, <2>2
<1>7. iReturn' = "found" => auiRecordSectionNumber' = 0..LastNumber[uiVersion]
  <2> SUFFICES ASSUME iReturn' = "found"
               PROVE  auiRecordSectionNumber' = 0..LastNumber[uiVersion]
    OBVIOUS
  <2>1. Cardinality(auiRecordSectionNumber') = LastNumber[uiVersion] + 1
    BY <1>1, <1>2 DEF SectionOver
  <2>2. /\ IsFiniteSet(0..LastNumber[uiVersion])
        /\ Cardinality(0..LastNumber[uiVersion]) = LastNumber[uiVersion] + 1
    BY <1>3, IntervalSize
  <2> QED
    BY <1>4, <2>1, <2>2, FS_Subset
<1> QED
  BY <1>2, <1>4, <1>6, <1>7 DEF Collected

LEMMA CollectedStep ==
  ASSUME ~missed', TypeOK, Assembled, Collected, [Next]_vars
  PROVE  Collected'
<1> USE DEF section, table, capture, vars
<1>1. CASE ReadStart
  <2>1. ~iFlagSectionStart
    BY <1>1 DEF ReadStart, Reads, IsOneSectionOver, Assembled
  <2>2. /\ sending.version \in Versions
        /\ sending.version # INITIAL_VERSION
        /\ LastNumber[sending.version] \in Nat
    <3>1. sending.version \in Versions
      BY SectionParts DEF TypeOK
    <3>2. sending.version \in 0..31
      BY <3>1, VersionAssumption
    <3>3. LastNumber[sending.version] \in Nat
      BY <3>1, VersionAssumption
    <3> QED
      BY <3>1, <3>2, <3>3 DEF INITIAL_VERSION
  <2>3. /\ stSectionHead' = sending /\ uiVersion' = sending.version
        /\ auiRecordSectionNumber' = auiRecordSectionNumber
        /\ astPAT_Info' = astPAT_Info /\ iReturn' # "found"
    BY <1>1 DEF ReadStart, Reads, PutTheBufferToSection
  <2>4. Recorded' = Recorded
    BY <1>1, <2>3 DEF ReadStart, Recorded, Collected
  <2>5. auiRecordSectionNumber \subseteq 0..LastNumber[sending.version]
    BY <1>1, <2>2 DEF ReadStart, Collected
  <2> QED
    BY <2>2, <2>3, <2>4, <2>5 DEF Collected
<1>2. CASE ReadContinued
  <2>1. Recorded' = Recorded
    BY <1>2 DEF ReadContinued, Recorded
  <2>2. /\ stSectionHead' = stSectionHead
        /\ iFlagSectionStart' = iFlagSectionStart /\ iReturn' # "found"
    BY <1>2 DEF ReadContinued, Reads, PutTheBufferToSection, TypeOK
  <2> QED
    BY <1>2, <2>1, <2>2 DEF ReadContinued, Collected
<1>3. CASE VersionChange
  <2>1. DOMAIN astPAT_Info' = {} /\ Recorded' = {}
    BY <1>3 DEF VersionChange, Recorded
  <2> QED
    BY <1>3, <2>1 DEF VersionChange, NewSection, Reads, Collected
<1>4. CASE SectionOver
  BY <1>4, CollectedOver
<1>5. CASE CaptureEnds
  BY <1>5 DEF CaptureEnds, Collected, Recorded
<1>6. CASE Lose
  BY <1>6 DEF Lose
<1>7. CASE \E v \in Versions : ChangeVersion(v)
  <2>1. PICK v \in Versions : ChangeVersion(v)
    BY <1>7
  <2> QED
    BY <2>1 DEF ChangeVersion, Collected, Recorded
<1>8. CASE UNCHANGED vars
  BY <1>8 DEF Collected, Recorded
<1> QED
  BY <1>1, <1>2, <1>3, <1>4, <1>5, <1>6, <1>7, <1>8 DEF Next, Parse

LEMMA CollectedWhole ==
  ASSUME TypeOK, Collected
  PROVE  FoundIsWhole
<1> SUFFICES ASSUME iReturn = "found" PROVE
      /\ uiVersion \in Versions
      /\ {astPAT_Info[i] : i \in DOMAIN astPAT_Info} = TableUnits(uiVersion)
  BY DEF FoundIsWhole, Collected
<1>1. uiVersion \in Versions
  BY DEF TypeOK, Collected
<1>2. Recorded = {r \in Sections : r.version = uiVersion}
  <2>1. auiRecordSectionNumber = 0..LastNumber[uiVersion]
    BY DEF Collected
  <2>2. ASSUME NEW r \in Recorded
        PROVE  r \in Sections /\ r.version = uiVersion
    BY <1>1, <2>1, SectionOf DEF Recorded
  <2>3. ASSUME NEW r \in Sections, r.version = uiVersion
        PROVE  r \in Recorded
    BY <2>1, <2>3, SectionParts DEF Recorded
  <2> QED
    BY <2>2, <2>3
<1> QED
  BY <1>1, <1>2 DEF TableUnits, Collected

\* In a capture that has every packet a table that ParsePAT_Table finds is
\* the whole table of one version, each part of it once.
THEOREM FoundTableIsWhole == Spec => []WholeTable
<1> DEFINE I == TypeOK /\ (~missed => Assembled /\ Collected)
<1>1. I /\ [Next]_vars => I'
  BY TypeStep, AssembledStep, CollectedStep, StaysMissed
<1>2. Init => I
  BY InitType, InitAssembled, InitCollected
<1>3. I => WholeTable
  BY CollectedWhole DEF WholeTable
<1> QED
  BY <1>1, <1>2, <1>3, PTL DEF Spec
-----------------------------------------------------------------------------
(* The table comes together: what every step of the parser brings nearer *)

Numbers == 0..LastNumber[sending.version]

\* The sections of the version being sent that are in the table, or in the
\* buffer in full.
Had == IF uiVersion = sending.version
         THEN auiRecordSectionNumber
                \cup {n \in {stSectionHead.number} : IsOneSectionOver}
         ELSE {}

\* The parser is in the midst of a section whose beginning it has not read.
Skipping == sent > 0 /\ ~iFlagSectionStart

\* How many sections are sent from section s on until section n begins; a
\* section whose beginning was not read has to come round again.
Until(n, s, skipped) ==
  IF n > s.number \/ (n = s.number /\ ~skipped)
    THEN n - s.number
    ELSE n + LastNumber[s.version] + 1 - s.number

SectionsUntil(n) == Until(n, sending, Skipping)

\* The parser has collected sections of a version that is no longer sent.
Lag == uiVersion \notin {INITIAL_VERSION, sending.version}

\* What is left to do about the section being sent: its packets, forgetting
\* the version before it, parsing the section before it.
PartsLeft == 3 * (Long(sending) - sent) + (IF Lag THEN 1 ELSE 0)
               + (IF IsOneSectionOver THEN 1 ELSE 0)

\* A section n that is wanted is had now, or fewer sections are sent before
\* it, or there is less left to do about the one that is being sent; and
\* what is had is kept.
Nearer ==
  /\ Had \subseteq Had'
  /\ \A n \in Numbers \ Had :
       \/ n \in Had'
       \/ SectionsUntil(n)' < SectionsUntil(n)
       \/ SectionsUntil(n)' = SectionsUntil(n) /\ PartsLeft' < PartsLeft

\* As long as the parser reads on, a section is wanted.
Wants ==
  ~missed /\ iReturn = "parsing" /\ ~IsOneSectionOver =>
    Had \subseteq Numbers /\ Had # Numbers

\* The distances are numbers, so a section cannot come nearer for ever.
Distances ==
  /\ \A n \in Numbers : SectionsUntil(n) \in 0..(LastNumber[sending.version] + 1)
  /\ PartsLeft \in Nat

\* A version is only left where a section begins, and a table all of whose
\* sections are recorded has been found.
Unfinished ==
  /\ Lag => sent = 0
  /\ iReturn = "parsing" /\ uiVersion # INITIAL_VERSION =>
       auiRecordSectionNumber # 0..LastNumber[uiVersion]

LEMMA InitUnfinished == Init => Unfinished
  BY DEF Init, Unfinished, Lag

LEMMA VersionNumbers ==
  ASSUME TypeOK
  PROVE  /\ sending.version \in Versions
         /\ sending.version # INITIAL_VERSION
         /\ LastNumber[sending.version] \in Nat
         /\ sending.number \in 0..LastNumber[sending.version]
<1>1. /\ sending.version \in Versions
      /\ sending.number \in 0..LastNumber[sending.version]
  BY SectionParts DEF TypeOK
<1>2. sending.version \in 0..31
  BY <1>1, VersionAssumption
<1>3. LastNumber[sending.version] \in Nat
  BY <1>1, VersionAssumption
<1> QED
  BY <1>1, <1>2, <1>3 DEF INITIAL_VERSION

LEMMA SameVersion ==
  ASSUME TypeOK, NextPacket
  PROVE  sending'.version = sending.version
<1>1. sending = [version |-> sending.version, number |-> sending.number]
  BY SectionParts DEF TypeOK
<1> QED
  BY <1>1 DEF NextPacket, NextSection

LEMMA UnfinishedStep ==
  ASSUME ~missed', TypeOK, TypeOK', Assembled, Collected, Unfinished,
         [Next]_vars
  PROVE  Unfinished'
<1> USE DEF section, table, capture, vars
<1>1. CASE ReadStart
  <2>1. uiVersion' = sending.version /\ sending'.version = sending.version
    BY <1>1, SameVersion DEF ReadStart
  <2>2. auiRecordSectionNumber' = auiRecordSectionNumber
        /\ iReturn = "parsing"
    BY <1>1 DEF ReadStart, Reads
  <2>3. auiRecordSectionNumber # 0..LastNumber[sending.version]
    <3>1. CASE uiVersion = INITIAL_VERSION
      <4>1. auiRecordSectionNumber = {}
        BY <3>1 DEF Collected
      <4>2. 0 \in 0..LastNumber[sending.version]
        BY VersionNumbers
      <4> QED
        BY <4>1, <4>2
    <3>2. CASE uiVersion # INITIAL_VERSION
      BY <1>1, <2>2, <3>2 DEF ReadStart, Unfinished
    <3> QED
      BY <3>1, <3>2
  <2> QED
    BY <2>1, <2>2, <2>3 DEF Unfinished, Lag
<1>2. CASE ReadContinued
  <2>1. ~Lag
    BY <1>2 DEF ReadContinued, Unfinished
  <2>2. sending'.version = sending.version /\ uiVersion' = uiVersion
        /\ auiRecordSectionNumber' = auiRecordSectionNumber
        /\ iReturn = "parsing"
    BY <1>2, SameVersion DEF ReadContinued, Reads
  <2> QED
    BY <2>1, <2>2 DEF Unfinished, Lag
<1>3. CASE VersionChange
  BY <1>3 DEF VersionChange, Unfinished, Lag
<1>4. CASE SectionOver
  <2>1. Header = stSectionHead /\ stSectionHead.version = uiVersion
    BY <1>4, WholeSection DEF SectionOver, IsOneSectionOver, Collected
  <2>2. LastNumber[uiVersion] \in Nat
    BY <2>1, SectionParts, VersionAssumption DEF TypeOK
  <2>3. iReturn' = "parsing" =>
          Cardinality(auiRecordSectionNumber') # LastNumber[uiVersion] + 1
    BY <1>4, <2>1 DEF SectionOver
  <2>4. iReturn' = "parsing" =>
          auiRecordSectionNumber' # 0..LastNumber[uiVersion]
    BY <2>2, <2>3, IntervalSize
  <2> QED
    BY <1>4, <2>4 DEF SectionOver, Unfinished, Lag
<1>5. CASE CaptureEnds
  BY <1>5 DEF CaptureEnds, Unfinished, Lag
<1>6. CASE Lose
  BY <1>6 DEF Lose
<1>7. CASE \E v \in Versions : ChangeVersion(v)
  <2>1. PICK v \in Versions : ChangeVersion(v)
    BY <1>7
  <2> QED
    BY <2>1 DEF ChangeVersion, Unfinished, Lag
<1>8. CASE UNCHANGED vars
  BY <1>8 DEF Unfinished, Lag
<1> QED
  BY <1>1, <1>2, <1>3, <1>4, <1>5, <1>6, <1>7, <1>8 DEF Next, Parse

\* A section of the version comes nearer with the one before it.
LEMMA UntilNext ==
  ASSUME TypeOK, NEW n \in Numbers, NEW skipped \in BOOLEAN,
         n = sending.number => skipped
  PROVE  Until(n, NextSection, FALSE) < Until(n, sending, skipped)
<1>1. /\ LastNumber[sending.version] \in Nat
      /\ sending.number \in 0..LastNumber[sending.version]
      /\ n \in 0..LastNumber[sending.version]
  BY VersionNumbers DEF Numbers
<1>2. sending = [version |-> sending.version, number |-> sending.number]
  BY SectionParts DEF TypeOK
<1>3. CASE sending.number = LastNumber[sending.version]
  <2>1. NextSection = [version |-> sending.version, number |-> 0]
    BY <1>2, <1>3 DEF NextSection
  <2> QED
    BY <1>1, <1>3, <2>1 DEF Until
<1>4. CASE sending.number # LastNumber[sending.version]
  <2>1. NextSection
          = [version |-> sending.version, number |-> sending.number + 1]
    BY <1>2, <1>4 DEF NextSection
  <2> QED
    BY <1>1, <1>4, <2>1 DEF Until
<1> QED
  BY <1>3, <1>4

\* A packet of a section whose beginning was read is added to the section,
\* and one of another section passes.
LEMMA PacketNearer ==
  ASSUME TypeOK, TypeOK', Assembled', ~IsOneSectionOver, NextPacket,
         auiRecordSectionNumber' = auiRecordSectionNumber,
         uiVersion = sending.version => uiVersion' = sending.version,
         Skipping => ~iFlagSectionStart',
         ~Skipping => /\ iFlagSectionStart' /\ stSectionHead' = sending
                      /\ uiVersion' = sending.version
  PROVE  Nearer
<1>1. /\ Long(sending) \in Nat \ {0} /\ sent \in 0..(Long(sending) - 1)
      /\ Long(sending) - sent \in Nat
  BY LongType DEF TypeOK
<1>2. sending'.version = sending.version
  BY SameVersion
<1>3. Had \subseteq Had'
  BY <1>2 DEF Had
<1>4. ASSUME NEW n \in Numbers \ Had
      PROVE  \/ n \in Had'
             \/ SectionsUntil(n)' < SectionsUntil(n)
             \/ SectionsUntil(n)' = SectionsUntil(n) /\ PartsLeft' < PartsLeft
  <2>1. CASE sent + Capacity < Long(sending)
    <3>1. sent' = sent + Capacity /\ sending' = sending
      BY <2>1 DEF NextPacket
    <3>2. Skipping' = Skipping
      BY <1>1, <3>1 DEF Skipping
    <3>3. SectionsUntil(n)' = SectionsUntil(n)
      BY <3>1, <3>2 DEF SectionsUntil
    <3>4. Long(sending') - sent' = (Long(sending) - sent) - Capacity
      BY <1>1, <3>1
    <3>5. PartsLeft' < PartsLeft
      <4> DEFINE p == Long(sending) - sent
                 x == (IF Lag THEN 1 ELSE 0)
                 y == (IF IsOneSectionOver THEN 1 ELSE 0)
                 z == (IF Lag' THEN 1 ELSE 0)
                 w == (IF IsOneSectionOver' THEN 1 ELSE 0)
      <4>1. /\ p \in Nat /\ x \in 0..1 /\ y \in 0..1 /\ z \in 0..1
            /\ w \in 0..1
        BY <1>1
      <4>2. PartsLeft = 3 * p + x + y /\ PartsLeft' = 3 * (p - Capacity) + z + w
        BY <3>4 DEF PartsLeft
      <4> HIDE DEF p, x, y, z, w
      <4> QED
        BY <4>1, <4>2
    <3> QED
      BY <3>3, <3>5
  <2>2. CASE ~(sent + Capacity < Long(sending))
    <3>1. sent' = 0 /\ sending' = NextSection
      BY <2>2 DEF NextPacket
    <3>2. CASE n = sending.number /\ ~Skipping
      <4>1. IsOneSectionOver'
        BY <3>1, <3>2 DEF Assembled, IsOneSectionOver
      <4>2. n \in Had'
        BY <1>2, <3>2, <4>1 DEF Had
      <4> QED
        BY <4>2
    <3>3. CASE ~(n = sending.number /\ ~Skipping)
      <4>1. Skipping' = FALSE
        BY <3>1 DEF Skipping
      <4>2. SectionsUntil(n)' = Until(n, NextSection, FALSE)
        BY <3>1, <4>1 DEF SectionsUntil
      <4>3. Until(n, NextSection, FALSE) < Until(n, sending, Skipping)
        <5>1. Skipping \in BOOLEAN
          BY DEF Skipping
        <5> QED
          BY <3>3, <5>1, UntilNext
      <4> QED
        BY <4>2, <4>3 DEF SectionsUntil
    <3> QED
      BY <3>2, <3>3
  <2> QED
    BY <2>1, <2>2
<1> QED
  BY <1>3, <1>4 DEF Nearer

\* Parsing a section, or forgetting a version, leaves the packet to be read.
LEMMA PartDone ==
  ASSUME TypeOK, UNCHANGED capture, sent = 0, Had' = Had,
         Lag' => Lag, IsOneSectionOver' => IsOneSectionOver,
         Lag' # Lag \/ IsOneSectionOver' # IsOneSectionOver
  PROVE  Nearer
<1>1. sending' = sending /\ sent' = sent
  BY DEF capture
<1>2. Skipping' = Skipping
  BY <1>1 DEF Skipping
<1>3. \A n \in Numbers : SectionsUntil(n)' = SectionsUntil(n)
  BY <1>1, <1>2 DEF SectionsUntil
<1>4. PartsLeft' < PartsLeft
  <2> DEFINE p == Long(sending) - sent
             x == (IF Lag THEN 1 ELSE 0)
             y == (IF IsOneSectionOver THEN 1 ELSE 0)
             z == (IF Lag' THEN 1 ELSE 0)
             w == (IF IsOneSectionOver' THEN 1 ELSE 0)
  <2>1. p \in Nat
    BY LongType DEF TypeOK
  <2>2. /\ x \in 0..1 /\ y \in 0..1 /\ z \in 0..1 /\ w \in 0..1
        /\ z + w < x + y
    BY DEF Lag, IsOneSectionOver
  <2>3. PartsLeft = 3 * p + x + y /\ PartsLeft' = 3 * p + z + w
    BY <1>1 DEF PartsLeft
  <2> HIDE DEF p, x, y, z, w
  <2> QED
    BY <2>1, <2>2, <2>3
<1> QED
  BY <1>3, <1>4 DEF Nearer

LEMMA ParseNearer ==
  ASSUME TypeOK, TypeOK', Assembled, Assembled', Collected, Unfinished,
         Parse, iReturn' = "parsing"
  PROVE  Nearer
<1> USE DEF section, table, capture
<1>1. CASE ReadStart
  <2>1. ~Skipping /\ ~IsOneSectionOver /\ NextPacket
        /\ auiRecordSectionNumber' = auiRecordSectionNumber
        /\ uiVersion' = sending.version
    BY <1>1 DEF ReadStart, Reads, Skipping
  <2>2. iFlagSectionStart' /\ stSectionHead' = sending
    BY <1>1 DEF ReadStart, PutTheBufferToSection
  <2> QED
    BY <2>1, <2>2, PacketNearer
<1>2. CASE ReadContinued
  <2>1. ~IsOneSectionOver /\ NextPacket /\ sent > 0
        /\ auiRecordSectionNumber' = auiRecordSectionNumber
        /\ uiVersion' = uiVersion
    BY <1>2 DEF ReadContinued, Reads
  <2>2. CASE iFlagSectionStart
    <3>1. stSectionHead = sending /\ uiVersion = sending.version
      BY <2>1, <2>2 DEF Assembled, Collected
    <3>2. iFlagSectionStart' /\ stSectionHead' = sending
      BY <1>2, <2>2, <3>1 DEF ReadContinued, PutTheBufferToSection
    <3>3. ~Skipping
      BY <2>2 DEF Skipping
    <3> QED
      BY <2>1, <3>1, <3>2, <3>3, PacketNearer
  <2>3. CASE ~iFlagSectionStart
    <3>1. Skipping /\ ~iFlagSectionStart'
      BY <1>2, <2>1, <2>3 DEF ReadContinued, Skipping
    <3> QED
      BY <2>1, <3>1, PacketNearer
  <2> QED
    BY <2>2, <2>3
<1>3. CASE VersionChange
  <2>1. /\ UNCHANGED capture /\ sent = 0 /\ Lag
        /\ uiVersion' = INITIAL_VERSION /\ ~iFlagSectionStart'
        /\ uiVersion # sending.version
    BY <1>3 DEF VersionChange, Lag, NewSection
  <2>2. ~Lag' /\ ~IsOneSectionOver'
    BY <2>1 DEF Lag, IsOneSectionOver
  <2>3. Had = {} /\ Had' = {}
    BY <2>1, VersionNumbers DEF Had
  <2> QED
    BY <2>1, <2>2, <2>3, PartDone
<1>4. CASE SectionOver
  <2>1. /\ UNCHANGED capture /\ IsOneSectionOver /\ uiVersion' = uiVersion
        /\ ~iFlagSectionStart' /\ Header = stSectionHead
    BY <1>4, WholeSection DEF SectionOver, NewSection
  <2>2. auiRecordSectionNumber'
          = auiRecordSectionNumber \cup {stSectionHead.number}
    BY <1>4, <2>1 DEF SectionOver
  <2>3. ~IsOneSectionOver' /\ Lag' = Lag
    BY <2>1 DEF IsOneSectionOver, Lag
  <2>4. sent = 0
    <3>1. Long(sending) \in Nat \ {0} /\ sent \in 0..(Long(sending) - 1)
      BY LongType DEF TypeOK
    <3> QED
      BY <2>1, <3>1 DEF IsOneSectionOver, Assembled
  <2>5. Had' = Had
    BY <2>1, <2>2, <2>3 DEF Had
  <2> QED
    BY <2>1, <2>3, <2>4, <2>5, PartDone
<1> QED
  BY <1>1, <1>2, <1>3, <1>4 DEF Parse

LEMMA WantsOne ==
  ASSUME TypeOK, Collected, Unfinished, iReturn = "parsing",
         ~IsOneSectionOver
  PROVE  Had \subseteq Numbers /\ Had # Numbers
<1>1. 0 \in Numbers
  BY VersionNumbers DEF Numbers
<1>2. CASE uiVersion = sending.version
  <2>1. Had = auiRecordSectionNumber
    BY <1>2 DEF Had
  <2> QED
    BY <1>2, <2>1, VersionNumbers DEF Collected, Unfinished, Numbers
<1>3. CASE uiVersion # sending.version
  BY <1>1, <1>3 DEF Had
<1> QED
  BY <1>2, <1>3

LEMMA DistancesType == TypeOK => Distances
<1> SUFFICES ASSUME TypeOK PROVE Distances
  OBVIOUS
<1>1. /\ LastNumber[sending.version] \in Nat
      /\ sending.number \in 0..LastNumber[sending.version]
  BY VersionNumbers
<1>2. Long(sending) - sent \in Nat
  BY LongType DEF TypeOK
<1>3. \A n \in Numbers :
        SectionsUntil(n) \in 0..(LastNumber[sending.version] + 1)
  BY <1>1 DEF Numbers, SectionsUntil, Until
<1>4. PartsLeft \in Nat
  <2> DEFINE p == Long(sending) - sent
  <2> HIDE DEF p
  <2>1. PartsLeft = 3 * p + (IF Lag THEN 1 ELSE 0)
                      + (IF IsOneSectionOver THEN 1 ELSE 0)
    BY DEF PartsLeft, p
  <2> QED
    BY <1>2, <2>1 DEF p
<1> QED
  BY <1>3, <1>4 DEF Distances

\* As long as ParsePAT_Table has found nothing in a capture that has every
\* packet, a section of the version being sent is wanted, and each step of
\* the parser, whatever the version changed to before it, brings every
\* wanted section nearer by measures that are natural numbers, or has it;
\* it loses none of them while the version stays.  So in a capture that
\* goes on the table is found (the safety half of TableFound).
THEOREM TableComesTogether ==
  Spec => /\ [](Wants /\ Distances)
          /\ [][Parse /\ ~missed' /\ iReturn' = "parsing" => Nearer]_vars
<1> DEFINE I == TypeOK /\ (~missed => Assembled /\ Collected /\ Unfinished)
<1>1. Init => I
  BY InitType, InitAssembled, InitCollected, InitUnfinished
<1>2. I /\ [Next]_vars => I'
  BY TypeStep, AssembledStep, CollectedStep, UnfinishedStep, StaysMissed
<1>3. I => Wants /\ Distances
  BY WantsOne, DistancesType DEF Wants
<1>4. I /\ I' /\ [Next]_vars =>
        [Parse /\ ~missed' /\ iReturn' = "parsing" => Nearer]_vars
  BY ParseNearer, StaysMissed
<1> QED
  BY <1>1, <1>2, <1>3, <1>4, PTL DEF Spec
=============================================================================
