----------------------------- MODULE TableParse -----------------------------
(***************************************************************************)
(* How a table (the PAT) is read out of a capture of the transport stream: *)
(* GetOneSection puts a section together from packets, ParsePAT_Table a    *)
(* table from sections, and both cope with a table whose version changes   *)
(* while it is read.                                                       *)
(*                                                                         *)
(* The multiplexer repeats the sections of the current version, each from  *)
(* a packet of its own on; packets of other PIDs are left out.  A unit     *)
(* stands for the bytes that matter at once: a packet carries Capacity of  *)
(* them, and a section is as many as Length says, in which the first has   *)
(* the section's header.                                                   *)
(***************************************************************************)
EXTENDS Integers, Sequences, FiniteSets

CONSTANTS
  Versions,     \* version numbers of the table
  LastNumber,   \* of each version, the number of its last section
  Length,       \* of each version and section number, section_length + 3
  Capacity      \* units of a section in a packet

Sections == UNION {[version : {v}, number : 0..LastNumber[v]] : v \in Versions}
Long(s) == Length[s.version][s.number]

ASSUME VersionAssumption ==
  Versions \subseteq 0..31 /\ LastNumber \in [Versions -> Nat]
ASSUME LengthAssumption == \A s \in Sections : Long(s) \in Nat \ {0}
ASSUME CapacityAssumption == Capacity \in Nat \ {0}

INITIAL_VERSION == 65535

VARIABLES
  sending,      \* the section of the next packet
  sent,         \* units of it that came before that packet
  missed,       \* whether a packet of the stream is not in the capture
  uiVersion, stSectionHead,
  iFlagSectionStart, aucSectionBuffer,   \* iAlreadyAddSection is its length
  auiRecordSectionNumber,   \* the numbers of the sections already parsed
  astPAT_Info,              \* the units parsed so far
  iReturn                   \* ParsePAT_Table's result

capture == <<sending, sent, missed>>
section == <<stSectionHead, iFlagSectionStart, aucSectionBuffer>>
table   == <<uiVersion, auiRecordSectionNumber, astPAT_Info>>
vars    == <<capture, section, table, iReturn>>

Units(s) == [section : {s}, unit : 1..Long(s)]
AllUnits == [section : Sections, unit : Nat \ {0}]

\* The variables stay in their ranges: no section outgrows its header's
\* length, which is what GetOneSection recognises its end by.
TypeOK ==
  /\ sending \in Sections /\ sent \in 0..(Long(sending) - 1)
  /\ missed \in BOOLEAN
  /\ uiVersion \in Versions \cup {INITIAL_VERSION}
  /\ iFlagSectionStart \in BOOLEAN
  /\ stSectionHead \in Sections
  /\ aucSectionBuffer \in Seq(AllUnits)
  /\ iReturn # "overrun" => Len(aucSectionBuffer) <= Long(stSectionHead)
  /\ auiRecordSectionNumber \subseteq Nat
  /\ astPAT_Info \in Seq(AllUnits)
  /\ iReturn \in {"parsing", "found", "nothing", "overrun"}

\* A capture begins anywhere in the stream.
Init ==
  /\ sending \in Sections /\ sent \in 0..(Long(sending) - 1)
  /\ sent % Capacity = 0 /\ missed = FALSE
  /\ uiVersion = INITIAL_VERSION /\ stSectionHead = sending
  /\ iFlagSectionStart = FALSE /\ aucSectionBuffer = <<>>
  /\ auiRecordSectionNumber = {} /\ astPAT_Info = <<>>
  /\ iReturn = "parsing"

-----------------------------------------------------------------------------
(* The stream                                                              *)

NextSection == [sending EXCEPT !.number = IF @ = LastNumber[sending.version]
                                            THEN 0 ELSE @ + 1]

NextPacket ==
  IF sent + Capacity < Long(sending)
    THEN sent' = sent + Capacity /\ UNCHANGED sending
    ELSE sent' = 0 /\ sending' = NextSection

\* The units of the next packet; what follows the section's end is stuffing.
Payload == [i \in 1..Capacity |-> [section |-> sending, unit |-> sent + i]]

Lose ==
  /\ iReturn = "parsing"
  /\ NextPacket /\ missed' = TRUE
  /\ UNCHANGED <<section, table, iReturn>>

ChangeVersion(v) ==
  /\ sent = 0 /\ v # sending.version /\ iReturn = "parsing"
  /\ sending' = [version |-> v, number |-> 0]
  /\ UNCHANGED <<sent, missed, section, table, iReturn>>

-----------------------------------------------------------------------------
(* GetOneSection                                                           *)

NewSection ==
  /\ iFlagSectionStart' = FALSE /\ aucSectionBuffer' = <<>>
  /\ UNCHANGED stSectionHead

IsOneSectionOver ==
  iFlagSectionStart /\ Len(aucSectionBuffer) = Long(stSectionHead)

\* (Slip.)  What follows the section in the packet is copied with it.
CopyLengthWhole(head) == Capacity

CopyLength(head) ==
  IF Long(head) < Capacity + Len(aucSectionBuffer)
    THEN Long(head) - Len(aucSectionBuffer) ELSE Capacity

\* memcpy takes a negative length for a huge one.
PutTheBufferToSection(head) ==
  /\ stSectionHead' = head /\ iFlagSectionStart' = TRUE
  /\ IF CopyLength(head) < 0
       THEN iReturn' = "overrun" /\ UNCHANGED aucSectionBuffer
       ELSE /\ aucSectionBuffer' =
                 aucSectionBuffer \o SubSeq(Payload, 1, CopyLength(head))
            /\ UNCHANGED iReturn

Reads == iReturn = "parsing" /\ ~IsOneSectionOver

\* The first packet of a section.  A section that has been begun before is
\* not dropped: its rest may only be missing.
ReadStart ==
  /\ Reads /\ sent = 0
  /\ uiVersion \in {INITIAL_VERSION, sending.version}
  /\ uiVersion' = sending.version
  /\ PutTheBufferToSection(sending)
  /\ NextPacket
  /\ UNCHANGED <<missed, auiRecordSectionNumber, astPAT_Info>>

ReadContinued ==
  /\ Reads /\ sent > 0
  /\ IF iFlagSectionStart THEN PutTheBufferToSection(stSectionHead)
                          ELSE UNCHANGED <<section, iReturn>>
  /\ NextPacket
  /\ UNCHANGED <<missed, table>>

\* (Slips.)  What was collected of the old version is kept; the version is
\* not initial again.
VersionChangeKeeps ==
  /\ Reads /\ sent = 0
  /\ uiVersion \notin {INITIAL_VERSION, sending.version}
  /\ uiVersion' = INITIAL_VERSION /\ auiRecordSectionNumber' = {}
  /\ NewSection
  /\ UNCHANGED <<capture, astPAT_Info, iReturn>>

VersionChangeRemembers ==
  /\ Reads /\ sent = 0
  /\ uiVersion \notin {INITIAL_VERSION, sending.version}
  /\ auiRecordSectionNumber' = {} /\ astPAT_Info' = <<>>
  /\ NewSection
  /\ UNCHANGED <<capture, uiVersion, iReturn>>

\* A section of another version: GetOneSection returns 0, ParsePAT_Table
\* forgets what it has and goes back by a packet to read this one again.
VersionChange ==
  /\ Reads /\ sent = 0
  /\ uiVersion \notin {INITIAL_VERSION, sending.version}
  /\ uiVersion' = INITIAL_VERSION /\ auiRecordSectionNumber' = {}
  /\ astPAT_Info' = <<>>
  /\ NewSection
  /\ UNCHANGED <<capture, iReturn>>

-----------------------------------------------------------------------------
(* ParsePAT_Table                                                          *)

\* What the header in the buffer says of the section that is in it.
Header == aucSectionBuffer[1].section

\* The units up to the length in the buffer's header (zeros follow the last).
ParsePAT_Section ==
  SubSeq(aucSectionBuffer, 1,
         IF Long(Header) < Len(aucSectionBuffer) THEN Long(Header)
                                                 ELSE Len(aucSectionBuffer))

\* (Slip.)  The next section is put behind this one.
SectionOverAppends ==
  /\ iReturn = "parsing" /\ IsOneSectionOver
  /\ auiRecordSectionNumber' = auiRecordSectionNumber \cup {Header.number}
  /\ astPAT_Info' = IF Header.number \in auiRecordSectionNumber
                      THEN astPAT_Info ELSE astPAT_Info \o ParsePAT_Section
  /\ iReturn' = IF Cardinality(auiRecordSectionNumber')
                     = LastNumber[Header.version] + 1
                  THEN "found" ELSE iReturn
  /\ iFlagSectionStart' = FALSE
  /\ UNCHANGED <<capture, uiVersion, stSectionHead, aucSectionBuffer>>

SectionOver ==
  /\ iReturn = "parsing" /\ IsOneSectionOver
  /\ auiRecordSectionNumber' = auiRecordSectionNumber \cup {Header.number}
  /\ astPAT_Info' = IF Header.number \in auiRecordSectionNumber
                      THEN astPAT_Info ELSE astPAT_Info \o ParsePAT_Section
  /\ iReturn' = IF Cardinality(auiRecordSectionNumber')
                     = LastNumber[Header.version] + 1
                  THEN "found" ELSE iReturn
  /\ NewSection
  /\ UNCHANGED <<capture, uiVersion>>

CaptureEnds ==
  /\ Reads
  /\ iReturn' = "nothing"
  /\ UNCHANGED <<capture, section, table>>

-----------------------------------------------------------------------------
Parse == ReadStart \/ ReadContinued \/ VersionChange \/ SectionOver

Next == \/ Parse \/ CaptureEnds \/ Lose
        \/ (\E v \in Versions : ChangeVersion(v))

Spec == Init /\ [][Next]_vars

\* The parser runs.
FairSpec == Spec /\ WF_vars(Parse)

-----------------------------------------------------------------------------
TableUnits(v) == UNION {Units(s) : s \in {r \in Sections : r.version = v}}

\* A table that is found is the table: everything of one of its versions,
\* once, and nothing of another version, wherever the capture began and
\* however often the version changed while the sections were collected.
FoundIsWhole ==
  iReturn = "found" =>
    /\ \E v \in Versions :
         {astPAT_Info[i] : i \in DOMAIN astPAT_Info} = TableUnits(v)
    /\ \A i, j \in DOMAIN astPAT_Info :
         astPAT_Info[i] = astPAT_Info[j] => i = j

\* It is so in a capture that has every packet.
WholeTable == ~missed => FoundIsWhole

\* And there PutTheBufferToSection always has something to copy that fits:
\* the length of what is in the buffer, left by earlier packets, never
\* exceeds the length in the header it goes by.
CopyFits == ~missed => iReturn # "overrun"

\* In a long enough capture of one version its table is found (or ends the
\* parser, see CopyFits); changes of version and missing packets before that
\* do not keep the parser from it.
TableFound ==
  (\E v \in Versions : <>[](sending.version = v)) /\ <>[][~Lose]_vars =>
    <>(iReturn # "parsing")
=============================================================================
