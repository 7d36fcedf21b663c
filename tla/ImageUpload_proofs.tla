------------------------- MODULE ImageUpload_proofs -------------------------
(***************************************************************************)
(* Theorems about ImageUpload, for turns with any number of images: the    *)
(* types, the files behind a chat, and what becomes of every file.         *)
(***************************************************************************)
EXTENDS ImageUpload, TLAPS

\* Sequences of the loop: what was recorded, and what deleting removes.
LEMMA AppendSet ==
    ASSUME NEW S, NEW s \in Seq(S), NEW x \in S
    PROVE  ToSet(Append(s, x)) = ToSet(s) \cup {x}
<1>1. /\ Len(s) \in Nat /\ DOMAIN s = 1..Len(s)
      /\ DOMAIN Append(s, x) = 1..(Len(s) + 1)
      /\ \A k \in 1..Len(s) : Append(s, x)[k] = s[k]
      /\ Append(s, x)[Len(s) + 1] = x
  OBVIOUS
<1> QED
  BY <1>1 DEF ToSet

LEMMA FrontSet ==
    ASSUME NEW S, NEW s \in Seq(S), s # <<>>
    PROVE  /\ Front(s) \in Seq(S)
           /\ Last(s) \in S
           /\ ToSet(s) = ToSet(Front(s)) \cup {Last(s)}
<1>1. Len(s) \in Nat \ {0} /\ DOMAIN s = 1..Len(s)
  OBVIOUS
<1>2. Front(s) = [k \in 1..(Len(s) - 1) |-> s[k]]
  BY <1>1 DEF Front
<1>3. Front(s) \in Seq(S) /\ Last(s) \in S
  BY <1>1, <1>2 DEF Last
<1> QED
  BY <1>1, <1>2, <1>3 DEF ToSet, Last

-----------------------------------------------------------------------------
\* Before the uploads there is nothing, during them the files are the first
\* ones of the turn, and only a failing URL lookup holds an item.
LoopInv ==
    /\ pc \in {"decode", "site"} => files = <<>> /\ uploaded = <<>> /\ drive = {}
    /\ pc \in {"put", "url", "chat"} =>
           /\ uploaded = files
           /\ Len(files) =< n /\ files = [m \in 1..Len(files) |-> m]
           /\ \A m \in 1..Len(files) : m \in drive
    /\ pc \in {"put", "url"} => Len(files) < n
    /\ pc = "chat" => Len(files) = n
    /\ pc = "url" => item = current /\ item \in drive
    /\ pc # "url" => item = NoItem

\* Nothing is uploaded unless all images decode.
DecodeInv ==
    /\ pc \notin {"decode", "failed"} => valid = Images
    /\ AllOrNothing

UploadInv == TypeOK /\ LoopInv /\ DecodeInv /\ EveryFileAccountedFor

LEMMA InitUpload == Init => UploadInv
<1> SUFFICES ASSUME Init PROVE UploadInv
  OBVIOUS
<1> USE ImageAssumption DEF Init
<1>1. TypeOK
  <2>1. n \in 1..MaxImages /\ valid \subseteq Images /\ drive \subseteq Images
    OBVIOUS
  <2>2. live \in BOOLEAN /\ expired \in BOOLEAN /\ pc = "decode" /\ item = NoItem
    OBVIOUS
  <2>3. files \in Seq(Images) /\ uploaded \in Seq(Images \cup {NoItem})
    OBVIOUS
  <2>4. lost \subseteq Images /\ nameless \subseteq Images /\ undeleted \subseteq Images
    OBVIOUS
  <2> QED
    BY <2>1, <2>2, <2>3, <2>4 DEF TypeOK
<1>2. LoopInv /\ DecodeInv /\ EveryFileAccountedFor
  BY DEF LoopInv, DecodeInv, AllOrNothing, EveryFileAccountedFor
<1> QED
  BY <1>1, <1>2 DEF UploadInv

\* One round of the loop recorded.
LEMMA RecordStep ==
    ASSUME UploadInv, pc \in {"put", "url"}, Record(current),
           drive' = drive \cup {current}, UNCHANGED history
    PROVE  UploadInv'
<1> USE DEF UploadInv
<1>0. /\ n \in Nat \ {0} /\ current \in Images /\ Len(files) \in Nat /\ n' = n
      /\ files \in Seq(Images) /\ uploaded = files /\ Images' = Images
  BY ImageAssumption DEF TypeOK, LoopInv, current, Images, Record, Go
<1>1. /\ files' = Append(files, current) /\ uploaded' = files' /\ item' = NoItem
      /\ pc' = IF Len(files) + 1 = n THEN "chat" ELSE "put"
      /\ valid' = valid /\ live' = live /\ expired' = expired
  BY <1>0 DEF Record, Go
<1>2. Len(files') = Len(files) + 1 /\ files' \in Seq(Images)
      /\ files' = [m \in 1..Len(files') |-> m]
  BY <1>0, <1>1 DEF LoopInv, current
<1>3. TypeOK'
  <2>1. drive' \subseteq Images' /\ lost' \subseteq Images' /\ nameless' \subseteq Images'
          /\ undeleted' \subseteq Images' /\ valid' \subseteq Images'
    BY <1>0, <1>1 DEF TypeOK, history
  <2>2. files' \in Seq(Images') /\ uploaded' \in Seq(Images' \cup {NoItem})
    BY <1>0, <1>1, <1>2
  <2> QED
    BY <1>0, <1>1, <2>1, <2>2 DEF TypeOK
<1>4. LoopInv'
  BY <1>0, <1>1, <1>2 DEF LoopInv, current
<1>5. DecodeInv'
  BY <1>0, <1>1 DEF DecodeInv, AllOrNothing
<1>6. EveryFileAccountedFor'
  <2>1. ToSet(uploaded') = ToSet(uploaded) \cup {current}
    BY <1>0, <1>1, AppendSet
  <2>2. drive \subseteq ToSet(uploaded) \cup {item} \cup lost \cup nameless \cup undeleted
    BY DEF EveryFileAccountedFor, ToDelete
  <2>3. item \in {current, NoItem} /\ NoItem \notin drive
    BY <1>0 DEF LoopInv, TypeOK, Images, NoItem
  <2> QED
    BY <1>1, <2>1, <2>2, <2>3 DEF EveryFileAccountedFor, ToDelete, history
<1> QED
  BY <1>3, <1>4, <1>5, <1>6

\* Steps that leave the files and the drive alone: only where the turn is changes.
LEMMA GoStep ==
    ASSUME UploadInv, NEW p, Go(p), UNCHANGED <<item, files, uploaded, drive, history>>,
           \/ pc = "decode" /\ p = IF valid = Images THEN "site" ELSE "failed"
           \/ pc = "site" /\ p \in {"put", "failed"}
           \/ pc = "chat" /\ p = "cleanup"
           \/ pc \in {"rollback", "cleanup"} /\ uploaded = <<>> /\ p \in {"failed", "done"}
    PROVE  UploadInv'
<1> USE DEF UploadInv
<1>0. /\ pc' = p /\ n' = n /\ valid' = valid /\ live' = live /\ expired' = expired
      /\ item' = item /\ files' = files /\ uploaded' = uploaded /\ drive' = drive
      /\ lost' = lost /\ nameless' = nameless /\ undeleted' = undeleted
      /\ Images' = Images /\ n \in Nat \ {0}
  BY ImageAssumption DEF Go, history, Images, TypeOK
<1>1. TypeOK'
  BY <1>0 DEF TypeOK
<1>2. LoopInv'
  <2>1. CASE pc = "site"
    <3>1. files = <<>> /\ uploaded = <<>> /\ drive = {} /\ item = NoItem
      BY <2>1 DEF LoopInv
    <3>2. Len(files) = 0 /\ files = [m \in 1..0 |-> m]
      BY <3>1
    <3> QED
      BY <2>1, <3>1, <3>2, <1>0 DEF LoopInv
  <2>2. CASE pc # "site"
    BY <2>2, <1>0 DEF LoopInv
  <2> QED
    BY <2>1, <2>2
<1>3. DecodeInv'
  BY <1>0 DEF DecodeInv, AllOrNothing
<1>4. EveryFileAccountedFor'
  <2>1. CASE pc \in {"rollback", "cleanup"}
    <3>1. ToSet(uploaded) = {} /\ item = NoItem /\ NoItem \notin drive
      BY <2>1, <1>0 DEF LoopInv, ToSet, TypeOK, Images, NoItem
    <3> QED
      BY <3>1, <2>1, <1>0 DEF EveryFileAccountedFor, ToDelete
  <2>2. CASE pc \in {"decode", "site"}
    BY <2>2, <1>0 DEF EveryFileAccountedFor, LoopInv
  <2>3. CASE pc = "chat"
    BY <2>3, <1>0 DEF EveryFileAccountedFor, ToDelete
  <2> QED
    BY <2>1, <2>2, <2>3
<1> QED
  BY <1>1, <1>2, <1>3, <1>4

\* Deleting one file takes it off the list, and off the drive or into undeleted.
LEMMA DeleteStep == ASSUME UploadInv, Delete PROVE UploadInv'
<1> USE DEF UploadInv
<1>0. /\ pc \in {"rollback", "cleanup"} /\ uploaded # <<>> /\ uploaded' = Front(uploaded)
      /\ n' = n /\ valid' = valid /\ live' = live /\ pc' = pc /\ item' = item
      /\ files' = files /\ expired' = expired /\ lost' = lost /\ nameless' = nameless
      /\ Images' = Images
  BY DEF Delete, Deleting, Images
<1>1. \/ Last(uploaded) = NoItem /\ drive' = drive /\ undeleted' = undeleted
      \/ drive' = drive \ {Last(uploaded)} /\ undeleted' = undeleted
      \/ /\ drive' = drive /\ undeleted' = undeleted \cup {Last(uploaded)}
         /\ Last(uploaded) # NoItem
  BY DEF Delete
<1>2. /\ uploaded' \in Seq(Images \cup {NoItem}) /\ Last(uploaded) \in Images \cup {NoItem}
      /\ ToSet(uploaded) = ToSet(uploaded') \cup {Last(uploaded)}
  BY <1>0, FrontSet DEF TypeOK
<1>3. TypeOK'
  BY <1>0, <1>1, <1>2 DEF TypeOK
<1>4. LoopInv'
  BY <1>0 DEF LoopInv
<1>5. DecodeInv'
  BY <1>0, <1>1 DEF DecodeInv, AllOrNothing
<1>6. EveryFileAccountedFor'
  <2>1. drive \subseteq ToSet(uploaded) \cup {item} \cup lost \cup nameless \cup undeleted
    BY <1>0 DEF EveryFileAccountedFor, ToDelete
  <2>2. NoItem \notin drive
    BY DEF TypeOK, Images, NoItem
  <2>3. ToDelete' = ToSet(uploaded') \cup {item}
    BY <1>0 DEF ToDelete
  <2> QED
    BY <1>0, <1>1, <1>2, <2>1, <2>2, <2>3 DEF EveryFileAccountedFor
<1> QED
  BY <1>3, <1>4, <1>5, <1>6

\* Steps of the loop that fail: into the rollback.
LEMMA FailStep ==
    ASSUME UploadInv, PutFails \/ UrlMissing \/ UrlFails
    PROVE  UploadInv'
<1> USE DEF UploadInv
<1>0. /\ pc \in {"put", "url"} /\ pc' = "rollback" /\ n' = n /\ valid' = valid
      /\ live' = live /\ expired' = expired /\ files' = files /\ Images' = Images
      /\ item' = NoItem /\ undeleted' = undeleted
  BY DEF PutFails, UrlMissing, UrlFails, Go, Images, history, LoopInv
<1>1. /\ n \in Nat \ {0} /\ Len(files) \in Nat /\ current \in Images
      /\ item \in {current, NoItem} /\ NoItem \notin drive
      /\ (pc = "url" => item = current)
  BY <1>0, ImageAssumption DEF TypeOK, LoopInv, current, Images, NoItem
<1>2. \/ drive' = drive /\ lost' = lost /\ nameless' = nameless /\ uploaded' = uploaded
         /\ pc = "put"
      \/ /\ drive' = drive \cup {current} /\ lost' = lost \cup {current}
         /\ nameless' = nameless /\ uploaded' = uploaded /\ pc = "put"
      \/ /\ drive' = drive /\ lost' = lost /\ nameless' = nameless
         /\ uploaded' = Append(uploaded, item) /\ pc = "url"
      \/ /\ drive' = drive /\ lost' = lost /\ nameless' = nameless \cup {item}
         /\ uploaded' = Append(uploaded, NoItem) /\ pc = "url"
  BY DEF PutFails, UrlMissing, UrlFails, history
<1>3. uploaded \in Seq(Images \cup {NoItem}) /\ files \in Seq(Images)
  BY DEF TypeOK
<1>4. /\ ToSet(Append(uploaded, item)) = ToSet(uploaded) \cup {item}
      /\ ToSet(Append(uploaded, NoItem)) = ToSet(uploaded) \cup {NoItem}
  BY <1>3, AppendSet DEF TypeOK
<1>5. TypeOK'
  <2>1. uploaded' \in Seq(Images \cup {NoItem})
    BY <1>2, <1>3 DEF TypeOK
  <2>2. drive' \subseteq Images /\ lost' \subseteq Images /\ nameless' \subseteq Images
    BY <1>1, <1>2 DEF TypeOK
  <2> QED
    BY <1>0, <2>1, <2>2 DEF TypeOK
<1>6. LoopInv'
  BY <1>0 DEF LoopInv
<1>7. DecodeInv'
  BY <1>0 DEF DecodeInv, AllOrNothing
<1>8. EveryFileAccountedFor'
  <2>1. drive \subseteq ToSet(uploaded) \cup {item} \cup lost \cup nameless \cup undeleted
    BY <1>0 DEF EveryFileAccountedFor, ToDelete
  <2>2. pc = "put" => item = NoItem
    BY DEF LoopInv
  <2>3. ToDelete' = ToSet(uploaded') \cup {NoItem}
    BY <1>0 DEF ToDelete
  <2> QED
    BY <1>0, <1>1, <1>2, <1>4, <2>1, <2>2, <2>3 DEF EveryFileAccountedFor
<1> QED
  BY <1>5, <1>6, <1>7, <1>8

\* The upload is there; the loop asks for its URL next.
LEMMA AskUrlStep ==
    ASSUME UploadInv, pc = "put", Go("url"), item' = current,
           drive' = drive \cup {current}, UNCHANGED <<files, uploaded, history>>
    PROVE  UploadInv'
<1> USE DEF UploadInv
<1>0. /\ pc' = "url" /\ n' = n /\ valid' = valid /\ live' = live /\ expired' = expired
      /\ files' = files /\ uploaded' = uploaded /\ Images' = Images
      /\ lost' = lost /\ nameless' = nameless /\ undeleted' = undeleted
  BY DEF Go, Images, history
<1>1. n \in Nat \ {0} /\ Len(files) \in Nat /\ current \in Images /\ current' = current
  BY <1>0, ImageAssumption DEF TypeOK, LoopInv, current, Images
<1>2. TypeOK'
  BY <1>0, <1>1 DEF TypeOK
<1>3. LoopInv'
  BY <1>0, <1>1 DEF LoopInv
<1>4. DecodeInv'
  BY <1>0 DEF DecodeInv, AllOrNothing
<1>5. EveryFileAccountedFor'
  <2>1. item = NoItem /\ NoItem \notin drive
    BY DEF LoopInv, TypeOK, Images, NoItem
  <2> QED
    BY <1>0, <2>1 DEF EveryFileAccountedFor, ToDelete
<1> QED
  BY <1>2, <1>3, <1>4, <1>5

LEMMA StepUpload == UploadInv /\ [Next]_vars => UploadInv'
<1> SUFFICES ASSUME UploadInv, [Next]_vars PROVE UploadInv'
  OBVIOUS
<1>1. CASE Decode
  BY <1>1, GoStep DEF Decode
<1>2. CASE Resolve
  BY <1>2, GoStep DEF Resolve
<1>3. CASE Put
  <2>1. CASE Record(current)
    BY <1>3, <2>1, RecordStep DEF Put
  <2>2. CASE item' = current /\ Go("url") /\ UNCHANGED <<files, uploaded>>
    BY <1>3, <2>2, AskUrlStep DEF Put
  <2> QED
    BY <1>3, <2>1, <2>2 DEF Put
<1>4. CASE PutFails \/ UrlMissing \/ UrlFails
  BY <1>4, FailStep
<1>5. CASE Url
  <2>1. pc = "url" /\ item = current /\ current \in drive /\ Record(current)
    BY <1>5 DEF Url, UploadInv, LoopInv
  <2>2. drive' = drive \cup {current} /\ UNCHANGED history
    BY <1>5, <2>1 DEF Url
  <2> QED
    BY <2>1, <2>2, RecordStep
<1>6. CASE ChatEnds
  BY <1>6, GoStep DEF ChatEnds
<1>7. CASE Delete
  BY <1>7, DeleteStep
<1>8. CASE Deleted
  BY <1>8, GoStep DEF Deleted
<1>9. CASE Cancel \/ Expire
  <2>1. /\ live' \in BOOLEAN /\ expired' \in BOOLEAN
        /\ UNCHANGED <<n, valid, pc, item, files, uploaded, drive, history>>
    BY <1>9 DEF Cancel, Expire, UploadInv, TypeOK
  <2> QED
    BY <2>1 DEF UploadInv, TypeOK, LoopInv, DecodeInv, AllOrNothing, current,
                EveryFileAccountedFor, ToDelete, Images, history
<1>10. CASE UNCHANGED vars
  BY <1>10 DEF vars, UploadInv, TypeOK, LoopInv, DecodeInv, AllOrNothing, current,
               EveryFileAccountedFor, ToDelete, Images, history
<1> QED
  BY <1>1, <1>2, <1>3, <1>4, <1>5, <1>6, <1>7, <1>8, <1>9, <1>10 DEF Next, Step, Terminated

LEMMA Always == Spec => []UploadInv
<1> QED
  BY InitUpload, StepUpload, PTL DEF Spec

-----------------------------------------------------------------------------
\* The variables keep their types: no loop runs past the last image, and what is
\* recorded are images or the empty id.
THEOREM TypeCorrect == Spec => []TypeOK
<1>1. UploadInv => TypeOK
  BY DEF UploadInv
<1> QED
  BY <1>1, Always, PTL

\* While the upstream answers, each image has exactly one file, in the order of
\* the request, and all of them exist (sharepoint_upload.go:505-536).
THEOREM FilesForTheChat == Spec => []FilesServeTheChat
<1>1. UploadInv => FilesServeTheChat
  <2> SUFFICES ASSUME UploadInv, pc = "chat"
               PROVE  /\ files = [m \in Images |-> m]
                      /\ ToSet(files) \subseteq drive
    BY DEF FilesServeTheChat
  <2>1. /\ Len(files) = n /\ files = [m \in 1..Len(files) |-> m]
        /\ \A m \in 1..Len(files) : m \in drive
    BY DEF UploadInv, LoopInv
  <2> QED
    BY <2>1 DEF Images, ToSet
<1> QED
  BY <1>1, Always, PTL

\* One image that does not decode, and nothing is uploaded (sharepoint_upload.go:480-498).
THEOREM NothingOfABadTurn == Spec => []AllOrNothing
<1>1. UploadInv => AllOrNothing
  BY DEF UploadInv, DecodeInv
<1> QED
  BY <1>1, Always, PTL

\* Every file on the drive will still be deleted, or belongs to one of the known
\* exceptions (sharepoint_upload.go:505-571).
THEOREM AllFilesAccountedFor == Spec => []EveryFileAccountedFor
<1>1. UploadInv => EveryFileAccountedFor
  BY DEF UploadInv
<1> QED
  BY <1>1, Always, PTL
=============================================================================
