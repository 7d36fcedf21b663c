---------------------------- MODULE ImageUpload ----------------------------
(***************************************************************************)
(* internal/provider/m365/sharepoint_upload.go: the images of one turn on  *)
(* their way through the SharePoint app folder, from the data URLs of the  *)
(* request (prepareUploadedTurnFiles) to the deletion after the answer     *)
(* (cleanupUploadedTurnFiles) or after a failure (rollback).               *)
(*                                                                         *)
(* Image n is uploaded under a fresh random name, so drive items are       *)
(* numbered like the images.  Each HTTP call is one step that Graph        *)
(* answers, refuses, or carries out without the reply arriving.            *)
(***************************************************************************)
EXTENDS Integers, Sequences, SequencesExt

CONSTANT MaxImages      \* bound: images of a turn

ASSUME ImageAssumption == MaxImages \in Nat \ {0}

VARIABLES
    n,          \* number of images of the turn
    valid,      \* which of them are data URLs that decode
    live,       \* FALSE once the request's context is cancelled
    pc,         \* where the turn is
    item,       \* item.ID of the upload under way, NoItem when empty
    files,      \* out.Files: the URIs given to the chat, as item numbers
    uploaded,   \* out.Uploaded: ItemID of every recorded upload
    expired,    \* the 30 s of the clean-up are over
    drive,      \* drive items that exist
    lost,       \* history: uploads whose reply never arrived
    nameless,   \* history: uploads whose item id was dropped
    undeleted   \* history: items Graph refused to delete, or not within 30 s

history == <<lost, nameless, undeleted>>
vars == <<n, valid, live, pc, item, files, uploaded, expired, drive, history>>

NoItem == 0
Images == 1..n
current == Len(files) + 1       \* the image of this round of the loop

TypeOK ==
    /\ n \in 1..MaxImages
    /\ valid \subseteq Images
    /\ live \in BOOLEAN /\ expired \in BOOLEAN
    /\ pc \in {"decode", "site", "put", "url", "chat", "rollback", "cleanup",
               "failed", "done"}
    /\ item \in Images \cup {NoItem}
    /\ files \in Seq(Images)
    /\ uploaded \in Seq(Images \cup {NoItem})
    /\ drive \subseteq Images
    /\ lost \subseteq Images /\ nameless \subseteq Images /\ undeleted \subseteq Images

Init ==
    /\ n \in 1..MaxImages
    /\ valid \in SUBSET Images
    /\ live = TRUE /\ pc = "decode" /\ item = NoItem
    /\ files = <<>> /\ uploaded = <<>> /\ expired = FALSE
    /\ drive = {} /\ lost = {} /\ nameless = {} /\ undeleted = {}

-----------------------------------------------------------------------------
Go(p) == pc' = p /\ UNCHANGED <<n, valid, live, expired>>

\* Mutant of Decode: only the first image is looked at.
DecodeFirst ==
    /\ pc = "decode"
    /\ Go(IF 1 \in valid THEN "site" ELSE "failed")
    /\ UNCHANGED <<item, files, uploaded, drive, history>>

\* All images are decoded before anything is uploaded.
Decode ==
    /\ pc = "decode"
    /\ Go(IF valid = Images THEN "site" ELSE "failed")
    /\ UNCHANGED <<item, files, uploaded, drive, history>>

\* resolveSharePointSite and getSharePointAppRoot.
Resolve ==
    /\ pc = "site"
    /\ \/ live /\ Go("put")
       \/ Go("failed")
    /\ UNCHANGED <<item, files, uploaded, drive, history>>

\* Mutants of Record: one round too many; the last image is forgotten.
RecordOneMore(id) ==
    /\ files' = Append(files, id)
    /\ uploaded' = Append(uploaded, id)
    /\ item' = NoItem
    /\ Go(IF Len(files) = n THEN "chat" ELSE "put")

RecordAllButOne(id) ==
    /\ files' = Append(files, id)
    /\ uploaded' = Append(uploaded, id)
    /\ item' = NoItem
    /\ Go(IF Len(files) + 2 >= n THEN "chat" ELSE "put")

\* The round is over: record the upload and take the next image, or chat.
Record(id) ==
    /\ files' = Append(files, id)
    /\ uploaded' = Append(uploaded, id)
    /\ item' = NoItem
    /\ Go(IF Len(files) + 1 = n THEN "chat" ELSE "put")

\* The PUT succeeds; without a webUrl in the reply the loop asks for it.
Put ==
    /\ pc = "put"
    /\ live
    /\ drive' = drive \cup {current}
    /\ \/ Record(current)
       \/ /\ item' = current
          /\ Go("url")
          /\ UNCHANGED <<files, uploaded>>
    /\ UNCHANGED history

\* Mutant of PutFails: the error is returned without a rollback.
PutFailsAtOnce ==
    /\ pc = "put"
    /\ Go("failed")
    /\ UNCHANGED <<item, files, uploaded, drive, history>>

\* The PUT fails, or its reply is lost: the earlier uploads are rolled back.
PutFails ==
    /\ pc = "put"
    /\ \/ UNCHANGED <<drive, lost>>
       \/ /\ live
          /\ drive' = drive \cup {current}
          /\ lost' = lost \cup {current}
    /\ Go("rollback")
    /\ UNCHANGED <<item, files, uploaded, nameless, undeleted>>

\* getDriveItemWebURL answers with a URL ...
Url ==
    /\ pc = "url"
    /\ live
    /\ Record(item)
    /\ UNCHANGED <<drive, history>>

\* ... or without one: the upload is recorded and rolled back with the others ...
UrlMissing ==
    /\ pc = "url"
    /\ live
    /\ uploaded' = Append(uploaded, item)
    /\ item' = NoItem
    /\ Go("rollback")
    /\ UNCHANGED <<files, drive, history>>

\* ... or fails.  The call has then overwritten item with a zero value, whose
\* empty ID is what gets recorded.
UrlFails ==
    /\ pc = "url"
    /\ item' = NoItem
    /\ uploaded' = Append(uploaded, item')
    /\ nameless' = nameless \cup {item}
    /\ Go("rollback")
    /\ UNCHANGED <<files, drive, lost, undeleted>>

\* The turn itself (see Executor): it ends, however it ends, and then deletes
\* the files with a context of its own.
ChatEnds ==
    /\ pc = "chat"
    /\ Go("cleanup")
    /\ UNCHANGED <<item, files, uploaded, drive, history>>

Deleting == pc \in {"rollback", "cleanup"} /\ uploaded # <<>>

\* Mutant of Delete: a failed deletion is tried again, on and on.
DeleteUntilGone ==
    /\ Deleting
    /\ LET id == Last(uploaded)
       IN  \/ /\ id = NoItem \/ ~expired
              /\ drive' = drive \ {id}
              /\ uploaded' = Front(uploaded)
              /\ UNCHANGED undeleted
           \/ /\ id # NoItem
              /\ undeleted' = undeleted \cup {id}
              /\ UNCHANGED <<drive, uploaded>>
    /\ UNCHANGED <<n, valid, live, pc, item, files, expired, lost, nameless>>

\* cleanupUploadedTurnFiles, last upload first; an empty ItemID is skipped, a
\* failed deletion is logged and the loop goes on.
Delete ==
    /\ Deleting
    /\ LET id == Last(uploaded)
       IN  \/ /\ id = NoItem
              /\ UNCHANGED <<drive, undeleted>>
           \/ /\ id # NoItem /\ ~expired
              /\ drive' = drive \ {id}
              /\ UNCHANGED undeleted
           \/ /\ id # NoItem
              /\ undeleted' = undeleted \cup {id}
              /\ UNCHANGED drive
    /\ uploaded' = Front(uploaded)
    /\ UNCHANGED <<n, valid, live, pc, item, files, expired, lost, nameless>>

Deleted ==
    /\ pc \in {"rollback", "cleanup"}
    /\ uploaded = <<>>
    /\ Go(IF pc = "rollback" THEN "failed" ELSE "done")
    /\ UNCHANGED <<item, files, uploaded, drive, history>>

\* The client leaves.
Cancel ==
    /\ live
    /\ live' = FALSE
    /\ UNCHANGED <<n, valid, pc, item, files, uploaded, expired, drive, history>>

\* 30 s after the clean-up began.
Expire ==
    /\ Deleting
    /\ ~expired
    /\ expired' = TRUE
    /\ UNCHANGED <<n, valid, live, pc, item, files, uploaded, drive, history>>

Terminated ==
    /\ pc \in {"failed", "done"}
    /\ UNCHANGED vars

Step ==
    \/ Decode \/ Resolve \/ Put \/ PutFails \/ Url \/ UrlMissing \/ UrlFails
    \/ ChatEnds \/ Delete \/ Deleted

Next == Step \/ Cancel \/ Expire \/ Terminated

Spec == Init /\ [][Next]_vars /\ WF_vars(Step)

-----------------------------------------------------------------------------
(* While the upstream answers, each image of the turn has exactly one      *)
(* file, in the order of the request, and all of them exist                *)
(* (sharepoint_upload.go:505-536, executor.go:313-315).                    *)
FilesServeTheChat ==
    pc = "chat" => /\ files = [m \in Images |-> m]
                   /\ ToSet(files) \subseteq drive

(* One image that does not decode, and nothing is uploaded at all          *)
(* (sharepoint_upload.go:480-498).                                         *)
AllOrNothing == drive # {} => valid = Images

ToDelete == IF pc \in {"failed", "done"} THEN {} ELSE ToSet(uploaded) \cup {item}

(* Every file on the drive is one the proxy is still going to delete,      *)
(* through a rollback, a client that leaves, or an answer; the exceptions  *)
(* are an upload whose reply was lost, one whose URL lookup failed (see    *)
(* NothingLeftBehind), and a deletion Graph did not perform in time        *)
(* (sharepoint_upload.go:505-571).                                         *)
EveryFileAccountedFor == drive \subseteq ToDelete \cup lost \cup nameless \cup undeleted

(* A turn whose uploads were all acknowledged and whose deletions all went *)
(* through leaves nothing on the drive (README.md:187).                    *)
NothingLeftBehind ==
    pc \in {"failed", "done"} => drive \subseteq lost \cup undeleted

(* The uploads and deletions of a turn come to an end.                     *)
TurnEnds == <>(pc \in {"failed", "done"})
=============================================================================
