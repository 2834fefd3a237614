------------------------------- MODULE Listing -------------------------------
(***************************************************************************)
(* Listing a product: the sell form of client-web, the catalogue handlers  *)
(* of bff, and the product row, the asset rows and the blobs of media-api. *)
(*                                                                         *)
(* The form sends one request at a time and waits for it, up to a timeout  *)
(* after which the handlers run on; the removal of a listed file goes on   *)
(* beside it.  Every handler reads and writes without a transaction.       *)
(***************************************************************************)
EXTENDS Naturals

CONSTANTS
  Files,      \* the files the seller picks
  MaxFaults,  \* how many requests fail, or lose their answer
  MayTimeOut  \* the page may stop waiting for one of them

ASSUME ListingAssumption ==
  /\ "image" \notin Files
  /\ MaxFaults \in Nat
  /\ MayTimeOut \in BOOLEAN

VARIABLES
  page,      \* what the form was opened with: a listing to edit, its image
  form,      \* the state of the form
  row,       \* the product: its status, and image_url
  assets,    \* product_assets: the blobs they name
  blobs,     \* the blobs in storage
  named,     \* how many names each item has been uploaded under
  requests,  \* what the handlers are working on
  unwanted,  \* the files the seller has taken back
  faults,    \* requests failed so far
  late       \* the page has stopped waiting for one

store == <<row, assets, blobs>>
vars == <<page, form, store, named, requests, unwanted, faults, late>>

Items    == Files \cup {"image"}
Names    == Items \X (Nat \ {0})
NoBlob   == <<"image", 0>>
Images   == {NoBlob} \cup ({"image"} \X (Nat \ {0}))
Statuses == {"draft", "available"}
Rows     == [status : Statuses \cup {"none"}, image : Images]
NoRow    == [status |-> "none", image |-> NoBlob]

Forms ==
  [pc : {"idle", "saving", "uploading", "putting", "put", "confirming", "clearing",
         "publishing", "done"},
   wanted : Statuses, saved : BOOLEAN, image : BOOLEAN, queue : SUBSET Files,
   pending : SUBSET Files, existing : SUBSET Names, name : Names \cup {NoBlob}]

Requests ==
  [op : {"create", "update", "put", "image", "previous", "file", "remove"},
   by : {"form", "list", "nobody"}, name : Names \cup {NoBlob}, status : Statuses,
   stage : {"sent", "read", "cleared", "done"}, seen : Rows]

FormOf(wanted, saved, image, queue) ==
  [pc |-> "idle", wanted |-> wanted, saved |-> saved, image |-> image, queue |-> queue,
   pending |-> {}, existing |-> {}, name |-> NoBlob]

(* A new listing with an image picked, or one to edit, with another image  *)
(* or without.                                                             *)
Init ==
  /\ \E wanted \in Statuses :
       \/ /\ page = [editing |-> FALSE, imageUrl |-> NoBlob]
          /\ form = FormOf(wanted, FALSE, TRUE, Files)
          /\ row = NoRow
       \/ /\ page = [editing |-> TRUE, imageUrl |-> <<"image", 1>>]
          /\ \E image \in BOOLEAN : form = FormOf(wanted, TRUE, image, Files)
          /\ \E status \in Statuses : row = [status |-> status, image |-> <<"image", 1>>]
  /\ assets = {}
  /\ blobs = {page.imageUrl} \ {NoBlob}
  /\ named = [i \in Items |-> IF i = "image" /\ page.editing THEN 1 ELSE 0]
  /\ requests = {}
  /\ unwanted = {}
  /\ faults = 0
  /\ late = FALSE

-----------------------------------------------------------------------------
(* The form. *)
Request(op, by, name, status) ==
  [op |-> op, by |-> by, name |-> name, status |-> status, stage |-> "sent", seen |-> NoRow]

Send(r) == requests' = requests \cup {r}
Step(pc) == form' = [form EXCEPT !.pc = pc]

\* Mutant: files that are listed already do not count.
CheckQueueOnly ==
  form.wanted = "available" => (form.image \/ page.imageUrl # NoBlob) /\ form.queue # {}

CheckBeforeSave ==
  form.wanted = "available" =>
    /\ form.image \/ page.imageUrl # NoBlob
    /\ form.existing # {} \/ form.queue # {}

\* Mutant: resuming a draft publishes it.
FirstStatusResumed == IF form.saved THEN form.wanted ELSE "draft"

(* A new listing stays a draft until everything is uploaded. *)
FirstStatus == IF page.editing THEN form.wanted ELSE "draft"

(* submit, up to the row: which files are pending is decided here. *)
Submit ==
  /\ form.pc = "idle"
  /\ CheckBeforeSave
  /\ form' = [form EXCEPT !.pc = "saving", !.pending = form.queue]
  /\ Send(Request(IF form.saved THEN "update" ELSE "create", "form", NoBlob, FirstStatus))
  /\ UNCHANGED <<page, store, named, unwanted, faults, late>>

(* The image first, then one file after another, each under a new name. *)
PutNext ==
  /\ form.pc = "uploading"
  /\ \E i \in IF form.image THEN {"image"} ELSE form.pending :
       LET name == <<i, named[i] + 1>> IN
       /\ named' = [named EXCEPT ![i] = @ + 1]
       /\ form' = [form EXCEPT !.pc = "putting", !.name = name]
       /\ Send(Request("put", "form", name, "draft"))
  /\ UNCHANGED <<page, store, unwanted, faults, late>>

ConfirmPut ==
  /\ form.pc = "put"
  /\ Step("confirming")
  /\ Send(Request(IF form.name[1] = "image" THEN "image" ELSE "file", "form", form.name, "draft"))
  /\ UNCHANGED <<page, store, named, unwanted, faults, late>>

(* Everything is uploaded. *)
Uploaded == form.pc = "uploading" /\ ~form.image /\ form.pending = {}
Publishes == ~page.editing /\ form.wanted # "draft"

Publish ==
  /\ Uploaded
  /\ Publishes
  /\ Step("publishing")
  /\ Send(Request("update", "form", NoBlob, form.wanted))
  /\ UNCHANGED <<page, store, named, unwanted, faults, late>>

Finish ==
  /\ Uploaded
  /\ ~Publishes
  /\ Step("done")
  /\ UNCHANGED <<page, store, named, requests, unwanted, faults, late>>

(* The seller picks an image, takes back a file that waits to be uploaded, *)
(* or removes one that is listed.                                          *)
PickImage ==
  /\ form.pc = "idle"
  /\ ~form.image
  /\ form' = [form EXCEPT !.image = TRUE]
  /\ UNCHANGED <<page, store, named, requests, unwanted, faults, late>>

Unqueue ==
  /\ form.pc # "done"
  /\ \E f \in form.queue \ {form.name[1]} :
       /\ form' = [form EXCEPT !.queue = @ \ {f}]
       /\ unwanted' = unwanted \cup {f}
  /\ UNCHANGED <<page, store, named, requests, faults, late>>

RemoveExisting ==
  /\ form.pc = "idle"
  /\ \E name \in form.existing :
       /\ \A r \in requests : ~(r.op = "remove" /\ r.name = name)
       /\ Send(Request("remove", "list", name, "draft"))
       /\ unwanted' = unwanted \cup {name[1]}
  /\ UNCHANGED <<page, form, store, named, faults, late>>

(* The form when a request is answered ... *)
Accepted(r) ==
  IF r.by = "nobody" THEN form ELSE
  CASE r.op = "remove" -> [form EXCEPT !.existing = @ \ {r.name}]
    [] r.op = "create" -> [form EXCEPT !.pc = "uploading", !.saved = TRUE]
    [] r.op = "update" -> [form EXCEPT !.pc = IF @ = "saving" THEN "uploading" ELSE "done"]
    [] r.op = "put"    -> [form EXCEPT !.pc = "put"]
    [] r.op = "file"   ->
         [form EXCEPT !.pc = "uploading", !.existing = @ \cup {r.name}, !.name = NoBlob,
            !.queue = @ \ {r.name[1]}, !.pending = @ \ {r.name[1]}]
    [] r.op = "image" /\ page.imageUrl # NoBlob -> [form EXCEPT !.pc = "clearing"]
    [] OTHER           -> [form EXCEPT !.pc = "uploading", !.image = FALSE, !.name = NoBlob]

\* Mutant: the status of the answer to the PUT is not looked at.
RefusedUnlessPut(r) ==
  IF r.by # "form" THEN form
  ELSE IF r.op \in {"previous", "put"} THEN Accepted(r)
  ELSE [form EXCEPT !.pc = "idle", !.name = NoBlob]

(* ... and when it fails: the error of DELETE of the previous image is     *)
(* dropped.                                                                *)
Refused(r) ==
  IF r.by # "form" THEN form
  ELSE IF r.op = "previous" THEN Accepted(r)
  ELSE [form EXCEPT !.pc = "idle", !.name = NoBlob]

-----------------------------------------------------------------------------
(* The handlers, one statement at a time. *)
Advance(r, stage, seen) ==
  requests' = (requests \ {r}) \cup {[r EXCEPT !.stage = stage, !.seen = seen]}

Done(r) == Advance(r, "done", r.seen)

ReadsRow(r) == r.op \in {"update", "image", "previous"}

(* owned of bff, or productOwnedBy of media-api *)
ReadRow(r) ==
  /\ r.stage = "sent"
  /\ ReadsRow(r)
  /\ Advance(r, "read", row)
  /\ UNCHANGED <<page, form, store, named, unwanted, faults, late>>

(* A draft whose answer is lost is not the one the form goes on with. *)
CreateProduct(r) ==
  /\ r.stage = "sent"
  /\ r.op = "create"
  /\ r.by = "form"
  /\ row' = [status |-> r.status, image |-> NoBlob]
  /\ requests' = requests \ {r}
  /\ form' = Accepted(r)
  /\ UNCHANGED <<page, assets, blobs, named, unwanted, faults, late>>

PutBlob(r) ==
  /\ r.stage = "sent"
  /\ r.op = "put"
  /\ blobs' = blobs \cup {r.name}
  /\ Done(r)
  /\ UNCHANGED <<page, form, row, assets, named, unwanted, faults, late>>

\* Mutant: bff does not send the image it read along with the update.
SavedRowOfRequest(r) ==
  IF r.op = "update" THEN [status |-> r.status, image |-> NoBlob]
                     ELSE [r.seen EXCEPT !.image = r.name]

(* The whole row is saved, what the handler has read in it included. *)
SavedRow(r) ==
  IF r.op = "update" THEN [status |-> r.status, image |-> r.seen.image]
                     ELSE [r.seen EXCEPT !.image = r.name]

SaveRow(r) ==
  /\ r.stage = "read"
  /\ r.op \in {"update", "image"}
  /\ row' = SavedRow(r)
  /\ Done(r)
  /\ UNCHANGED <<page, form, assets, blobs, named, unwanted, faults, late>>

ConfirmAsset(r) ==
  /\ r.stage = "sent"
  /\ r.op = "file"
  /\ assets' = assets \cup {r.name}
  /\ Done(r)
  /\ UNCHANGED <<page, form, row, blobs, named, unwanted, faults, late>>

(* The blob of an asset, or of the previous image, is deleted first. *)
ReadyToDelete(r) ==
  \/ r.op = "previous" /\ r.stage = "read"
  \/ r.op = "remove" /\ r.stage = "sent"

DeleteBlob(r) ==
  /\ ReadyToDelete(r)
  /\ blobs' = blobs \ {r.name}
  /\ Advance(r, "cleared", r.seen)
  /\ UNCHANGED <<page, form, row, assets, named, unwanted, faults, late>>

DeleteRow(r) ==
  /\ r.stage = "cleared"
  /\ IF r.op = "remove"
     THEN assets' = assets \ {r.name} /\ UNCHANGED row
     ELSE /\ row' = IF r.seen.image = r.name THEN [r.seen EXCEPT !.image = NoBlob] ELSE row
          /\ UNCHANGED assets
  /\ Done(r)
  /\ UNCHANGED <<page, form, blobs, named, unwanted, faults, late>>

(* confirmMainImage goes on to the image the form was opened with. *)
Clears(r) == r.by = "form" /\ r.op = "image" /\ page.imageUrl # NoBlob

Answer(r) ==
  /\ r.stage = "done"
  /\ form' = Accepted(r)
  /\ requests' = (requests \ {r}) \cup
       (IF Clears(r) THEN {Request("previous", "form", page.imageUrl, "draft")} ELSE {})
  /\ UNCHANGED <<page, store, named, unwanted, faults, late>>

-----------------------------------------------------------------------------
(* A handler fails, at whatever statement, or its answer is lost. *)
Fail(r) ==
  /\ faults < MaxFaults
  /\ faults' = faults + 1
  /\ form' = Refused(r)
  /\ requests' = requests \ {r}
  /\ UNCHANGED <<page, store, named, unwanted, late>>

(* The page stops waiting for a request to bff, which is carried out.      *)
(* Uploads have no timeout.                                                *)
TimeOut(r) ==
  /\ MayTimeOut
  /\ ~late
  /\ faults < MaxFaults
  /\ r.by # "nobody"
  /\ r.op \notin {"create", "put"}
  /\ faults' = faults + 1
  /\ late' = TRUE
  /\ form' = Refused(r)
  /\ requests' = (requests \ {r}) \cup {[r EXCEPT !.by = "nobody"]}
  /\ UNCHANGED <<page, store, named, unwanted>>

FormStep == Submit \/ PutNext \/ ConfirmPut \/ Publish \/ Finish
Seller   == PickImage \/ Unqueue \/ RemoveExisting
Handler(r) ==
  \/ ReadRow(r) \/ CreateProduct(r) \/ PutBlob(r) \/ SaveRow(r) \/ ConfirmAsset(r)
  \/ DeleteBlob(r) \/ DeleteRow(r) \/ Answer(r)

Next == FormStep \/ Seller \/ \E r \in requests : Handler(r) \/ Fail(r) \/ TimeOut(r)

Spec == Init /\ [][Next]_vars

(* The requests are carried out, the form goes on, and the seller presses  *)
(* the button again and picks the image again when the form asks for it.   *)
Fairness ==
  /\ WF_vars(FormStep)
  /\ WF_vars(PickImage)
  /\ WF_vars(\E r \in requests : Handler(r))

FairSpec == Spec /\ Fairness

-----------------------------------------------------------------------------
TypeOK ==
  /\ page \in [editing : BOOLEAN, imageUrl : Images]
  /\ form \in Forms
  /\ row \in Rows
  /\ assets \in SUBSET Names
  /\ blobs \in SUBSET Names
  /\ named \in [Items -> Nat]
  /\ requests \in SUBSET Requests
  /\ unwanted \in SUBSET Files
  /\ faults \in 0..MaxFaults
  /\ late \in BOOLEAN

(* A row of product_assets names a blob that is there, whatever fails or   *)
(* is carried out late, unless the seller has asked to remove the file:    *)
(* what is listed and bought can be downloaded.                            *)
FilesHaveBlobs == \A name \in assets : name \in blobs \/ name[1] \in unwanted

(* As long as no request is carried out after its timeout, image_url never *)
(* names a blob that was deleted, and a new listing is not public without  *)
(* an image: the row the update of bff saves holds the image it read.      *)
ImageShown ==
  ~late =>
    /\ row.image \in blobs \cup {NoBlob}
    /\ row.status = "available" /\ ~page.editing => row.image # NoBlob

(* A new listing becomes public only when every file the seller picked,    *)
(* and has not taken back, is listed and its blob uploaded, whichever      *)
(* attempt uploaded it (the comment above draftFirst in listing-form.tsx). *)
PublishedWhole ==
  [][row.status # "available" /\ row'.status = "available" /\ ~page.editing
       => \A f \in Files \ unwanted : \E name \in assets \cap blobs : name[1] = f]_vars

(* A seller who keeps at it gets through, after failures at any request,   *)
(* lost answers and timeouts: no attempt leaves the form in a state from   *)
(* which it cannot be finished.                                            *)
SellerGetsThrough == <>(form.pc = "done" \/ unwanted # {})

(* What the form says when an attempt at a new listing fails: it is saved  *)
(* as a draft, and pressing the button again goes on from there.           *)
ResumeAccepted == form.pc = "idle" /\ form.saved /\ unwanted = {} => CheckBeforeSave
=============================================================================
