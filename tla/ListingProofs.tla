---------------------------- MODULE ListingProofs ----------------------------
(***************************************************************************)
(* Proofs about Listing for every set of files, any number of faults, and  *)
(* a page that may stop waiting or not.                                    *)
(***************************************************************************)
EXTENDS Listing, TLAPS

FileNames  == Files \X (Nat \ {0})
ImageNames == {"image"} \X (Nat \ {0})

(* The page offers an image to replace only to who edits a listing, and no *)
(* upload is ever given its name.                                          *)
PageOK ==
  /\ page.imageUrl # NoBlob => page.imageUrl = <<"image", 1>> /\ named["image"] > 0
  /\ ~page.editing => page.imageUrl = NoBlob

FormOK ==
  /\ form.existing \subseteq FileNames
  /\ form.pc \in {"putting", "put", "confirming"} => form.name \in Names \ {page.imageUrl}
  /\ ~form.saved => form.pc \in {"idle", "saving"} /\ form.image

(* What a request is about, whoever still waits for it. *)
RequestOK(r) ==
  /\ r.op \in {"file", "remove"} => r.name \in FileNames
  /\ r.op = "image" => r.name \in ImageNames
  /\ r.op = "put" => r.name \in Names /\ r.by = "form"
  /\ r.op = "previous" => r.name = page.imageUrl /\ page.imageUrl # NoBlob
  /\ r.op \in {"put", "image", "file"} => r.name # page.imageUrl
  /\ r.op = "remove" => r.name[1] \in unwanted /\ r.by # "form"
  /\ r.op = "create" => r.by = "form"
  /\ r.by = "list" => r.op = "remove"

(* The request the form waits for is the one its state says. *)
Awaited(r) ==
  r.by = "form" =>
    /\ r.op = "create"          => form.pc = "saving" /\ ~form.saved
    /\ r.op = "update"          => form.pc \in {"saving", "publishing"} /\ form.saved
    /\ r.op = "put"             => form.pc = "putting" /\ r.name = form.name
    /\ r.op \in {"image", "file"} => form.pc = "confirming" /\ r.name = form.name
    /\ r.op = "previous"        => form.pc = "clearing"

OneAtATime == \A r, s \in requests : r.by = "form" /\ s.by = "form" => r = s

ProtocolOK ==
  /\ TypeOK
  /\ PageOK
  /\ FormOK
  /\ \A r \in requests : RequestOK(r) /\ Awaited(r)
  /\ OneAtATime

(* What has been uploaded stays, unless the seller has taken it back. *)
Stored(name) == name \in blobs \/ name[1] \in unwanted
Listed(f) == \E name \in assets \cap blobs : name[1] = f
Whole == \A f \in Files \ unwanted : Listed(f)

RequestStored(r) ==
  /\ r.op \in {"image", "file"} \/ (r.op = "put" /\ r.stage = "done") => Stored(r.name)
  /\ r.op = "file" /\ r.stage = "done" => r.name \in assets \/ r.name[1] \in unwanted
  /\ r.stage = "cleared" => r.op \in {"previous", "remove"}

UploadsStored ==
  /\ assets \subseteq FileNames
  /\ FilesHaveBlobs
  /\ form.pc = "put" => Stored(form.name)
  /\ \A r \in requests : RequestStored(r)

NothingForgotten ==
  /\ form.pc \notin {"idle", "done"} => form.queue \subseteq form.pending
  /\ \A f \in Files : f \in form.queue \/ f \in unwanted \/ Listed(f)

(* Whatever makes a new listing public does so when all of it is there. *)
MakesPublic(r) == r.op \in {"create", "update"} /\ r.status = "available"

PublicWhole ==
  ~page.editing =>
    /\ row.status = "available" => Whole
    /\ \A r \in requests : r.seen.status = "available" \/ MakesPublic(r) => Whole

(* As long as no request is late, nobody but the form changes the row.     *)
RequestInTime(r) ==
  /\ r.by # "nobody"
  /\ ReadsRow(r) /\ r.stage \in {"read", "cleared"} => r.seen = row
  /\ r.op = "image" /\ r.stage = "done" => row.image = r.name
  /\ r.op = "previous" => row.image # page.imageUrl
  /\ ~page.editing /\ r.op = "create" => r.status = "draft"
  /\ ~page.editing /\ MakesPublic(r) => row.image # NoBlob

InTime ==
  ~late =>
    /\ row.image \in blobs \cup {NoBlob}
    /\ ~page.editing /\ (row.status = "available" \/ ~form.image) => row.image # NoBlob
    /\ \A r \in requests : RequestInTime(r)

-----------------------------------------------------------------------------
(* Names. *)
LEMMA NameFacts ==
  /\ FileNames \subseteq Names
  /\ ImageNames \subseteq Names
  /\ ImageNames \subseteq Images
  /\ \A name \in FileNames : name[1] \in Files /\ name \notin Images
  /\ \A name \in ImageNames : name[1] = "image"
  /\ \A name \in Names : /\ name # NoBlob
                         /\ name[1] = "image" => name \in ImageNames
                         /\ name[1] # "image" => name \in FileNames
  /\ NoBlob \in Images
  /\ \A i \in Items, n \in Nat : <<i, n + 1>> \in Names
BY ListingAssumption DEF FileNames, ImageNames, Names, Images, Items, NoBlob

(* What happens to a form and to a request. *)
LEMMA FormType ==
  ASSUME form \in Forms, NEW r, r \in Requests, RequestOK(r)
  PROVE  Accepted(r) \in Forms /\ Refused(r) \in Forms
<1>1. r.op = "file" => r.name \in Names /\ r.name[1] \in Files
  BY NameFacts DEF RequestOK
<1>2. Accepted(r) \in Forms
  <2>1. CASE r.by = "nobody"
    BY <2>1 DEF Accepted
  <2>2. CASE r.by # "nobody" /\ r.op = "file"
    BY <1>1, <2>2 DEF Accepted, Forms
  <2>3. CASE r.by # "nobody" /\ r.op = "remove"
    BY <2>3 DEF Accepted, Forms
  <2>4. CASE r.by # "nobody" /\ r.op \in {"create", "update", "put"}
    BY <2>4 DEF Accepted, Forms
  <2>5. CASE r.by # "nobody" /\ r.op \in {"image", "previous"}
    BY <2>5 DEF Accepted, Forms
  <2> QED BY <2>1, <2>2, <2>3, <2>4, <2>5 DEF Requests
<1>3. [form EXCEPT !.pc = "idle", !.name = NoBlob] \in Forms
  BY DEF Forms
<1> QED BY <1>2, <1>3 DEF Refused

LEMMA AdvanceType ==
  ASSUME NEW r \in Requests, NEW stage \in {"sent", "read", "cleared", "done"}, NEW seen \in Rows,
         Advance(r, stage, seen)
  PROVE  \E s \in Requests :
           /\ s.op = r.op /\ s.by = r.by /\ s.name = r.name /\ s.status = r.status
           /\ s.stage = stage /\ s.seen = seen
           /\ requests' = (requests \ {r}) \cup {s}
<1> DEFINE s == [r EXCEPT !.stage = stage, !.seen = seen]
<1>1. /\ s \in Requests
      /\ s.op = r.op /\ s.by = r.by /\ s.name = r.name /\ s.status = r.status
      /\ s.stage = stage /\ s.seen = seen
  BY DEF Requests
<1>2. requests' = (requests \ {r}) \cup {s}
  BY DEF Advance
<1> HIDE DEF s
<1> QED BY <1>1, <1>2

LEMMA RequestType ==
  ASSUME NEW op \in {"create", "update", "put", "image", "previous", "file", "remove"},
         NEW by \in {"form", "list", "nobody"}, NEW name \in Names \cup {NoBlob},
         NEW status \in Statuses
  PROVE  /\ Request(op, by, name, status) \in Requests
         /\ LET s == Request(op, by, name, status)
            IN  /\ s.op = op /\ s.by = by /\ s.name = name /\ s.status = status
                /\ s.stage = "sent" /\ s.seen = NoRow
BY NameFacts DEF Request, Requests, NoRow, Rows

-----------------------------------------------------------------------------
(* The protocol of form and handlers: types, and which requests there are. *)

\* A request that is worked on, or that nobody waits for any more.
LEMMA RequestKept ==
  ASSUME NEW r, NEW s, RequestOK(r), s.op = r.op, s.name = r.name,
         s.by = r.by \/ (s.by = "nobody" /\ r.op \notin {"create", "put"}),
         UNCHANGED page, unwanted \subseteq unwanted'
  PROVE  RequestOK(s)'
BY DEF RequestOK

LEMMA WorkProtocol ==
  ASSUME ProtocolOK, NEW r \in requests,
         NEW stage \in {"sent", "read", "cleared", "done"}, NEW seen \in Rows,
         Advance(r, stage, seen),
         UNCHANGED <<page, form, named, unwanted, faults, late>>,
         row' \in Rows, assets' \in SUBSET Names, blobs' \in SUBSET Names
  PROVE  ProtocolOK'
<1>1. r \in Requests
  BY DEF ProtocolOK, TypeOK
<1>2. PICK s \in Requests : /\ s.op = r.op /\ s.by = r.by /\ s.name = r.name
                            /\ requests' = (requests \ {r}) \cup {s}
  BY <1>1, AdvanceType
<1>3. TypeOK'
  BY <1>2 DEF ProtocolOK, TypeOK
<1>4. PageOK' /\ FormOK'
  BY DEF ProtocolOK, PageOK, FormOK
<1>5. ASSUME NEW q \in requests' PROVE RequestOK(q)' /\ Awaited(q)'
  <2>1. PICK p \in requests : q.op = p.op /\ q.by = p.by /\ q.name = p.name
    BY <1>2, <1>5
  <2>2. RequestOK(p) /\ Awaited(p)
    BY DEF ProtocolOK
  <2>3. RequestOK(q)'
    BY <2>1, <2>2, RequestKept
  <2>4. Awaited(q)'
    BY <2>1, <2>2 DEF Awaited
  <2> QED BY <2>3, <2>4
<1>6. OneAtATime'
  BY <1>2 DEF ProtocolOK, OneAtATime
<1> QED BY <1>3, <1>4, <1>5, <1>6 DEF ProtocolOK

\* A request the form sends when it waits for none.
LEMMA SendProtocol ==
  ASSUME ProtocolOK, NEW s \in Requests, s.by = "form", Send(s),
         form.pc \in {"idle", "uploading", "put"},
         UNCHANGED <<page, store, unwanted, faults, late>>, named' \in [Items -> Nat],
         form' \in Forms, PageOK', FormOK', RequestOK(s)', Awaited(s)'
  PROVE  ProtocolOK'
<1>1. requests' = requests \cup {s}
  BY DEF Send
<1>2. TypeOK'
  BY <1>1 DEF ProtocolOK, TypeOK, store
<1>3. \A q \in requests : q.by # "form" /\ RequestOK(q) /\ q \in Requests
  <2> SUFFICES ASSUME NEW q \in requests PROVE q.by # "form" /\ RequestOK(q) /\ q \in Requests
    OBVIOUS
  <2>1. RequestOK(q) /\ Awaited(q) /\ q \in Requests
    BY DEF ProtocolOK, TypeOK
  <2>2. q.op \in {"create", "update", "put", "image", "previous", "file", "remove"}
    BY <2>1 DEF Requests
  <2>3. ASSUME q.by = "form" PROVE FALSE
    BY <2>1, <2>2, <2>3 DEF Awaited, RequestOK
  <2> QED BY <2>1, <2>3
<1>4. \A q \in requests : RequestOK(q)' /\ Awaited(q)'
  BY <1>3, RequestKept DEF Awaited
<1>5. OneAtATime'
  BY <1>1, <1>3 DEF OneAtATime
<1> QED BY <1>1, <1>2, <1>4, <1>5 DEF ProtocolOK

LEMMA FormStepProtocol ==
  ASSUME ProtocolOK, FormStep
  PROVE  ProtocolOK'
<1>t. /\ TypeOK /\ PageOK /\ FormOK /\ form \in Forms /\ page.editing \in BOOLEAN
      /\ named \in [Items -> Nat]
  BY DEF ProtocolOK, TypeOK
<1>f. /\ form.wanted \in Statuses /\ form.pending \subseteq Files
      /\ form.name \in Names \cup {NoBlob}
  BY <1>t DEF Forms
<1>1. CASE Submit
  <2> DEFINE op == IF form.saved THEN "update" ELSE "create"
  <2>1. PICK s \in Requests : s.op = op /\ s.by = "form" /\ Send(s)
    <3>1. Send(Request(op, "form", NoBlob, FirstStatus)) /\ FirstStatus \in Statuses
      BY <1>1, <1>f DEF Submit, FirstStatus, Statuses
    <3> QED BY <3>1, RequestType
  <2>2. form' = [form EXCEPT !.pc = "saving", !.pending = form.queue]
    BY <1>1 DEF Submit
  <2>3. form' \in Forms
    BY <1>t, <2>2 DEF Forms
  <2>4. FormOK' /\ PageOK'
    BY <1>1, <1>t, <2>2 DEF Submit, FormOK, PageOK, Forms
  <2>5. RequestOK(s)' /\ Awaited(s)'
    BY <1>t, <2>1, <2>2 DEF RequestOK, Awaited, Forms
  <2> QED BY <1>1, <1>t, <2>1, <2>2, <2>3, <2>4, <2>5, SendProtocol DEF Submit
<1>2. CASE PutNext
  <2>1. PICK i \in IF form.image THEN {"image"} ELSE form.pending :
          /\ named' = [named EXCEPT ![i] = @ + 1]
          /\ form' = [form EXCEPT !.pc = "putting", !.name = <<i, named[i] + 1>>]
          /\ Send(Request("put", "form", <<i, named[i] + 1>>, "draft"))
    BY <1>2 DEF PutNext
  <2>2. i \in Items /\ named[i] \in Nat
    BY <1>t, <1>f, <2>1 DEF Items
  <2> DEFINE name == <<i, named[i] + 1>>
  <2>3. name \in Names
    BY <2>2, NameFacts
  <2>4. name # page.imageUrl
    BY <1>t, <2>2 DEF PageOK, NoBlob
  <2>5. named' \in [Items -> Nat] /\ (named["image"] > 0 => named'["image"] > 0)
    BY <1>t, <2>1, <2>2 DEF Items
  <2> HIDE DEF name
  <2>6. PICK s \in Requests : s.op = "put" /\ s.by = "form" /\ s.name = name /\ Send(s)
    <3>1. Send(Request("put", "form", name, "draft"))
      BY <2>1 DEF name
    <3> QED BY <2>3, <3>1, RequestType DEF Statuses
  <2>7. form' = [form EXCEPT !.pc = "putting", !.name = name]
    BY <2>1 DEF name
  <2>8. form' \in Forms
    BY <1>t, <2>3, <2>7 DEF Forms
  <2>9. FormOK' /\ PageOK'
    BY <1>2, <1>t, <2>3, <2>4, <2>5, <2>7 DEF PutNext, FormOK, PageOK, Forms
  <2>10. RequestOK(s)' /\ Awaited(s)'
    BY <1>2, <1>t, <2>3, <2>4, <2>6, <2>7 DEF PutNext, RequestOK, Awaited, Forms
  <2> QED BY <1>2, <2>5, <2>6, <2>7, <2>8, <2>9, <2>10, SendProtocol DEF PutNext
<1>3. CASE ConfirmPut
  <2> DEFINE op == IF form.name[1] = "image" THEN "image" ELSE "file"
  <2>1. PICK s \in Requests : s.op = op /\ s.by = "form" /\ s.name = form.name /\ Send(s)
    <3>1. Send(Request(op, "form", form.name, "draft"))
      BY <1>3 DEF ConfirmPut
    <3> QED BY <1>f, <3>1, RequestType DEF Statuses
  <2>2. form' = [form EXCEPT !.pc = "confirming"]
    BY <1>3 DEF ConfirmPut, Step
  <2>3. form' \in Forms
    BY <1>t, <2>2 DEF Forms
  <2>4. form.name \in Names \ {page.imageUrl}
    BY <1>3, <1>t DEF ConfirmPut, FormOK
  <2>5. FormOK' /\ PageOK'
    BY <1>3, <1>t, <2>2, <2>4 DEF ConfirmPut, FormOK, PageOK, Forms
  <2>6. RequestOK(s)' /\ Awaited(s)'
    BY <1>3, <1>t, <2>1, <2>2, <2>4, NameFacts DEF ConfirmPut, RequestOK, Awaited, Forms
  <2> QED BY <1>3, <1>t, <2>1, <2>2, <2>3, <2>5, <2>6, SendProtocol DEF ConfirmPut
<1>4. CASE Publish
  <2>1. PICK s \in Requests : s.op = "update" /\ s.by = "form" /\ Send(s)
    BY <1>4, <1>f, RequestType DEF Publish
  <2>2. form' = [form EXCEPT !.pc = "publishing"]
    BY <1>4 DEF Publish, Step
  <2>3. form' \in Forms
    BY <1>t, <2>2 DEF Forms
  <2>4. FormOK' /\ PageOK' /\ form.saved
    BY <1>4, <1>t, <2>2 DEF Publish, Uploaded, FormOK, PageOK, Forms
  <2>5. RequestOK(s)' /\ Awaited(s)'
    BY <1>t, <2>1, <2>2, <2>4 DEF RequestOK, Awaited, Forms
  <2> QED BY <1>4, <1>t, <2>1, <2>2, <2>3, <2>4, <2>5, SendProtocol DEF Publish, Uploaded
<1>5. CASE Finish
  <2>1. form' = [form EXCEPT !.pc = "done"]
    BY <1>5 DEF Finish, Step
  <2>2. form' \in Forms /\ FormOK' /\ PageOK'
    BY <1>5, <1>t, <2>1 DEF Finish, Uploaded, FormOK, PageOK, Forms
  <2>3. TypeOK'
    BY <1>5, <1>t, <2>2 DEF Finish, TypeOK, store
  <2>4. \A q \in requests : RequestOK(q)' /\ Awaited(q)'
    BY <1>5 DEF Finish, Uploaded, ProtocolOK, RequestOK, Awaited, TypeOK, Requests
  <2> QED BY <1>5, <2>2, <2>3, <2>4 DEF Finish, ProtocolOK, OneAtATime
<1> QED BY <1>1, <1>2, <1>3, <1>4, <1>5 DEF FormStep

LEMMA SellerProtocol ==
  ASSUME ProtocolOK, Seller
  PROVE  ProtocolOK'
<1>t. TypeOK /\ PageOK /\ FormOK /\ form \in Forms
  BY DEF ProtocolOK, TypeOK
<1>1. CASE PickImage
  <2>1. form' = [form EXCEPT !.image = TRUE]
    BY <1>1 DEF PickImage
  <2>2. /\ form' \in Forms /\ FormOK' /\ PageOK'
        /\ form'.pc = form.pc /\ form'.saved = form.saved /\ form'.name = form.name
    BY <1>1, <1>t, <2>1 DEF PickImage, Forms, FormOK, PageOK
  <2>3. \A q \in requests : RequestOK(q)' /\ Awaited(q)'
    BY <1>1, <2>2 DEF PickImage, ProtocolOK, RequestOK, Awaited
  <2> QED BY <1>1, <1>t, <2>2, <2>3 DEF PickImage, ProtocolOK, TypeOK, OneAtATime, store
<1>2. CASE Unqueue
  <2>1. PICK f \in form.queue : /\ form' = [form EXCEPT !.queue = @ \ {f}]
                                /\ unwanted' = unwanted \cup {f}
    BY <1>2 DEF Unqueue
  <2>2. /\ form' \in Forms /\ FormOK' /\ PageOK' /\ f \in Files
        /\ form'.pc = form.pc /\ form'.saved = form.saved /\ form'.name = form.name
    BY <1>2, <1>t, <2>1 DEF Unqueue, Forms, FormOK, PageOK
  <2>3. \A q \in requests : RequestOK(q)' /\ Awaited(q)'
    BY <1>2, <2>1, <2>2 DEF Unqueue, ProtocolOK, RequestOK, Awaited
  <2> QED BY <1>2, <1>t, <2>1, <2>2, <2>3 DEF Unqueue, ProtocolOK, TypeOK, OneAtATime, store
<1>3. CASE RemoveExisting
  <2>1. PICK name \in form.existing : /\ Send(Request("remove", "list", name, "draft"))
                                      /\ unwanted' = unwanted \cup {name[1]}
    BY <1>3 DEF RemoveExisting
  <2>2. name \in FileNames /\ name[1] \in Files /\ name \in Names
    BY <1>t, <2>1, NameFacts DEF FormOK
  <2>3. PICK s \in Requests : s.op = "remove" /\ s.by = "list" /\ s.name = name /\ Send(s)
    BY <2>1, <2>2, RequestType DEF Statuses
  <2>4. RequestOK(s)' /\ Awaited(s)'
    BY <2>1, <2>2, <2>3 DEF RequestOK, Awaited
  <2>5. \A q \in requests : RequestOK(q)' /\ Awaited(q)'
    BY <1>3, <2>1 DEF RemoveExisting, ProtocolOK, RequestOK, Awaited
  <2>6. TypeOK' /\ PageOK' /\ FormOK'
    BY <1>3, <1>t, <2>1, <2>2, <2>3 DEF RemoveExisting, TypeOK, PageOK, FormOK, Send, store
  <2>7. OneAtATime'
    BY <2>3 DEF ProtocolOK, OneAtATime, Send
  <2> QED BY <2>3, <2>4, <2>5, <2>6, <2>7 DEF ProtocolOK, Send
<1> QED BY <1>1, <1>2, <1>3 DEF Seller

\* An answer, or a failure, of the request the form waits for; the answer to
\* anybody else leaves the form where it is.
LEMMA FormAnswered ==
  ASSUME ProtocolOK, NEW r \in requests, form' = Accepted(r) \/ form' = Refused(r),
         UNCHANGED page
  PROVE  /\ form' \in Forms /\ FormOK'
         /\ r.by # "form" => form'.pc = form.pc /\ form'.saved = form.saved /\ form'.name = form.name
<1>t. FormOK /\ form \in Forms /\ RequestOK(r) /\ Awaited(r) /\ r \in Requests
  BY DEF ProtocolOK, TypeOK
<1>0. form' \in Forms
  BY <1>t, FormType
<1>r. /\ r.op \in {"create", "update", "put", "image", "previous", "file", "remove"}
      /\ r.by \in {"form", "list", "nobody"}
  BY <1>t DEF Requests
<1>e. form.existing \subseteq FileNames
  BY <1>t DEF FormOK
<1>1. CASE r.by = "nobody"
  <2>1. form' = form
    BY <1>1 DEF Accepted, Refused
  <2> QED BY <1>0, <1>t, <2>1 DEF FormOK
<1>2. CASE r.by = "list"
  <2>1. form' = form \/ form' = [form EXCEPT !.existing = @ \ {r.name}]
    BY <1>2, <1>t DEF Accepted, Refused, RequestOK
  <2>2. /\ form'.pc = form.pc /\ form'.saved = form.saved /\ form'.name = form.name
        /\ form'.image = form.image /\ form'.existing \subseteq form.existing
    BY <1>t, <2>1 DEF Forms
  <2> QED BY <1>0, <1>t, <2>2 DEF FormOK
<1>3. CASE r.by = "form"
  <2>1. /\ r.op # "remove"
        /\ r.op = "create" => form.pc = "saving"
        /\ r.op # "create" => form.saved
    BY <1>3, <1>r, <1>t DEF RequestOK, Awaited, FormOK
  <2>2. CASE form' = [form EXCEPT !.pc = "idle", !.name = NoBlob]
    BY <1>0, <1>3, <1>t, <2>2 DEF FormOK, Forms
  <2>3. CASE form' = Accepted(r)
    <3>1. CASE r.op = "create"
      <4>1. form' = [form EXCEPT !.pc = "uploading", !.saved = TRUE]
        BY <1>3, <2>3, <3>1 DEF Accepted
      <4> QED BY <1>0, <1>3, <1>t, <4>1 DEF FormOK, Forms
    <3>2. CASE r.op = "update"
      <4>1. form' = [form EXCEPT !.pc = IF form.pc = "saving" THEN "uploading" ELSE "done"]
        BY <1>3, <2>3, <3>2 DEF Accepted
      <4> QED BY <1>0, <1>3, <1>t, <2>1, <3>2, <4>1 DEF FormOK, Forms
    <3>3. CASE r.op = "put"
      <4>1. form' = [form EXCEPT !.pc = "put"]
        BY <1>3, <2>3, <3>3 DEF Accepted
      <4>2. form.name \in Names \ {page.imageUrl}
        BY <1>3, <1>t, <3>3 DEF FormOK, Awaited
      <4> QED BY <1>0, <1>3, <1>t, <2>1, <3>3, <4>1, <4>2 DEF FormOK, Forms
    <3>4. CASE r.op = "file"
      <4>1. form' = [form EXCEPT !.pc = "uploading", !.existing = @ \cup {r.name},
                       !.name = NoBlob, !.queue = @ \ {r.name[1]}, !.pending = @ \ {r.name[1]}]
        BY <1>3, <2>3, <3>4 DEF Accepted
      <4>2. r.name \in FileNames
        BY <1>t, <3>4 DEF RequestOK
      <4> QED BY <1>0, <1>3, <1>t, <2>1, <3>4, <4>1, <4>2 DEF FormOK, Forms
    <3>5. CASE r.op \in {"image", "previous"}
      <4>1. \/ form' = [form EXCEPT !.pc = "clearing"]
            \/ form' = [form EXCEPT !.pc = "uploading", !.image = FALSE, !.name = NoBlob]
        BY <1>3, <2>3, <3>5 DEF Accepted
      <4> QED BY <1>0, <1>3, <1>t, <2>1, <3>5, <4>1 DEF FormOK, Forms
    <3> QED BY <1>r, <2>1, <3>1, <3>2, <3>3, <3>4, <3>5
  <2> QED BY <1>3, <2>2, <2>3 DEF Refused
<1> QED BY <1>r, <1>1, <1>2, <1>3

\* What is left of the requests then.
LEMMA OthersAnswered ==
  ASSUME ProtocolOK, NEW r \in requests, form' = Accepted(r) \/ form' = Refused(r),
         UNCHANGED <<page, unwanted>>, NEW q \in requests \ {r}
  PROVE  RequestOK(q)' /\ Awaited(q)' /\ (r.by = "form" => q.by # "form")
<1>1. RequestOK(q) /\ Awaited(q) /\ (r.by = "form" => q.by # "form")
  BY DEF ProtocolOK, OneAtATime
<1>2. RequestOK(q)'
  BY <1>1, RequestKept
<1>3. r.by # "form" => form'.pc = form.pc /\ form'.saved = form.saved /\ form'.name = form.name
  BY FormAnswered
<1>4. Awaited(q)'
  BY <1>1, <1>3 DEF Awaited
<1> QED BY <1>1, <1>2, <1>4

LEMMA EndProtocol ==
  ASSUME ProtocolOK, NEW r \in requests, form' = Accepted(r) \/ form' = Refused(r),
         requests' = requests \ {r}, UNCHANGED <<page, assets, blobs, named, unwanted, late>>,
         row' \in Rows, faults' \in 0..MaxFaults
  PROVE  ProtocolOK'
<1>1. TypeOK' /\ FormOK'
  BY FormAnswered DEF ProtocolOK, TypeOK
<1>2. PageOK' /\ OneAtATime'
  BY DEF ProtocolOK, PageOK, OneAtATime
<1>3. \A q \in requests' : RequestOK(q)' /\ Awaited(q)'
  BY OthersAnswered
<1> QED BY <1>1, <1>2, <1>3 DEF ProtocolOK

LEMMA AnswerProtocol ==
  ASSUME ProtocolOK, NEW r \in requests, Answer(r)
  PROVE  ProtocolOK'
<1>t. r \in Requests /\ form \in Forms
  BY DEF ProtocolOK, TypeOK
<1>1. CASE ~Clears(r)
  BY <1>1, EndProtocol DEF Answer, store, ProtocolOK, TypeOK
<1>2. CASE Clears(r)
  <2>1. r.by = "form" /\ r.op = "image" /\ page.imageUrl # NoBlob
    BY <1>2 DEF Clears
  <2>2. page.imageUrl \in Names
    <3>1. page.imageUrl = <<"image", 0 + 1>>
      BY <2>1 DEF ProtocolOK, PageOK
    <3> QED BY <3>1, NameFacts DEF Items
  <2>3. PICK s \in Requests : /\ s.op = "previous" /\ s.by = "form" /\ s.name = page.imageUrl
                              /\ requests' = (requests \ {r}) \cup {s}
    <3>1. requests' = (requests \ {r}) \cup {Request("previous", "form", page.imageUrl, "draft")}
      BY <1>2 DEF Answer
    <3> QED BY <2>2, <3>1, RequestType DEF Statuses
  <2>4. form' = [form EXCEPT !.pc = "clearing"]
    BY <1>2, <2>1 DEF Answer, Accepted
  <2>5. TypeOK' /\ FormOK'
    BY <1>2, <2>3, FormAnswered DEF Answer, ProtocolOK, TypeOK, store
  <2>6. PageOK'
    BY <1>2 DEF Answer, ProtocolOK, PageOK
  <2>7. \A q \in requests \ {r} : RequestOK(q)' /\ Awaited(q)' /\ q.by # "form"
    BY <1>2, <2>1, OthersAnswered DEF Answer
  <2>8. RequestOK(s)' /\ Awaited(s)'
    BY <1>2, <1>t, <2>1, <2>3, <2>4 DEF Answer, RequestOK, Awaited, Forms
  <2>9. OneAtATime'
    BY <2>3, <2>7 DEF OneAtATime
  <2> QED BY <2>3, <2>5, <2>6, <2>7, <2>8, <2>9 DEF ProtocolOK
<1> QED BY <1>1, <1>2

LEMMA TimeOutProtocol ==
  ASSUME ProtocolOK, NEW r \in requests, TimeOut(r)
  PROVE  ProtocolOK'
<1>t. r \in Requests /\ RequestOK(r) /\ faults \in 0..MaxFaults
  BY DEF ProtocolOK, TypeOK
<1>1. PICK s \in Requests : /\ s.op = r.op /\ s.name = r.name /\ s.by = "nobody"
                            /\ requests' = (requests \ {r}) \cup {s}
  <2> DEFINE s == [r EXCEPT !.by = "nobody"]
  <2>1. s \in Requests /\ s.op = r.op /\ s.name = r.name /\ s.by = "nobody"
    BY <1>t DEF Requests
  <2>2. requests' = (requests \ {r}) \cup {s}
    BY DEF TimeOut
  <2> HIDE DEF s
  <2> QED BY <2>1, <2>2
<1>2. faults' \in 0..MaxFaults
  BY <1>t, ListingAssumption DEF TimeOut
<1>3. TypeOK' /\ FormOK'
  BY <1>1, <1>2, FormAnswered DEF TimeOut, ProtocolOK, TypeOK, store
<1>4. PageOK' /\ OneAtATime'
  BY <1>1 DEF TimeOut, ProtocolOK, PageOK, OneAtATime
<1>5. \A q \in requests \ {r} : RequestOK(q)' /\ Awaited(q)'
  BY OthersAnswered DEF TimeOut
<1>6. RequestOK(s)' /\ Awaited(s)'
  BY <1>1, <1>t, RequestKept DEF TimeOut, Awaited
<1> QED BY <1>1, <1>3, <1>4, <1>5, <1>6 DEF ProtocolOK

LEMMA HandlerProtocol ==
  ASSUME ProtocolOK, NEW r \in requests, Handler(r)
  PROVE  ProtocolOK'
<1>t. /\ r \in Requests /\ RequestOK(r) /\ row \in Rows /\ r.seen \in Rows
      /\ r.status \in Statuses
      /\ assets \in SUBSET Names /\ blobs \in SUBSET Names
  BY DEF ProtocolOK, TypeOK, Requests
<1>1. CASE ReadRow(r)
  BY <1>1, <1>t, WorkProtocol DEF ReadRow, store
<1>2. CASE CreateProduct(r)
  <2>1. row' \in Rows
    BY <1>2, <1>t, NameFacts DEF CreateProduct, Rows
  <2> QED BY <1>2, <2>1, EndProtocol DEF CreateProduct, ProtocolOK, TypeOK
<1>3. CASE PutBlob(r)
  BY <1>3, <1>t, WorkProtocol DEF PutBlob, Done, RequestOK
<1>4. CASE SaveRow(r)
  <2>1. row' \in Rows
    BY <1>4, <1>t, NameFacts DEF SaveRow, SavedRow, RequestOK, Rows
  <2> QED BY <1>4, <1>t, <2>1, WorkProtocol DEF SaveRow, Done
<1>5. CASE ConfirmAsset(r)
  BY <1>5, <1>t, WorkProtocol, NameFacts DEF ConfirmAsset, Done, RequestOK
<1>6. CASE DeleteBlob(r)
  BY <1>6, <1>t, WorkProtocol DEF DeleteBlob
<1>7. CASE DeleteRow(r)
  <2>1. row' \in Rows /\ assets' \in SUBSET Names
    BY <1>7, <1>t, NameFacts DEF DeleteRow, Rows
  <2> QED BY <1>7, <1>t, <2>1, WorkProtocol DEF DeleteRow, Done
<1>8. CASE Answer(r)
  BY <1>8, AnswerProtocol
<1> QED BY <1>1, <1>2, <1>3, <1>4, <1>5, <1>6, <1>7, <1>8 DEF Handler

LEMMA InitProtocol == Init => ProtocolOK
<1> SUFFICES ASSUME Init PROVE ProtocolOK
  OBVIOUS
<1>i. <<"image", 1>> \in Names /\ <<"image", 1>> \in Images /\ NoBlob \in Images
  BY DEF Names, Items, Images
<1>1. /\ page \in [editing : BOOLEAN, imageUrl : Images]
      /\ page.imageUrl \in {NoBlob, <<"image", 1>>}
      /\ page.imageUrl # NoBlob => page.editing
      /\ ~page.editing => page.imageUrl = NoBlob
  <2>1. CASE page = [editing |-> FALSE, imageUrl |-> NoBlob]
    BY <1>i, <2>1
  <2>2. CASE page = [editing |-> TRUE, imageUrl |-> <<"image", 1>>]
    BY <1>i, <2>2
  <2> QED BY <2>1, <2>2 DEF Init
<1>2. row \in Rows
  <2>1. NoRow \in Rows
    BY <1>i DEF Rows, NoRow
  <2>2. \A status \in Statuses : [status |-> status, image |-> <<"image", 1>>] \in Rows
    BY <1>i DEF Rows, Statuses
  <2> QED BY <2>1, <2>2 DEF Init
<1>3. PICK wanted \in Statuses, saved \in BOOLEAN, image \in BOOLEAN :
        form = FormOf(wanted, saved, image, Files) /\ (~saved => image)
  BY DEF Init
<1>4. /\ form \in Forms /\ form.existing = {} /\ form.pc = "idle"
      /\ ~form.saved => form.image
  BY <1>3 DEF FormOf, Forms
<1>5. FormOK
  BY <1>4 DEF FormOK
<1>6. named \in [Items -> Nat] /\ (page.editing => named["image"] > 0)
  BY DEF Init, Items
<1>7. TypeOK
  <2>1. blobs \in SUBSET Names
    BY <1>i, <1>1 DEF Init
  <2>2. 0 \in 0..MaxFaults
    BY ListingAssumption
  <2> QED BY <1>1, <1>2, <1>4, <1>6, <2>1, <2>2 DEF Init, TypeOK
<1>8. PageOK
  BY <1>1, <1>6 DEF PageOK
<1> QED BY <1>5, <1>7, <1>8 DEF Init, ProtocolOK, OneAtATime

LEMMA StepProtocol == ProtocolOK /\ [Next]_vars => ProtocolOK'
<1> SUFFICES ASSUME ProtocolOK, [Next]_vars PROVE ProtocolOK'
  OBVIOUS
<1>1. ASSUME NEW r \in requests, Fail(r) PROVE ProtocolOK'
  <2>1. row' \in Rows /\ faults' \in 0..MaxFaults
    BY <1>1, ListingAssumption DEF Fail, store, ProtocolOK, TypeOK
  <2> QED BY <1>1, <2>1, EndProtocol DEF Fail, store
<1>2. CASE UNCHANGED vars
  BY <1>2 DEF vars, store, ProtocolOK, TypeOK, PageOK, FormOK, RequestOK, Awaited, OneAtATime
<1> QED BY <1>1, <1>2, FormStepProtocol, SellerProtocol, HandlerProtocol, TimeOutProtocol DEF Next

LEMMA ProtocolCorrect == Spec => []ProtocolOK
BY InitProtocol, StepProtocol, PTL DEF Spec

(* The page, the form, the requests and what media-api stores keep their   *)
(* types, for any set of files and any number of faults.                   *)
THEOREM TypeCorrect == Spec => []TypeOK
<1>1. ProtocolOK => TypeOK
  BY DEF ProtocolOK
<1> QED BY <1>1, ProtocolCorrect, PTL

-----------------------------------------------------------------------------
(* Where a request of the next state comes from. *)
Sent(q) ==
  /\ q.stage = "sent" /\ q.seen = NoRow
  /\ \/ Submit /\ q.by = "form" /\ q.op \in {"create", "update"} /\ q.status = FirstStatus
     \/ PutNext /\ q.by = "form" /\ q.op = "put"
     \/ ConfirmPut /\ q.by = "form" /\ q.op \in {"image", "file"} /\ q.name = form.name
     \/ Publish /\ q.by = "form" /\ q.op = "update"
     \/ RemoveExisting /\ q.by = "list" /\ q.op = "remove"
     \/ /\ \E r \in requests : Answer(r) /\ r.by = "form" /\ r.op = "image"
        /\ q.by = "form" /\ q.op = "previous"

Worked(r, q) ==
  /\ q.op = r.op /\ q.by = r.by /\ q.name = r.name /\ q.status = r.status
  /\ \/ ReadRow(r) /\ q.stage = "read" /\ q.seen = row
     \/ DeleteBlob(r) /\ q.stage = "cleared" /\ q.seen = r.seen
     \/ /\ PutBlob(r) \/ SaveRow(r) \/ ConfirmAsset(r) \/ DeleteRow(r)
        /\ q.stage = "done" /\ q.seen = r.seen

LeftAlone(r, q) ==
  /\ TimeOut(r)
  /\ q.by = "nobody" /\ q.op = r.op /\ q.name = r.name /\ q.status = r.status
  /\ q.stage = r.stage /\ q.seen = r.seen

LEMMA WhereFrom ==
  ASSUME ProtocolOK, Next, NEW q \in requests'
  PROVE  \/ q \in requests
         \/ Sent(q)
         \/ \E r \in requests : Worked(r, q) \/ LeftAlone(r, q)
<1>t. /\ \A r \in requests : r \in Requests /\ r.seen \in Rows
      /\ form.wanted \in Statuses /\ form.name \in Names \cup {NoBlob} /\ row \in Rows
      /\ form.existing \subseteq Names
      /\ \A i \in IF form.image THEN {"image"} ELSE form.pending : <<i, named[i] + 1>> \in Names
  <2>1. \A r \in requests : r \in Requests /\ r.seen \in Rows
    BY DEF ProtocolOK, TypeOK, Requests
  <2>2. /\ form.wanted \in Statuses /\ form.name \in Names \cup {NoBlob} /\ row \in Rows
        /\ form.existing \subseteq Names /\ form.pending \subseteq Files
        /\ named \in [Items -> Nat]
    BY DEF ProtocolOK, TypeOK, Forms
  <2>3. \A i \in IF form.image THEN {"image"} ELSE form.pending : i \in Items /\ named[i] \in Nat
    BY <2>2 DEF Items
  <2> QED BY <2>1, <2>2, <2>3, NameFacts
<1>1. ASSUME NEW op \in {"create", "update", "put", "image", "previous", "file", "remove"},
             NEW by \in {"form", "list", "nobody"}, NEW name \in Names \cup {NoBlob},
             NEW status \in Statuses, q = Request(op, by, name, status)
      PROVE  /\ q.op = op /\ q.by = by /\ q.name = name /\ q.status = status
             /\ q.stage = "sent" /\ q.seen = NoRow
  BY <1>1, RequestType
<1>2. CASE Submit
  <2>1. \/ q \in requests
        \/ q = Request(IF form.saved THEN "update" ELSE "create", "form", NoBlob, FirstStatus)
    BY <1>2 DEF Submit, Send
  <2>2. FirstStatus \in Statuses
    BY <1>t DEF FirstStatus, Statuses
  <2> QED BY <1>1, <1>2, <2>1, <2>2 DEF Sent
<1>3. CASE PutNext
  <2>1. PICK i \in IF form.image THEN {"image"} ELSE form.pending :
          q \in requests \/ q = Request("put", "form", <<i, named[i] + 1>>, "draft")
    BY <1>3 DEF PutNext, Send
  <2>2. <<i, named[i] + 1>> \in Names
    BY <1>t
  <2> QED BY <1>1, <1>3, <2>1, <2>2 DEF Sent, Statuses
<1>4. CASE ConfirmPut
  <2>1. \/ q \in requests
        \/ q = Request(IF form.name[1] = "image" THEN "image" ELSE "file", "form",
                       form.name, "draft")
    BY <1>4 DEF ConfirmPut, Send
  <2> QED BY <1>1, <1>4, <1>t, <2>1 DEF Sent, Statuses
<1>5. CASE Publish
  <2>1. q \in requests \/ q = Request("update", "form", NoBlob, form.wanted)
    BY <1>5 DEF Publish, Send
  <2> QED BY <1>1, <1>5, <1>t, <2>1 DEF Sent
<1>6. CASE RemoveExisting
  <2>1. PICK name \in form.existing :
          q \in requests \/ q = Request("remove", "list", name, "draft")
    BY <1>6 DEF RemoveExisting, Send
  <2> QED BY <1>1, <1>6, <1>t, <2>1 DEF Sent, Statuses
<1>7. CASE Finish \/ PickImage \/ Unqueue
  BY <1>7 DEF Finish, PickImage, Unqueue
<1>8. ASSUME NEW r \in requests, NEW stage \in {"sent", "read", "cleared", "done"},
             NEW seen \in Rows, Advance(r, stage, seen), q \notin requests
      PROVE  /\ q.op = r.op /\ q.by = r.by /\ q.name = r.name /\ q.status = r.status
             /\ q.stage = stage /\ q.seen = seen
  BY <1>8, <1>t, AdvanceType
<1>9. ASSUME NEW r \in requests, ReadRow(r) PROVE q \in requests \/ Worked(r, q)
  BY <1>8, <1>9, <1>t DEF ReadRow, Worked
<1>10. ASSUME NEW r \in requests, DeleteBlob(r) PROVE q \in requests \/ Worked(r, q)
  BY <1>8, <1>10, <1>t DEF DeleteBlob, Worked
<1>11. ASSUME NEW r \in requests, PutBlob(r) \/ SaveRow(r) \/ ConfirmAsset(r) \/ DeleteRow(r)
       PROVE  q \in requests \/ Worked(r, q)
  <2>1. Advance(r, "done", r.seen)
    BY <1>11 DEF PutBlob, SaveRow, ConfirmAsset, DeleteRow, Done
  <2> QED BY <1>8, <1>11, <1>t, <2>1 DEF Worked
<1>12. ASSUME NEW r \in requests, Answer(r) PROVE q \in requests \/ Sent(q)
  <2>1. \/ q \in requests
        \/ Clears(r) /\ q = Request("previous", "form", page.imageUrl, "draft")
    BY <1>12 DEF Answer
  <2>2. Clears(r) => page.imageUrl = <<"image", 0 + 1>>
    BY DEF Clears, ProtocolOK, PageOK
  <2>3. Clears(r) => page.imageUrl \in Names
    BY <2>2, NameFacts DEF Items
  <2> QED BY <1>1, <1>12, <2>1, <2>3 DEF Sent, Clears, Statuses
<1>13. ASSUME NEW r \in requests, TimeOut(r) PROVE q \in requests \/ LeftAlone(r, q)
  <2>1. q \in requests \/ q = [r EXCEPT !.by = "nobody"]
    BY <1>13 DEF TimeOut
  <2> QED BY <1>13, <1>t, <2>1 DEF LeftAlone, Requests
<1>14. ASSUME NEW r \in requests, CreateProduct(r) \/ Fail(r) PROVE q \in requests
  BY <1>14 DEF CreateProduct, Fail
<1> QED BY <1>2, <1>3, <1>4, <1>5, <1>6, <1>7, <1>9, <1>10, <1>11, <1>12, <1>13, <1>14
        DEF Next, FormStep, Seller, Handler

-----------------------------------------------------------------------------
(* What is stored stays: only a file the seller has taken back, or the     *)
(* image the form was opened with, is ever deleted.                        *)
LEMMA StoreKept ==
  ASSUME ProtocolOK, Next
  PROVE  /\ unwanted \subseteq unwanted'
         /\ page' = page
         /\ \A name \in Names \ {page.imageUrl} : Stored(name) => Stored(name)'
         /\ \A name \in assets : name \in assets' \/ name[1] \in unwanted'
<1>1. /\ unwanted \subseteq unwanted' /\ page' = page
      /\ blobs \subseteq blobs' \/ \E r \in requests : DeleteBlob(r)
      /\ assets \subseteq assets' \/ \E r \in requests : DeleteRow(r)
  BY DEF Next, FormStep, Seller, Handler, Submit, PutNext, ConfirmPut, Publish, Finish, PickImage,
     Unqueue, RemoveExisting, ReadRow, CreateProduct, PutBlob, SaveRow, ConfirmAsset,
     DeleteBlob, DeleteRow, Answer, Fail, TimeOut, store
<1>2. ASSUME NEW r \in requests, DeleteBlob(r), NEW name \in Names \ {page.imageUrl}, Stored(name)
      PROVE  Stored(name)'
  <2>1. r.name = page.imageUrl \/ r.name[1] \in unwanted
    BY <1>2 DEF DeleteBlob, ReadyToDelete, ProtocolOK, RequestOK
  <2> QED BY <1>2, <2>1 DEF DeleteBlob, Stored
<1>3. ASSUME NEW r \in requests, DeleteRow(r), NEW name \in assets
      PROVE  name \in assets' \/ name[1] \in unwanted'
  <2>1. r.op = "remove" => r.name[1] \in unwanted
    BY DEF ProtocolOK, RequestOK
  <2> QED BY <1>3, <2>1 DEF DeleteRow
<1>4. \A name : Stored(name) /\ blobs \subseteq blobs' => Stored(name)'
  BY <1>1 DEF Stored
<1> QED BY <1>1, <1>2, <1>3, <1>4

LEMMA WholeKept ==
  ASSUME ProtocolOK, UploadsStored, Next
  PROVE  /\ \A f \in Files \ unwanted' : Listed(f) => Listed(f)'
         /\ Whole => Whole'
<1>1. ASSUME NEW f \in Files \ unwanted', Listed(f) PROVE Listed(f)'
  <2>1. PICK name \in assets \cap blobs : name[1] = f
    BY <1>1 DEF Listed
  <2>2. name \in FileNames /\ name \in Names
    BY <2>1, NameFacts DEF UploadsStored
  <2>3. name # page.imageUrl
    BY <2>2, NameFacts DEF ProtocolOK, TypeOK
  <2>4. Stored(name)' /\ name \in assets'
    BY <1>1, <2>1, <2>2, <2>3, StoreKept DEF Stored
  <2> QED BY <1>1, <2>1, <2>4 DEF Stored, Listed
<1>2. unwanted \subseteq unwanted'
  BY StoreKept
<1> QED BY <1>1, <1>2 DEF Whole

-----------------------------------------------------------------------------
LEMMA StepStored ==
  ASSUME ProtocolOK, UploadsStored, Next
  PROVE  UploadsStored'
<1>t. /\ form \in Forms
      /\ \A r \in requests : RequestOK(r) /\ Awaited(r) /\ RequestStored(r)
      /\ page' = page
  BY StoreKept DEF ProtocolOK, TypeOK, UploadsStored
<1>k. \A name \in Names \ {page.imageUrl} : Stored(name) => Stored(name)'
  BY StoreKept
<1>f. \A name \in FileNames : name \in Names \ {page.imageUrl}
  BY NameFacts DEF ProtocolOK, TypeOK
<1>1. ASSUME NEW name \in assets' PROVE name \in FileNames /\ Stored(name)'
  <2>1. CASE name \in assets
    BY <1>f, <1>k, <2>1 DEF UploadsStored, FilesHaveBlobs, Stored
  <2>2. ASSUME NEW r \in requests, ConfirmAsset(r), name = r.name
        PROVE  name \in FileNames /\ Stored(name)'
    <3>1. name \in FileNames /\ Stored(name)
      BY <1>t, <2>2 DEF ConfirmAsset, RequestOK, RequestStored
    <3> QED BY <1>f, <1>k, <3>1
  <2>3. assets' \subseteq assets \/ \E r \in requests : ConfirmAsset(r)
    BY DEF Next, FormStep, Seller, Handler, Submit, PutNext, ConfirmPut, Publish, Finish,
       PickImage, Unqueue, RemoveExisting, ReadRow, CreateProduct, PutBlob, SaveRow, DeleteBlob,
       DeleteRow, Answer, Fail, TimeOut, store
  <2> QED BY <1>1, <2>1, <2>2, <2>3 DEF ConfirmAsset
<1>2. ASSUME form'.pc = "put" PROVE Stored(form.name)'
  <2>1. CASE form.pc = "put" /\ form'.name = form.name
    <3>1. form.name \in Names \ {page.imageUrl} /\ Stored(form.name)
      BY <2>1 DEF ProtocolOK, FormOK, UploadsStored
    <3> QED BY <1>k, <2>1, <3>1
  <2>2. ASSUME NEW r \in requests, Answer(r), r.by = "form", r.op = "put"
        PROVE  Stored(form.name)'
    <3>1. form' = [form EXCEPT !.pc = "put"] /\ r.stage = "done"
      BY <2>2 DEF Answer, Accepted
    <3>2. form.name = r.name /\ r.name \in Names \ {page.imageUrl} /\ Stored(r.name)
      BY <1>t, <2>2, <3>1 DEF RequestOK, Awaited, RequestStored
    <3>3. form'.name = form.name
      BY <1>t, <3>1 DEF Forms
    <3> QED BY <1>k, <3>2, <3>3
  <2>3. ASSUME NEW r \in requests, r.by = "form", form' = Accepted(r), r.op # "put", r.op # "remove"
        PROVE  form'.pc # "put"
    <3>1. r.op \in {"create", "update", "image", "previous", "file"}
      BY <2>3 DEF ProtocolOK, TypeOK, Requests
    <3> QED BY <1>t, <2>3, <3>1 DEF Accepted, Forms
  <2>4. ASSUME NEW r \in requests, r.by # "form", form' = Accepted(r) \/ form' = Refused(r)
        PROVE  form'.pc = form.pc /\ form'.name = form.name
    BY <1>t, <2>4, FormAnswered
  <2>5. ASSUME NEW r \in requests, r.by = "form", form' = Refused(r) PROVE form'.pc # "put"
    <3>1. \/ form' = [form EXCEPT !.pc = "idle", !.name = NoBlob]
          \/ r.op = "previous" /\ form' = Accepted(r)
      BY <2>5 DEF Refused
    <3> QED BY <1>t, <2>3, <2>5, <3>1 DEF Forms
  <2>6. \A r \in requests : r.by = "form" => r.op # "remove"
    BY <1>t DEF RequestOK
  <2>7. ASSUME NEW r \in requests, Handler(r) \/ Fail(r) \/ TimeOut(r) PROVE Stored(form.name)'
    <3>1. \/ form' = form
          \/ Answer(r) /\ form' = Accepted(r)
          \/ r.op = "create" /\ form' = Accepted(r)
          \/ form' = Refused(r)
      BY <2>7 DEF Handler, ReadRow, CreateProduct, PutBlob, SaveRow, ConfirmAsset, DeleteBlob,
         DeleteRow, Answer, Fail, TimeOut
    <3> QED BY <1>2, <2>1, <2>2, <2>3, <2>4, <2>5, <2>6, <3>1
  <2>8. CASE FormStep
    BY <1>2, <1>t, <2>8 DEF FormStep, Submit, PutNext, ConfirmPut, Publish, Finish, Step, Forms
  <2>9. CASE Seller
    <3>1. form'.pc = form.pc /\ form'.name = form.name
      BY <1>t, <2>9 DEF Seller, PickImage, Unqueue, RemoveExisting, Forms
    <3> QED BY <1>2, <2>1, <3>1
  <2> QED BY <2>7, <2>8, <2>9 DEF Next
<1>3. ASSUME NEW q \in requests' PROVE RequestStored(q)'
  <2>0. ASSUME NEW r \in requests, q.op = r.op, q.name = r.name,
               q.stage = r.stage \/ q.stage \in {"sent", "read"}
        PROVE  RequestStored(q)'
    <3>1. RequestOK(r) /\ RequestStored(r)
      BY <1>t
    <3>2. CASE q.op \in {"image", "file", "put"}
      <4>1. q.name \in Names \ {page.imageUrl}
        BY <2>0, <3>1, <3>2, NameFacts DEF RequestOK
      <4> QED BY <1>k, <2>0, <3>1, <4>1, StoreKept DEF RequestStored
    <3>3. CASE q.op \notin {"image", "file", "put"}
      BY <2>0, <3>1, <3>3 DEF RequestStored
    <3> QED BY <3>2, <3>3
  <2>1. CASE q \in requests
    BY <2>0, <2>1
  <2>2. CASE Sent(q)
    <3>1. q.op \in {"image", "file"} => Stored(q.name)'
      <4>1. q.op \in {"image", "file"} => form.pc = "put" /\ q.name = form.name
        BY <2>2 DEF Sent, ConfirmPut
      <4>2. form.pc = "put" => form.name \in Names \ {page.imageUrl} /\ Stored(form.name)
        BY DEF ProtocolOK, FormOK, UploadsStored
      <4> QED BY <1>k, <4>1, <4>2
    <3> QED BY <2>2, <3>1 DEF Sent, RequestStored
  <2>3. ASSUME NEW r \in requests, LeftAlone(r, q) PROVE RequestStored(q)'
    BY <2>0, <2>3 DEF LeftAlone
  <2>4. ASSUME NEW r \in requests, Worked(r, q) PROVE RequestStored(q)'
    <3>1. CASE ReadRow(r) /\ q.stage = "read"
      BY <2>0, <2>4, <3>1 DEF Worked
    <3>6. CASE DeleteBlob(r) /\ q.stage = "cleared"
      BY <2>4, <3>6 DEF Worked, DeleteBlob, ReadyToDelete, RequestStored
    <3>2. CASE PutBlob(r) /\ q.stage = "done"
      BY <2>4, <3>2 DEF Worked, PutBlob, RequestStored, Stored
    <3>3. CASE ConfirmAsset(r) /\ q.stage = "done"
      <4>1. r.op = "file" /\ r.name \in assets'
        BY <3>3 DEF ConfirmAsset
      <4>2. Stored(r.name) /\ r.name \in Names \ {page.imageUrl}
        BY <1>f, <1>t, <4>1 DEF RequestOK, RequestStored
      <4> QED BY <1>k, <2>4, <3>3, <4>1, <4>2 DEF Worked, RequestStored
    <3>4. CASE SaveRow(r) /\ q.stage = "done"
      <4>1. q.op = r.op /\ q.name = r.name /\ r.op \in {"update", "image"}
        BY <2>4, <3>4 DEF Worked, SaveRow
      <4>2. r.op = "image" => Stored(r.name) /\ r.name \in Names \ {page.imageUrl}
        BY <1>t, NameFacts DEF RequestOK, RequestStored
      <4> QED BY <1>k, <3>4, <4>1, <4>2 DEF RequestStored
    <3>5. CASE DeleteRow(r)
      <4>1. q.op = r.op /\ r.op \in {"previous", "remove"}
        BY <1>t, <2>4, <3>5 DEF Worked, DeleteRow, RequestStored
      <4> QED BY <4>1 DEF RequestStored
    <3> QED BY <2>4, <3>1, <3>2, <3>3, <3>4, <3>5, <3>6 DEF Worked
  <2> QED BY <2>1, <2>2, <2>3, <2>4, WhereFrom
<1> QED BY <1>1, <1>2, <1>3 DEF UploadsStored, FilesHaveBlobs, Stored

LEMMA UploadsKept == Spec => []UploadsStored
<1>1. Init => UploadsStored
  <2> SUFFICES ASSUME Init PROVE UploadsStored
    OBVIOUS
  <2>1. form.pc # "put"
    BY DEF Init, FormOf
  <2> QED BY <2>1 DEF Init, UploadsStored, FilesHaveBlobs
<1>2. ProtocolOK /\ UploadsStored /\ [Next]_vars => UploadsStored'
  <2>1. UploadsStored /\ UNCHANGED vars => UploadsStored'
    BY DEF vars, store, UploadsStored, FilesHaveBlobs, RequestStored, Stored
  <2> QED BY <2>1, StepStored
<1> QED BY <1>1, <1>2, ProtocolCorrect, PTL DEF Spec

(* For every set of files and any number of faults, an asset names a blob  *)
(* that is there, or a file the seller has taken back.                     *)
THEOREM ListedHasBlob == Spec => []FilesHaveBlobs
<1>1. UploadsStored => FilesHaveBlobs
  BY DEF UploadsStored
<1> QED BY <1>1, UploadsKept, PTL

-----------------------------------------------------------------------------
(* No file is forgotten on the way: it waits in the queue, is listed, or   *)
(* has been taken back.                                                    *)
\* A step that leaves the queue, what is pending of it, and the state of the form.
QueueKept ==
  /\ form'.queue = form.queue
  /\ form'.pending = form.pending
  /\ form'.pc = form.pc \/ form'.pc \in {"idle", "done"} \/ form.pc \notin {"idle", "done"}

FileListed(r) ==
  /\ r.op = "file" /\ r.stage = "done"
  /\ form' = [form EXCEPT !.pc = "uploading", !.existing = @ \cup {r.name}, !.name = NoBlob,
                !.queue = @ \ {r.name[1]}, !.pending = @ \ {r.name[1]}]

LEMMA QueueChange ==
  ASSUME ProtocolOK, Next
  PROVE  \/ QueueKept
         \/ Submit
         \/ Unqueue
         \/ \E r \in requests : r.by = "form" /\ FileListed(r)
<1>t. form \in Forms /\ \A r \in requests : RequestOK(r) /\ Awaited(r) /\ r \in Requests
  BY DEF ProtocolOK, TypeOK
<1>1. CASE FormStep
  BY <1>t, <1>1 DEF FormStep, PutNext, ConfirmPut, Publish, Finish, Uploaded, Step, QueueKept, Forms
<1>2. CASE Seller
  BY <1>t, <1>2 DEF Seller, PickImage, RemoveExisting, QueueKept, Forms
<1>3. ASSUME UNCHANGED form PROVE QueueKept
  BY <1>3 DEF QueueKept
<1>4. ASSUME NEW r \in requests, form' = Accepted(r) \/ form' = Refused(r), r.by # "form"
      PROVE  QueueKept
  <2>1. \/ form' = form
        \/ form' = [form EXCEPT !.existing = @ \ {r.name}]
    BY <1>4, <1>t DEF Accepted, Refused, RequestOK, Requests
  <2> QED BY <1>t, <2>1 DEF QueueKept, Forms
<1>5. ASSUME NEW r \in requests, form' = Refused(r), r.by = "form", r.op # "previous"
      PROVE  QueueKept
  <2>1. form' = [form EXCEPT !.pc = "idle", !.name = NoBlob]
    BY <1>5 DEF Refused
  <2> QED BY <1>t, <2>1 DEF QueueKept, Forms
<1>6. ASSUME NEW r \in requests, form' = Accepted(r), r.by = "form", r.op # "file"
      PROVE  QueueKept
  <2>1. /\ r.op \in {"create", "update", "put", "image", "previous"}
        /\ form.pc \notin {"idle", "done"}
    BY <1>t, <1>6 DEF Requests, RequestOK, Awaited
  <2>2. form'.queue = form.queue /\ form'.pending = form.pending
    BY <1>t, <1>6, <2>1 DEF Accepted, Forms
  <2> QED BY <2>1, <2>2 DEF QueueKept
<1>7. ASSUME NEW r \in requests, Answer(r), r.by = "form", r.op = "file"
      PROVE  FileListed(r)
  BY <1>7 DEF Answer, Accepted, FileListed
<1>8. ASSUME NEW r \in requests, Handler(r) \/ Fail(r) \/ TimeOut(r)
      PROVE  QueueKept \/ (r.by = "form" /\ FileListed(r))
  <2>1. \/ UNCHANGED form
        \/ Answer(r) /\ form' = Accepted(r)
        \/ r.op = "create" /\ form' = Accepted(r)
        \/ form' = Refused(r)
    BY <1>8 DEF Handler, ReadRow, CreateProduct, PutBlob, SaveRow, ConfirmAsset, DeleteBlob,
       DeleteRow, Answer, Fail, TimeOut
  <2>2. form' = Refused(r) /\ r.by = "form" /\ r.op = "previous" => form' = Accepted(r)
    BY DEF Refused
  <2>3. CASE r.by # "form"
    BY <1>3, <1>4, <2>1, <2>3
  <2>4. CASE r.by = "form" /\ form' = Refused(r)
    BY <1>5, <1>6, <2>2, <2>4
  <2>5. CASE r.by = "form" /\ form' = Accepted(r) /\ (r.op = "file" => Answer(r))
    BY <1>6, <1>7, <2>5
  <2>6. r.op = "create" => r.op # "file"
    OBVIOUS
  <2> QED BY <1>3, <2>1, <2>3, <2>4, <2>5, <2>6
<1> QED BY <1>1, <1>2, <1>8 DEF Next, FormStep

LEMMA StepForgetsNothing ==
  ASSUME ProtocolOK, UploadsStored, NothingForgotten, Next
  PROVE  NothingForgotten'
<1>t. form \in Forms /\ \A r \in requests : RequestOK(r) /\ RequestStored(r)
  BY DEF ProtocolOK, TypeOK, UploadsStored
<1>k. \A f \in Files : f \in unwanted' \/ (Listed(f) => Listed(f)')
  BY WholeKept
<1>u. unwanted \subseteq unwanted'
  BY StoreKept
<1>1. CASE QueueKept
  BY <1>1, <1>k, <1>u DEF QueueKept, NothingForgotten
<1>2. CASE Submit
  <2>1. form' = [form EXCEPT !.pc = "saving", !.pending = form.queue]
    BY <1>2 DEF Submit
  <2>2. form'.queue = form.queue /\ form'.pending = form.queue
    BY <1>t, <2>1 DEF Forms
  <2> QED BY <1>k, <1>u, <2>2 DEF NothingForgotten
<1>3. CASE Unqueue
  <2>1. PICK f \in form.queue : /\ form' = [form EXCEPT !.queue = @ \ {f}]
                                /\ unwanted' = unwanted \cup {f}
    BY <1>3 DEF Unqueue
  <2>2. form'.queue = form.queue \ {f} /\ form'.pending = form.pending /\ form'.pc = form.pc
    BY <1>t, <2>1 DEF Forms
  <2> QED BY <1>k, <2>1, <2>2 DEF NothingForgotten
<1>4. ASSUME NEW r \in requests, FileListed(r), r.by = "form" PROVE NothingForgotten'
  <2>1. /\ form'.queue = form.queue \ {r.name[1]} /\ form'.pending = form.pending \ {r.name[1]}
        /\ form.pc = "confirming"
    BY <1>4, <1>t DEF FileListed, Forms, ProtocolOK, Awaited
  <2>2. r.name[1] \in unwanted \/ Listed(r.name[1])
    BY <1>4, <1>t DEF FileListed, RequestStored, Stored, Listed
  <2>3. form'.queue \subseteq form'.pending
    BY <2>1 DEF NothingForgotten
  <2>4. ASSUME NEW f \in Files PROVE f \in form'.queue \/ f \in unwanted' \/ Listed(f)'
    BY <1>k, <1>u, <2>1, <2>2 DEF NothingForgotten
  <2> QED BY <2>3, <2>4 DEF NothingForgotten
<1> QED BY <1>1, <1>2, <1>3, <1>4, QueueChange

LEMMA NothingIsForgotten == Spec => []NothingForgotten
<1>1. Init => NothingForgotten
  <2> SUFFICES ASSUME Init PROVE NothingForgotten
    OBVIOUS
  <2>1. form.pc = "idle" /\ form.queue = Files
    BY DEF Init, FormOf
  <2> QED BY <2>1 DEF NothingForgotten
<1>2. ProtocolOK /\ UploadsStored /\ NothingForgotten /\ [Next]_vars => NothingForgotten'
  <2>1. NothingForgotten /\ UNCHANGED vars => NothingForgotten'
    BY DEF vars, store, NothingForgotten, Listed
  <2> QED BY <2>1, StepForgetsNothing
<1> QED BY <1>1, <1>2, ProtocolCorrect, UploadsKept, PTL DEF Spec

-----------------------------------------------------------------------------
(* A new listing is made public by the form alone, once all is uploaded.   *)
LEMMA PublishWhole ==
  ASSUME ProtocolOK, NothingForgotten, Publish
  PROVE  Whole
<1>1. form.pc = "uploading" /\ form.pending = {}
  BY DEF Publish, Uploaded
<1> QED BY <1>1 DEF NothingForgotten, Whole

LEMMA RowMadePublic ==
  ASSUME ProtocolOK, PublicWhole, Next, ~page.editing, row'.status = "available"
  PROVE  Whole
<1>1. CASE row' = row
  BY <1>1 DEF PublicWhole
<1>2. ASSUME NEW r \in requests, CreateProduct(r) \/ SaveRow(r) \/ DeleteRow(r)
      PROVE  Whole
  <2>0. row \in Rows /\ r.seen \in Rows
    BY DEF ProtocolOK, TypeOK, Requests
  <2>1. row'.status = "available"
          => row.status = "available" \/ r.seen.status = "available" \/ MakesPublic(r)
    <3>1. CASE CreateProduct(r)
      BY <3>1 DEF CreateProduct, MakesPublic
    <3>2. CASE SaveRow(r)
      BY <2>0, <3>2 DEF SaveRow, SavedRow, MakesPublic, Rows
    <3>3. CASE DeleteRow(r)
      BY <2>0, <3>3 DEF DeleteRow, Rows
    <3> QED BY <1>2, <3>1, <3>2, <3>3
  <2> QED BY <2>1 DEF PublicWhole
<1>3. row' = row \/ \E r \in requests : CreateProduct(r) \/ SaveRow(r) \/ DeleteRow(r)
  BY DEF Next, FormStep, Seller, Handler, Submit, PutNext, ConfirmPut, Publish, Finish, PickImage,
     Unqueue, RemoveExisting, ReadRow, PutBlob, ConfirmAsset, DeleteBlob, Answer, Fail, TimeOut, store
<1> QED BY <1>1, <1>2, <1>3

LEMMA StepPublicWhole ==
  ASSUME ProtocolOK, UploadsStored, NothingForgotten, PublicWhole, Next
  PROVE  PublicWhole'
<1> SUFFICES ASSUME ~page.editing
             PROVE  /\ row'.status = "available" => Whole'
                    /\ \A q \in requests' : q.seen.status = "available" \/ MakesPublic(q) => Whole'
  BY StoreKept DEF PublicWhole, MakesPublic
<1>w. Whole => Whole'
  BY WholeKept
<1>1. row'.status = "available" => Whole'
  BY <1>w, RowMadePublic
<1>2. ASSUME NEW q \in requests', q.seen.status = "available" \/ MakesPublic(q) PROVE Whole
  <2>1. CASE q \in requests
    BY <1>2, <2>1 DEF PublicWhole
  <2>2. CASE Sent(q)
    <3>1. Publish
      BY <1>2, <2>2 DEF Sent, NoRow, MakesPublic, FirstStatus
    <3> QED BY <3>1, PublishWhole
  <2>3. ASSUME NEW r \in requests, Worked(r, q) PROVE Whole
    BY <1>2, <2>3 DEF Worked, PublicWhole, MakesPublic
  <2>4. ASSUME NEW r \in requests, LeftAlone(r, q) PROVE Whole
    BY <1>2, <2>4 DEF LeftAlone, PublicWhole, MakesPublic
  <2> QED BY <2>1, <2>2, <2>3, <2>4, WhereFrom
<1> QED BY <1>w, <1>1, <1>2

(* However often the seller has to begin again, and whichever handlers run *)
(* on after a timeout: the step that makes a new listing public finds      *)
(* every file listed and its blob uploaded.                                *)
THEOREM PublicWhenWhole == Spec => PublishedWhole
<1>1. Init => PublicWhole
  <2> SUFFICES ASSUME Init, ~page.editing PROVE row.status # "available" /\ requests = {}
    BY DEF PublicWhole
  <2>1. page # [editing |-> TRUE, imageUrl |-> <<"image", 1>>]
    OBVIOUS
  <2>2. row = NoRow /\ requests = {}
    BY <2>1 DEF Init
  <2> QED BY <2>2 DEF NoRow
<1>2. ProtocolOK /\ UploadsStored /\ NothingForgotten /\ PublicWhole /\ [Next]_vars => PublicWhole'
  <2>1. PublicWhole /\ UNCHANGED vars => PublicWhole'
    BY DEF vars, store, PublicWhole, Whole, Listed, MakesPublic
  <2> QED BY <2>1, StepPublicWhole
<1>3. ProtocolOK /\ PublicWhole /\ [Next]_vars
        => [row.status # "available" /\ row'.status = "available" /\ ~page.editing
              => \A f \in Files \ unwanted : \E name \in assets \cap blobs : name[1] = f]_vars
  BY RowMadePublic DEF Whole, Listed
<1> QED BY <1>1, <1>2, <1>3, ProtocolCorrect, UploadsKept, NothingIsForgotten, PTL
        DEF Spec, PublishedWhole

-----------------------------------------------------------------------------
(* As long as no request is late, the form's request alone changes the     *)
(* row, so what a handler has read of it is still true when it is saved.   *)
LEMMA WhoseRequest ==
  ASSUME ProtocolOK, InTime, ~late, NEW r \in requests
  PROVE  r.by = "form" \/ (r.by = "list" /\ r.op = "remove")
<1>1. r.by \in {"form", "list", "nobody"} /\ RequestOK(r) /\ RequestInTime(r)
  BY DEF ProtocolOK, TypeOK, Requests, InTime
<1> QED BY <1>1 DEF RequestOK, RequestInTime

LEMMA RowSaved ==
  ASSUME ProtocolOK, InTime, ~late, NEW r \in requests, SaveRow(r)
  PROVE  \/ r.op = "update" /\ row' = [status |-> r.status, image |-> row.image]
         \/ r.op = "image" /\ row' = [status |-> row.status, image |-> r.name]
<1>1. r.seen = row /\ row \in Rows
  BY DEF ProtocolOK, TypeOK, InTime, RequestInTime, SaveRow, ReadsRow
<1> QED BY <1>1 DEF SaveRow, SavedRow, Rows

LEMMA RowChange ==
  ASSUME ProtocolOK, UploadsStored, InTime, ~late, Next
  PROVE  \/ row' = row
         \/ \E r \in requests : r.by = "form" /\ (CreateProduct(r) \/ SaveRow(r))
<1>1. ASSUME NEW r \in requests, CreateProduct(r) \/ SaveRow(r) PROVE r.by = "form"
  BY <1>1, WhoseRequest DEF CreateProduct, SaveRow
<1>2. ASSUME NEW r \in requests, DeleteRow(r) PROVE row' = row
  <2>1. CASE r.op = "remove"
    BY <1>2, <2>1 DEF DeleteRow
  <2>2. CASE r.op # "remove"
    <3>1. r.op = "previous" /\ r.name = page.imageUrl
      BY <1>2, <2>2 DEF DeleteRow, UploadsStored, RequestStored, ProtocolOK, RequestOK
    <3>2. r.seen = row /\ row.image # page.imageUrl
      BY <1>2, <3>1 DEF DeleteRow, InTime, RequestInTime, ReadsRow
    <3> QED BY <1>2, <3>1, <3>2 DEF DeleteRow
  <2> QED BY <2>1, <2>2
<1>3. \/ row' = row
      \/ \E r \in requests : CreateProduct(r) \/ SaveRow(r) \/ DeleteRow(r)
  BY DEF Next, FormStep, Seller, Handler, Submit, PutNext, ConfirmPut, Publish, Finish, PickImage,
     Unqueue, RemoveExisting, ReadRow, PutBlob, ConfirmAsset, DeleteBlob, Answer, Fail, TimeOut, store
<1> QED BY <1>1, <1>2, <1>3

\* The image is uploaded before the row names it.
LEMMA ImageStored ==
  ASSUME ProtocolOK, UploadsStored, NEW r \in requests, r.op = "image"
  PROVE  r.name \in blobs /\ r.name # NoBlob /\ r.name # page.imageUrl
<1>1. r.name \in ImageNames /\ r.name # page.imageUrl /\ unwanted \subseteq Files
  BY DEF ProtocolOK, RequestOK, TypeOK
<1>2. r.name[1] = "image" /\ r.name # NoBlob
  BY <1>1, NameFacts
<1>3. Stored(r.name)
  BY DEF UploadsStored, RequestStored
<1> QED BY <1>1, <1>2, <1>3, ListingAssumption DEF Stored

LEMMA ImageDropped ==
  ASSUME ProtocolOK, UploadsStored, InTime, ~late, Next, ~page.editing, form.image, ~form'.image
  PROVE  row.image # NoBlob
<1>t. form \in Forms /\ page.imageUrl = NoBlob
      /\ \A r \in requests : RequestOK(r) /\ r \in Requests
  BY DEF ProtocolOK, TypeOK, PageOK
<1>1. ASSUME NEW r \in requests, form' = Accepted(r), r.op = "image" => r.stage = "done"
      PROVE  row.image # NoBlob
  <2>1. CASE r.op = "image"
    <3>1. row.image = r.name
      BY <1>1, <2>1 DEF InTime, RequestInTime
    <3> QED BY <2>1, <3>1, ImageStored
  <2>2. CASE r.op # "image"
    <3>1. r.op \in {"create", "update", "put", "file", "remove"}
      BY <1>t, <2>2 DEF RequestOK, Requests
    <3>2. form'.image = form.image
      BY <1>t, <1>1, <3>1 DEF Accepted, Forms
    <3> QED BY <3>2
  <2> QED BY <2>1, <2>2
<1>2. ASSUME NEW r \in requests, form' = Refused(r) PROVE row.image # NoBlob
  <2>1. r.op # "previous"
    BY <1>t DEF RequestOK
  <2>2. form' = form \/ form' = [form EXCEPT !.pc = "idle", !.name = NoBlob]
    BY <1>2, <2>1 DEF Refused
  <2> QED BY <1>t, <2>2 DEF Forms
<1>3. \/ form'.image = form.image \/ form' = [form EXCEPT !.image = TRUE]
      \/ \E r \in requests : /\ form' = Accepted(r) /\ (r.op = "image" => r.stage = "done")
      \/ \E r \in requests : form' = Refused(r)
  BY <1>t DEF Next, FormStep, Seller, Handler, Submit, PutNext, ConfirmPut, Publish, Finish, PickImage,
     Unqueue, RemoveExisting, ReadRow, CreateProduct, PutBlob, SaveRow, ConfirmAsset, DeleteBlob,
     DeleteRow, Answer, Fail, TimeOut, Step, Forms
<1>4. form' # [form EXCEPT !.image = TRUE]
  BY <1>t DEF Forms
<1> QED BY <1>1, <1>2, <1>3, <1>4

LEMMA BlobShown ==
  ASSUME ProtocolOK, UploadsStored, InTime, ~late, Next
  PROVE  row'.image \in blobs' \cup {NoBlob}
<1>t. row \in Rows /\ row.image \in blobs \cup {NoBlob} /\ row.image \in Images
  BY DEF ProtocolOK, TypeOK, InTime, Rows
<1>1. ASSUME NEW r \in requests, DeleteBlob(r) PROVE r.name # row.image
  <2>1. CASE r.op = "remove"
    BY <1>t, <2>1, NameFacts DEF ProtocolOK, RequestOK
  <2>2. CASE r.op = "previous"
    BY <2>2 DEF ProtocolOK, RequestOK, InTime, RequestInTime
  <2> QED BY <1>1, <2>1, <2>2 DEF DeleteBlob, ReadyToDelete
<1>2. \/ blobs \subseteq blobs'
      \/ \E r \in requests : DeleteBlob(r)
  BY DEF Next, FormStep, Seller, Handler, Submit, PutNext, ConfirmPut, Publish, Finish, PickImage,
     Unqueue, RemoveExisting, ReadRow, CreateProduct, PutBlob, SaveRow, ConfirmAsset, DeleteRow,
     Answer, Fail, TimeOut, store
<1>3. CASE row' = row
  BY <1>t, <1>1, <1>2, <1>3 DEF DeleteBlob
<1>4. ASSUME NEW r \in requests, CreateProduct(r) PROVE row'.image \in blobs' \cup {NoBlob}
  BY <1>4 DEF CreateProduct
<1>5. ASSUME NEW r \in requests, SaveRow(r) PROVE row'.image \in blobs' \cup {NoBlob}
  BY <1>5, <1>t, RowSaved, ImageStored DEF SaveRow
<1> QED BY <1>3, <1>4, <1>5, RowChange

LEMMA ImageShownNext ==
  ASSUME ProtocolOK, UploadsStored, InTime, ~late, Next, ~page.editing,
         row'.status = "available" \/ ~form'.image
  PROVE  row'.image # NoBlob
<1>t. row.status = "available" \/ ~form.image => row.image # NoBlob
  BY DEF InTime
<1>1. CASE row' = row
  BY <1>t, <1>1, ImageDropped
<1>2. ASSUME NEW r \in requests, CreateProduct(r) PROVE FALSE
  <2>1. r.op = "create" /\ r.by = "form" /\ form' = Accepted(r)
        /\ row' = [status |-> r.status, image |-> NoBlob]
    BY <1>2 DEF CreateProduct
  <2>2. r.status = "draft"
    BY <2>1 DEF InTime, RequestInTime
  <2>3. form.image /\ form \in Forms
    BY <2>1 DEF ProtocolOK, TypeOK, Awaited, FormOK
  <2>4. form'.image
    BY <2>1, <2>3 DEF Accepted, Forms
  <2> QED BY <2>1, <2>2, <2>4
<1>3. ASSUME NEW r \in requests, SaveRow(r) PROVE row'.image # NoBlob
  <2>1. CASE r.op = "update"
    <3>1. row' = [status |-> r.status, image |-> row.image] /\ form' = form
      BY <1>3, <2>1, RowSaved DEF SaveRow
    <3>2. r.status = "available" => row.image # NoBlob
      BY <2>1 DEF InTime, RequestInTime, MakesPublic
    <3> QED BY <1>t, <3>1, <3>2
  <2>2. CASE r.op = "image"
    BY <1>3, <2>2, RowSaved, ImageStored
  <2> QED BY <1>3, <2>1, <2>2 DEF SaveRow
<1> QED BY <1>1, <1>2, <1>3, RowChange

LEMMA RequestsInTime ==
  ASSUME ProtocolOK, UploadsStored, InTime, ~late, ~late', Next, NEW q \in requests'
  PROVE  RequestInTime(q)'
<1>p. page' = page
  BY StoreKept
<1>t. \A r \in requests : RequestOK(r) /\ RequestStored(r) /\ RequestInTime(r)
  BY DEF ProtocolOK, UploadsStored, InTime
<1>r. ASSUME q.by = "list", q.op = "remove" PROVE RequestInTime(q)'
  BY <1>r DEF RequestInTime, ReadsRow, MakesPublic
<1>1. CASE q \in requests
  <2>1. CASE row' = row
    BY <1>p, <1>t, <1>1, <2>1 DEF RequestInTime, MakesPublic
  <2>2. ASSUME NEW r \in requests, r.by = "form", CreateProduct(r) \/ SaveRow(r), q.by = "form"
        PROVE  RequestInTime(q)'
    <3>1. q = r
      BY <1>1, <2>2 DEF ProtocolOK, OneAtATime
    <3>2. CASE CreateProduct(r)
      BY <3>1, <3>2 DEF CreateProduct
    <3>3. CASE SaveRow(r)
      <4>1. r \in Requests /\ r.seen \in Rows /\ Advance(r, "done", r.seen)
        BY <3>3 DEF SaveRow, Done, ProtocolOK, TypeOK, Requests
      <4>2. PICK p \in Requests : p.stage = "done" /\ requests' = (requests \ {r}) \cup {p}
        BY <4>1, AdvanceType
      <4> QED BY <3>1, <3>3, <4>2 DEF SaveRow
    <3> QED BY <2>2, <3>2, <3>3
  <2> QED BY <1>1, <1>r, <2>1, <2>2, RowChange, WhoseRequest
<1>2. CASE Sent(q)
  <2>1. row' = row /\ q.by # "nobody"
    BY <1>2 DEF Sent, Submit, PutNext, ConfirmPut, Publish, RemoveExisting, Answer, store
  <2>2. q.op = "previous" => row.image # page.imageUrl
    <3>1. q.op = "previous"
            => \E r \in requests : r.op = "image" /\ r.stage = "done"
      BY <1>2 DEF Sent, Answer
    <3> QED BY <1>t, <3>1, ImageStored DEF RequestInTime
  <2>3. ~page.editing /\ MakesPublic(q) => row.image # NoBlob
    BY <1>2 DEF Sent, MakesPublic, FirstStatus, Publish, Uploaded, InTime
  <2>4. ~page.editing /\ q.op = "create" => q.status = "draft"
    BY <1>2 DEF Sent, FirstStatus
  <2>5. q.stage = "sent"
    BY <1>2 DEF Sent
  <2> QED BY <1>p, <2>1, <2>2, <2>3, <2>4, <2>5 DEF RequestInTime, MakesPublic
<1>3. ASSUME NEW r \in requests, Worked(r, q) PROVE RequestInTime(q)'
  <2>0. RequestInTime(r) /\ RequestStored(r)
    BY <1>t
  <2>1. CASE ReadRow(r) /\ q.stage = "read" /\ q.seen = row
    <3>1. row' = row
      BY <2>1 DEF ReadRow, store
    <3> QED BY <1>3, <1>p, <2>0, <2>1, <3>1 DEF Worked, RequestInTime, MakesPublic
  <2>2. CASE DeleteBlob(r) /\ q.stage = "cleared" /\ q.seen = r.seen
    <3>1. row' = row /\ (r.op = "previous" => r.stage = "read")
          /\ r.op \in {"previous", "remove"}
      BY <2>2 DEF DeleteBlob, ReadyToDelete
    <3> QED BY <1>3, <1>p, <2>0, <2>2, <3>1 DEF Worked, RequestInTime, MakesPublic, ReadsRow
  <2>3. CASE (PutBlob(r) \/ ConfirmAsset(r)) /\ q.stage = "done"
    <3>1. row' = row /\ r.op \in {"put", "file"}
      BY <2>3 DEF PutBlob, ConfirmAsset
    <3> QED BY <1>3, <1>p, <2>0, <2>3, <3>1 DEF Worked, RequestInTime, MakesPublic
  <2>4. CASE SaveRow(r) /\ q.stage = "done"
    <3>1. \/ r.op = "update" /\ row'.image = row.image
          \/ r.op = "image" /\ row'.image = r.name
      BY <2>4, RowSaved
    <3> QED BY <1>3, <1>p, <2>0, <2>4, <3>1 DEF Worked, RequestInTime, MakesPublic
  <2>5. CASE DeleteRow(r) /\ q.stage = "done"
    <3>1. row' = row \/ \E p \in requests : CreateProduct(p) \/ SaveRow(p)
      BY RowChange
    <3>2. r.op \in {"previous", "remove"}
      BY <2>0, <2>5 DEF DeleteRow, RequestStored
    <3>3. row' = row
      <4>1. CASE r.op = "remove"
        BY <2>5, <4>1 DEF DeleteRow
      <4>2. CASE r.op = "previous"
        <5>1. r.name = page.imageUrl /\ r.seen = row /\ row.image # page.imageUrl
          BY <1>t, <2>0, <2>5, <4>2 DEF DeleteRow, RequestOK, RequestInTime, ReadsRow
        <5> QED BY <2>5, <4>2, <5>1 DEF DeleteRow
      <4> QED BY <3>2, <4>1, <4>2
    <3> QED BY <1>3, <1>p, <2>0, <2>5, <3>2, <3>3 DEF Worked, RequestInTime, MakesPublic
  <2> QED BY <1>3, <2>1, <2>2, <2>3, <2>4, <2>5 DEF Worked
<1>4. ASSUME NEW r \in requests, LeftAlone(r, q) PROVE FALSE
  BY <1>4 DEF LeftAlone, TimeOut
<1> QED BY <1>1, <1>2, <1>3, <1>4, WhereFrom

(* As long as no request is carried out after its timeout, the image of a  *)
(* product is a blob in storage, and a new listing that is public has one, *)
(* however often an attempt fails or loses its answer.                     *)
THEOREM ImageAlwaysShown == Spec => []ImageShown
<1>1. Init => InTime
  <2> SUFFICES ASSUME Init PROVE InTime
    OBVIOUS
  <2>1. requests = {} /\ blobs = {page.imageUrl} \ {NoBlob}
    BY DEF Init
  <2>2. CASE page = [editing |-> TRUE, imageUrl |-> <<"image", 1>>]
    <3>0. page.editing /\ page # [editing |-> FALSE, imageUrl |-> NoBlob]
      BY <2>2
    <3>2. PICK status \in Statuses : row = [status |-> status, image |-> <<"image", 1>>]
      BY <3>0 DEF Init
    <3>1. row.image = <<"image", 1>> /\ page.editing
      BY <3>0, <3>2
    <3> QED BY <2>1, <2>2, <3>1 DEF InTime, NoBlob
  <2>3. CASE page # [editing |-> TRUE, imageUrl |-> <<"image", 1>>]
    <3>1. row = NoRow /\ form.image
      BY <2>3 DEF Init, FormOf
    <3> QED BY <2>1, <3>1 DEF InTime, NoRow
  <2> QED BY <2>2, <2>3
<1>2. ProtocolOK /\ UploadsStored /\ InTime /\ [Next]_vars => InTime'
  <2>1. InTime /\ UNCHANGED vars => InTime'
    BY DEF vars, store, InTime, RequestInTime, MakesPublic
  <2>2. ASSUME ProtocolOK, UploadsStored, InTime, Next, ~late' PROVE InTime'
    <3>1. ~late /\ page' = page
      <4>1. late' = late \/ late'
        BY <2>2 DEF Next, FormStep, Seller, Handler, Submit, PutNext, ConfirmPut, Publish,
           Finish, PickImage, Unqueue, RemoveExisting, ReadRow, CreateProduct, PutBlob, SaveRow,
           ConfirmAsset, DeleteBlob, DeleteRow, Answer, Fail, TimeOut
      <4> QED BY <2>2, <4>1, StoreKept
    <3> QED BY <2>2, <3>1, BlobShown, ImageShownNext, RequestsInTime DEF InTime
  <2>3. late' => InTime'
    BY DEF InTime
  <2> QED BY <2>1, <2>2, <2>3
<1>3. InTime => ImageShown
  BY DEF InTime, ImageShown
<1> QED BY <1>1, <1>2, <1>3, ProtocolCorrect, UploadsKept, PTL DEF Spec
=============================================================================
