------------------------------- MODULE Review -------------------------------
(***************************************************************************)
(* The review service: one review for each item a buyer received, the      *)
(* shop's reply and reports, the moderation that hides and restores, the   *)
(* photos (an upload is recorded before the object is stored and a sweep   *)
(* removes what a failed upload left behind) and the author labels.        *)
(***************************************************************************)
EXTENDS Naturals, FiniteSets

CONSTANTS
  Items,         \* order items a buyer may review
  Reasons,       \* moderation reasons
  Objects,       \* object keys, one per photo upload
  MaxImages,     \* domain.maxReviewImages
  MaxAttempts,   \* maxCleanupAttempts
  ShowUnverified \* Deps.ShowUnverified: list seeded reviews too

NoReason == "no reason"
NoItem == "no item"
SlowUpload == 2      \* photo requests that are open at once

VARIABLES
  received,  \* items Order confirms were received in a completed order
  review,    \* the row of each item, or a row with status "none"
  reply,     \* items whose review the shop has answered
  active,    \* moderation reasons that are active
  report,    \* the shop's last report of each review
  trail,     \* the last moderation entry of each review in the audit log
  photo,     \* each photo request: its phase and its review
  images,    \* review_images: the keys attached to each review
  upload,    \* review_image_uploads: the row of each key
  stored     \* the keys the object store holds

moderation == <<reply, active, report, trail>>
photos == <<photo, images, upload, stored>>
vars == <<received, review, moderation, photos>>

Statuses == {"none", "published", "hidden"}
Row(v) == [status |-> "published", verified |-> v, label |-> "unchecked", reason |-> NoReason]
Intent(state) == [state |-> state, attempts |-> 0]

-----------------------------------------------------------------------------
(* The statements of the review database.                                  *)

\* A second review of the same item breaks the unique key.
CreateReview(i, label) ==
  /\ review[i].status = "none"
  /\ review' = [review EXCEPT ![i] = [Row(TRUE) EXCEPT !.label = label]]

HideReview(i, reason) ==
  /\ review[i].status = "published"
  /\ review' = [review EXCEPT ![i].status = "hidden", ![i].reason = reason]

RestoreReview(i) ==
  /\ review[i].status = "hidden"
  /\ review' = [review EXCEPT ![i].status = "published", ![i].reason = NoReason]

UpsertReply(i) == reply' = reply \cup {i}

\* At most one open report of a review by its shop.
CreateReport(i, reason) ==
  /\ report[i].status # "open"
  /\ report' = [report EXCEPT ![i] = [status |-> "open", reason |-> reason, decision |-> "none"]]

SaveDecision(i, decision, reason) ==
  /\ report[i].status = "open"
  /\ report' = [report EXCEPT ![i] = [status |-> "resolved", reason |-> reason, decision |-> decision]]

InsertAudit(i, action) == trail' = [trail EXCEPT ![i] = action]

GetReason(r) == r \in active

UpdateReason(r, isActive) == active' = IF isActive THEN active \cup {r} ELSE active \ {r}

ListPublicReviews(unverified) ==
  {i \in Items : review[i].status = "published" /\ (review[i].verified \/ unverified)}

ListVendorReviews(unverified, replied) == {i \in ListPublicReviews(unverified) : (i \in reply) = replied}

ListAdminReviews(status) == {i \in Items : review[i].status = status}

ProductSummary(unverified) == Cardinality(ListPublicReviews(unverified))

\* The shop's summary: the same count, by answered and unanswered reviews.
VendorSummary(unverified) ==
  Cardinality(ListVendorReviews(unverified, TRUE)) + Cardinality(ListVendorReviews(unverified, FALSE))

PendingLabels == {i \in Items : review[i].status # "none" /\ review[i].label = "unchecked"}

SetLabel(i, label) == review' = [review EXCEPT ![i].label = label]

StoredImagesOnly(i) == Cardinality(images[i])

\* Stored images and the uploads in progress that are not parked.
CountImageSlots(i) ==
  Cardinality(images[i])
    + Cardinality({o \in Objects : photo[o].item = i /\ upload[o].state \notin {"none", "parked"}})

AddUpload(o) == upload' = [upload EXCEPT ![o] = Intent("waiting")]

DeleteUpload(o) == upload' = [upload EXCEPT ![o] = Intent("none")]

InsertImage(o) == images' = [images EXCEPT ![photo[o].item] = @ \cup {o}]

\* Due uploads, each held for five minutes; "recorded" is read in the claim.
ClaimStaleUploads(o) ==
  /\ upload[o].state = "due"
  /\ upload' = [upload EXCEPT ![o].state = IF o \in UNION {images[i] : i \in Items}
                                             THEN "recorded" ELSE "claimed"]

UploadCleanupFailed(o, park) ==
  upload' = [upload EXCEPT ![o].attempts = @ + 1, ![o].state = IF park THEN "parked" ELSE "waiting"]

-----------------------------------------------------------------------------
(* Reviews, replies, reports and moderation.                               *)

\* Order: an item is received, or stops being eligible (its order leaves
\* "completed"); what was reviewed stays reviewed.
Receive(i) ==
  /\ received' = (received \ {i}) \cup ({i} \ received)
  /\ UNCHANGED <<review, moderation, photos>>

\* The label is resolved at once when Identity answers in two seconds.
authorLabel == {"unchecked", "known"}

Create(i) ==
  /\ i \in received
  /\ \E label \in authorLabel : CreateReview(i, label)
  /\ UNCHANGED <<received, moderation, photos>>

\* A published review of the shop, locked for the shop's action.
reviewOfShop(i) == review[i].status = "published"

Reply(i) ==
  /\ reviewOfShop(i)
  /\ UpsertReply(i) /\ InsertAudit(i, "replied")
  /\ UNCHANGED <<received, review, active, report, photos>>

Report(i, r) ==
  /\ reviewOfShop(i) /\ GetReason(r)
  /\ CreateReport(i, r) /\ InsertAudit(i, "reported")
  /\ UNCHANGED <<received, review, reply, active, photos>>

\* The active state of a reason changes; decisions taken with it stand.
ChangeReason(r, isActive) ==
  /\ isActive # GetReason(r)
  /\ UpdateReason(r, isActive)
  /\ UNCHANGED <<received, review, reply, report, trail, photos>>

activeReason(r) == GetReason(r)

\* Keep leaves the review as it is; hide takes it off the storefront, if it is
\* not hidden already.
ResolveReport(i, decision, r) ==
  /\ report[i].status = "open"
  /\ decision = "hide" => activeReason(r)
  /\ IF decision = "hide" /\ review[i].status = "published"
       THEN HideReview(i, r) ELSE UNCHANGED review
  /\ SaveDecision(i, decision, IF decision = "hide" THEN r ELSE NoReason)
  /\ InsertAudit(i, IF decision = "hide" THEN "hidden" ELSE "kept")
  /\ UNCHANGED <<received, reply, active, photos>>

Hide(i, r) ==
  /\ review[i].status = "published" /\ activeReason(r)
  /\ HideReview(i, r) /\ InsertAudit(i, "hidden")
  /\ UNCHANGED <<received, reply, active, report, photos>>

Restore(i) ==
  /\ RestoreReview(i) /\ InsertAudit(i, "restored")
  /\ UNCHANGED <<received, reply, active, report, photos>>

\* One review of a batch; Identity not answering ends the round.
BackfillLabel(i) ==
  /\ i \in PendingLabels
  /\ SetLabel(i, "known")
  /\ UNCHANGED <<received, moderation, photos>>

-----------------------------------------------------------------------------
(* Photos.                                                                 *)

Requested == {o \in Objects : photo[o].phase \notin {"unused", "ended"}}

\* UploadImage up to its first transaction: the review is read and the photo
\* prepared without a lock.
StartPhoto(o, i) ==
  /\ photo[o].phase = "unused" /\ review[i].status = "published"
  /\ Cardinality(Requested) < SlowUpload
  /\ photo' = [photo EXCEPT ![o] = [phase |-> "prepared", item |-> i]]
  /\ UNCHANGED <<received, review, moderation, images, upload, stored>>

\* The first transaction checks the review again and reserves a slot.
ReserveSlot(o) ==
  /\ photo[o].phase = "prepared"
  /\ IF review[photo[o].item].status = "published" /\ CountImageSlots(photo[o].item) < MaxImages
       THEN AddUpload(o) /\ photo' = [photo EXCEPT ![o].phase = "reserved"]
       ELSE UNCHANGED upload /\ photo' = [photo EXCEPT ![o].phase = "ended"]
  /\ UNCHANGED <<received, review, moderation, images, stored>>

\* The object is stored, or the store fails -- then it may hold the object
\* or not.
StorePhoto(o) ==
  /\ photo[o].phase = "reserved"
  /\ \/ photo' = [photo EXCEPT ![o].phase = "stored"] /\ stored' = stored \cup {o}
     \/ photo' = [photo EXCEPT ![o].phase = "failed"] /\ stored' \in {stored, stored \cup {o}}
  /\ UNCHANGED <<received, review, moderation, images, upload>>

\* The second transaction: the image's row and the end of its upload.  When it
\* fails nothing is written.
RecordImage(o) ==
  /\ photo[o].phase = "stored"
  /\ \/ /\ InsertImage(o) /\ DeleteUpload(o)
        /\ photo' = [photo EXCEPT ![o].phase = "ended"]
     \/ /\ photo' = [photo EXCEPT ![o].phase = "failed"]
        /\ UNCHANGED <<images, upload>>
  /\ UNCHANGED <<received, review, moderation, stored>>

\* discard: the object is deleted, then the upload is closed; either may fail.
Discard(o) ==
  /\ photo[o].phase = "failed"
  /\ photo' = [photo EXCEPT ![o].phase = "ended"]
  /\ \/ stored' = stored \ {o} /\ upload' \in {upload, [upload EXCEPT ![o] = Intent("none")]}
     \/ UNCHANGED <<stored, upload>>
  /\ UNCHANGED <<received, review, moderation, images>>

\* The process stops in the middle of a request.
Crash(o) ==
  /\ o \in Requested
  /\ photo' = [photo EXCEPT ![o].phase = "ended"]
  /\ UNCHANGED <<received, review, moderation, images, upload, stored>>

\* Fifteen minutes after the upload was recorded, or its backoff is over; no
\* request lives that long.
UploadDue(o) ==
  /\ upload[o].state = "waiting" /\ o \notin Requested
  /\ upload' = [upload EXCEPT ![o].state = "due"]
  /\ UNCHANGED <<received, review, moderation, photo, images, stored>>

TakeStale(o) ==
  /\ ClaimStaleUploads(o)
  /\ UNCHANGED <<received, review, moderation, photo, images, stored>>

\* CleanUploads for one upload it holds: its object goes unless an image uses
\* it; a deletion that fails is tried again later, and parked in the end.  When
\* the sweep dies after the deletion the upload comes back after five minutes.
CleanUpload(o) ==
  /\ upload[o].state \in {"claimed", "recorded"}
  /\ \/ /\ stored' = IF upload[o].state = "recorded" THEN stored ELSE stored \ {o}
        /\ DeleteUpload(o)
     \/ /\ upload[o].state = "claimed" /\ UNCHANGED stored
        /\ UploadCleanupFailed(o, upload[o].attempts + 1 >= MaxAttempts)
     \/ /\ upload[o].state = "claimed" /\ stored' = stored \ {o}
        /\ upload' = [upload EXCEPT ![o].state = "waiting"]
  /\ UNCHANGED <<received, review, moderation, photo, images>>

-----------------------------------------------------------------------------
\* Reviews exist as seeded demo data, which is not a verified purchase, or not yet.
Init ==
  /\ received = {} /\ reply = {} /\ active = Reasons /\ stored = {}
  /\ review \in [Items -> {[Row(FALSE) EXCEPT !.status = "none"], Row(FALSE)}]
  /\ report = [i \in Items |-> [status |-> "none", reason |-> NoReason, decision |-> "none"]]
  /\ trail = [i \in Items |-> "none"]
  /\ photo = [o \in Objects |-> [phase |-> "unused", item |-> NoItem]]
  /\ images = [i \in Items |-> {}]
  /\ upload = [o \in Objects |-> Intent("none")]

Step(i) ==
  \/ Receive(i) \/ Create(i) \/ Reply(i) \/ Restore(i) \/ BackfillLabel(i)
  \/ \E r \in Reasons :
       Report(i, r) \/ Hide(i, r) \/ \E decision \in {"keep", "hide"} : ResolveReport(i, decision, r)
  \/ \E o \in Objects : StartPhoto(o, i)

PhotoStep(o) ==
  \/ ReserveSlot(o) \/ StorePhoto(o) \/ RecordImage(o) \/ Discard(o) \/ Crash(o)
  \/ UploadDue(o) \/ TakeStale(o) \/ CleanUpload(o)

Next ==
  \/ \E i \in Items : Step(i)
  \/ \E o \in Objects : PhotoStep(o)
  \/ \E r \in Reasons, isActive \in BOOLEAN : ChangeReason(r, isActive)

Spec == Init /\ [][Next]_vars

-----------------------------------------------------------------------------
Attached == UNION {images[i] : i \in Items}

TypeOK ==
  /\ received \subseteq Items /\ reply \subseteq Items /\ active \subseteq Reasons
  /\ \A i \in Items : review[i].status \in Statuses /\ images[i] \subseteq Objects
  /\ \A o \in Objects : photo[o].item \in Items \cup {NoItem} /\ upload[o].attempts \in 0..MaxAttempts
  /\ stored \subseteq Objects

\* Every photo a review shows exists in the object store, and a review never
\* has more photos than allowed, whatever uploads, failures and sweeps overlap.
PhotosHold == Attached \subseteq stored /\ \A i \in Items : Cardinality(images[i]) <= MaxImages

\* What the storefront shows was received by its buyer (or seeded where that is
\* allowed), and what is hidden says why and who hid it last in the audit log.
ModerationIsTraced ==
  /\ \A i \in ListPublicReviews(ShowUnverified) : review[i].verified \/ ShowUnverified
  /\ \A i \in ListAdminReviews("hidden") : review[i].reason \in Reasons /\ trail[i] \in {"hidden", "kept"}
  /\ ProductSummary(ShowUnverified) = VendorSummary(ShowUnverified)

\* Both, as one invariant of the service.
ReviewsHold == PhotosHold /\ ModerationIsTraced

=============================================================================
