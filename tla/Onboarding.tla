----------------------------- MODULE Onboarding -----------------------------
(***************************************************************************)
(* How a business gets on the platform: an owner registers it, uploads its *)
(* CR certificate, adds a branch and submits it; a platform admin reads it *)
(* and approves it or sends it back.                                       *)
(*                                                                         *)
(* Every change of a business takes the lock of its row first and is one   *)
(* transaction, so it is one action here.  What is not one transaction is  *)
(* in steps: counting and inserting a registration (a lock on the owner),  *)
(* reading a business and then its documents, an upload (checked, bytes,   *)
(* row, attached, or discarded again).                                     *)
(*                                                                         *)
(* A screen is one client's page: what it last read, and the version it    *)
(* sends back as If-Match.  An upload is named after the file it makes.    *)
(***************************************************************************)
EXTENDS Naturals, FiniteSets, FiniteSetsExt

CONSTANTS
    Businesses,                 \* business ids
    Users,                      \* who may register a business
    Admins,                     \* the platform admins among them
    CRs,                        \* Commercial Registration numbers
    Uploads,                    \* uploads, and the media ids they make
    Screens,                    \* clients' pages
    Nobody,                     \* no user, no business
    MaxOpenRegistrations,
    MaxVerificationDocuments,
    BranchLimit,                \* Limits.MaxBranches of the plan
    LostAnswers,                \* whether a commit's answer may be lost
    MaxSaves                    \* bound: saves of businesses in all

ASSUME OnboardingAssumption ==
    /\ Admins \subseteq Users
    /\ Nobody \notin Users \cup Businesses
    /\ IsFiniteSet(Businesses)
    /\ MaxOpenRegistrations \in Nat
    /\ MaxVerificationDocuments \in Nat
    /\ BranchLimit \in Nat
    /\ LostAnswers \in BOOLEAN
    /\ MaxSaves \in Nat

VARIABLES
    biz,            \* businesses and their owner's staff row
    docs,           \* docs[b]: verification_documents of b
    objects,        \* media.objects, the rows
    stored,         \* the files on disk
    upload,         \* upload[u]: the Upload request that makes file u
    branches,       \* branches[b]: how many branches b has
    screen          \* screen[d]: what page d shows

vars == <<biz, docs, objects, stored, upload, branches, screen>>

mediaVars == <<objects, stored>>

-----------------------------------------------------------------------------
Statuses == {"draft", "pending_review", "active", "rejected"}

\* "inserting" is the row of a registration that has not committed: only its
\* own transaction sees it.
BusinessRow ==
    [status : Statuses \cup {"none", "inserting"}, owner : Users \cup {Nobody},
     cr : CRs \cup {Nobody}, version : Nat, reviewedBy : Users \cup {Nobody}]

NoBusiness ==
    [status |-> "none", owner |-> Nobody, cr |-> Nobody, version |-> 0,
     reviewedBy |-> Nobody]

\* The bound: a row has been saved as many times as its version says.  Nothing
\* is read for a save the bound would not allow.
MoreSaves ==
    MapThenSumSet(LAMBDA b : biz[b].version, Businesses) < MaxSaves

Exists(b) == biz[b].status \in Statuses

\* Rename, Submit and CanAttachDocument: the owner is preparing the business,
\* or fixing it after a rejection.
Editable(status) == status \in {"draft", "rejected"}

\* CountOpenRegistrations.
OpenRegistrations(u) ==
    {b \in Businesses : biz[b].owner = u
        /\ biz[b].status \in {"draft", "pending_review", "rejected"}}

\* businesses_claimed_cr_number_key.
Claiming(status) == status \in {"pending_review", "active"}

Claimed(b) ==
    \E c \in Businesses \ {b} :
        /\ biz[c].cr = biz[b].cr
        /\ Claiming(biz[c].status)

-----------------------------------------------------------------------------
(* Registering.                                                            *)

\* Mutant: nobody waits for the other registration.
OwnerFree(u) == TRUE

\* The advisory lock "business.register:<owner>", held to the commit.
OwnerLockFree(u) ==
    \A b \in Businesses : biz[b].status = "inserting" => biz[b].owner # u

\* Register: lock the owner, count, refuse at the limit.
RegisterCount(b, u, c) ==
    /\ biz[b] = NoBusiness /\ MoreSaves
    /\ OwnerLockFree(u)
    /\ Cardinality(OpenRegistrations(u)) < MaxOpenRegistrations
    /\ biz' = [biz EXCEPT ![b] = [status |-> "inserting", owner |-> u,
                    cr |-> c, version |-> 1, reviewedBy |-> Nobody]]
    /\ UNCHANGED <<docs, mediaVars, upload, branches, screen>>

\* businesses_owner_cr_number_key.
Duplicate(b) ==
    \E c \in Businesses \ {b} :
        Exists(c) /\ biz[c].owner = biz[b].owner /\ biz[c].cr = biz[b].cr

\* The draft and its owner are inserted together.
RegisterInsert(b) ==
    /\ biz[b].status = "inserting"
    /\ ~Duplicate(b)
    /\ biz' = [biz EXCEPT ![b].status = "draft"]
    /\ UNCHANGED <<docs, mediaVars, upload, branches, screen>>

\* The transaction fails: a duplicate, or anything else.
RegisterAbort(b) ==
    /\ biz[b].status = "inserting"
    /\ biz' = [biz EXCEPT ![b] = NoBusiness]
    /\ UNCHANGED <<docs, mediaVars, upload, branches, screen>>

-----------------------------------------------------------------------------
(* Reading and changing a business.  authorize lets only the owner rename   *)
(* and submit; Detail shows an admin every business but a draft.            *)

Screen ==
    [pc : {"idle", "reading", "seen"}, user : Users \cup {Nobody},
     business : Businesses \cup {Nobody}, version : Nat,
     docs : SUBSET Uploads]

BlankScreen ==
    [pc |-> "idle", user |-> Nobody, business |-> Nobody, version |-> 0,
     docs |-> {}]

MaySee(u, b) ==
    \/ biz[b].owner = u
    \/ u \in Admins /\ biz[b].status # "draft"

\* ByID: the business, with its version.
ReadBusiness(d, u, b) ==
    /\ screen[d].pc # "reading" /\ MoreSaves
    /\ Exists(b) /\ MaySee(u, b)
    /\ screen' = [screen EXCEPT ![d] =
            [pc |-> "reading", user |-> u, business |-> b,
             version |-> biz[b].version, docs |-> {}]]
    /\ UNCHANGED <<biz, docs, mediaVars, upload, branches>>

\* documents.List, a later statement.
ReadDocuments(d) ==
    /\ screen[d].pc = "reading"
    /\ screen' = [screen EXCEPT ![d].pc = "seen",
                                ![d].docs = docs[screen[d].business]]
    /\ UNCHANGED <<biz, docs, mediaVars, upload, branches>>

\* Mutant: the version sent is not compared.
LockedUnchecked(d) == screen[d].pc = "seen"

\* update: the row is locked and still has the version the client sent.
VersionMatches(d) ==
    /\ screen[d].pc = "seen"
    /\ biz[screen[d].business].version = screen[d].version

\* Saves row as the next version of the business d shows; the page is done.
SaveBusiness(d, row) ==
    /\ MoreSaves
    /\ biz' = [biz EXCEPT ![screen[d].business] =
                    [row EXCEPT !.version = row.version + 1]]
    /\ screen' = [screen EXCEPT ![d] = BlankScreen]
    /\ UNCHANGED <<docs, mediaVars, upload, branches>>

\* New names: the version stands for what they were.
Rename(d) ==
    LET row == biz[screen[d].business] IN
    /\ VersionMatches(d)
    /\ screen[d].user = row.owner
    /\ Editable(row.status)
    /\ SaveBusiness(d, row)

\* Readiness: "a CR document and at least one branch on the map".
Ready(b) == docs[b] # {} /\ branches[b] > 0

Submit(d) ==
    LET b == screen[d].business IN
    /\ VersionMatches(d)
    /\ screen[d].user = biz[b].owner
    /\ Editable(biz[b].status)
    /\ Ready(b)
    /\ ~Claimed(b)
    /\ SaveBusiness(d, [biz[b] EXCEPT !.status = "pending_review"])

\* decide and canReview: an admin, not the owner, and only under review.
Decide(d, status) ==
    LET row == biz[screen[d].business] IN
    /\ VersionMatches(d)
    /\ screen[d].user \in Admins \ {row.owner}
    /\ row.status = "pending_review"
    /\ SaveBusiness(d, [row EXCEPT !.status = status, !.reviewedBy = screen[d].user])

Approve(d) == Decide(d, "active")

Reject(d) == Decide(d, "rejected")

-----------------------------------------------------------------------------
(* Uploading a document.                                                    *)

UploadSteps ==
    {"idle", "check", "put", "add", "attach", "done",
     "cleanup", "discard", "remove", "failed"}

UploadState ==
    [pc : UploadSteps, business : Businesses \cup {Nobody},
     status : Statuses \cup {"none"}]

NoUpload == [pc |-> "idle", business |-> Nobody, status |-> "none"]

InFlight(u) == upload[u].pc \notin {"idle", "done", "failed"}

To(u, pc) == upload' = [upload EXCEPT ![u].pc = pc]

\* CanAttachDocument.
CanAttach(status, existing) ==
    /\ Editable(status)
    /\ Cardinality(existing) < MaxVerificationDocuments

\* Upload by the owner: ByID, then List and the first check.
UploadRead(u, b) ==
    /\ upload[u] = NoUpload
    /\ Exists(b)
    /\ upload' = [upload EXCEPT ![u] =
            [pc |-> "check", business |-> b, status |-> biz[b].status]]
    /\ UNCHANGED <<biz, docs, mediaVars, branches, screen>>

UploadCheck(u) ==
    /\ upload[u].pc = "check"
    /\ To(u, IF CanAttach(upload[u].status, docs[upload[u].business])
                THEN "put" ELSE "failed")
    /\ UNCHANGED <<biz, docs, mediaVars, branches, screen>>

\* Store, first half: the bytes, under a fresh id.  What Put refuses leaves
\* nothing; a file found too large when it is written is to be removed.
PutFile(u) ==
    /\ upload[u].pc = "put"
    /\ \/ stored' = stored \cup {u} /\ (To(u, "add") \/ To(u, "cleanup"))
       \/ stored' = stored /\ To(u, "failed")
    /\ UNCHANGED <<biz, docs, objects, branches, screen>>

\* Mutant: what the insert says goes unread.
AddOutcomesUnread(u) ==
    {<<objects \cup {u}, "attach">>, <<objects, "attach">>}

\* Store, second half: the row is in, or the insert failed and the file is to
\* be removed.  An insert whose answer is lost is reported as failed.
AddOutcomes(u) ==
    {<<objects \cup {u}, "attach">>, <<objects, "cleanup">>}
        \cup (IF LostAnswers THEN {<<objects \cup {u}, "cleanup">>} ELSE {})

AddRow(u) ==
    /\ upload[u].pc = "add"
    /\ \E outcome \in AddOutcomes(u) : objects' = outcome[1] /\ To(u, outcome[2])
    /\ UNCHANGED <<biz, docs, stored, branches, screen>>

\* media's discard: removes the bytes, or logs that it could not.
Cleanup(u) ==
    /\ upload[u].pc = "cleanup"
    /\ stored' \in {stored, stored \ {u}}
    /\ To(u, "failed")
    /\ UNCHANGED <<biz, docs, objects, branches, screen>>

\* Mutant: attached on the strength of the first check.
AttachAllowedEarlier(u) == CanAttach(upload[u].status, {})

\* Attach's check, under the business's lock.
AttachAllowed(u) ==
    CanAttach(biz[upload[u].business].status, docs[upload[u].business])

\* What Upload makes of a committed Attach: its file is in use.  If the answer
\* of the commit is lost it takes the file for unused.
AttachOutcomes == {"done"} \cup (IF LostAnswers THEN {"discard"} ELSE {})

Attach(u) ==
    /\ upload[u].pc = "attach"
    /\ AttachAllowed(u)
    /\ docs' = [docs EXCEPT ![upload[u].business] = @ \cup {u}]
    /\ \E pc \in AttachOutcomes : To(u, pc)
    /\ UNCHANGED <<biz, mediaVars, branches, screen>>

\* Attach is refused, or its transaction fails: the file is discarded.
AttachFails(u) ==
    /\ upload[u].pc = "attach"
    /\ To(u, "discard")
    /\ UNCHANGED <<biz, docs, mediaVars, branches, screen>>

\* Mutant: Delete removes the bytes first.
DeleteBytes(u) ==
    /\ upload[u].pc = "discard"
    /\ stored' = stored \ {u} /\ To(u, "remove")
    /\ UNCHANGED <<biz, docs, objects, branches, screen>>

\* discard, Delete: "the row goes first"; if that fails the bytes stay too.
DeleteRow(u) ==
    /\ upload[u].pc = "discard"
    /\ \/ objects' = objects \ {u} /\ To(u, "remove")
       \/ objects' = objects /\ To(u, "failed")
    /\ UNCHANGED <<biz, docs, stored, branches, screen>>

RemoveFile(u) ==
    /\ upload[u].pc = "remove"
    /\ stored' \in {stored, stored \ {u}}
    /\ To(u, "failed")
    /\ UNCHANGED <<biz, docs, objects, branches, screen>>

\* The process dies in the middle of an upload.
Crash(u) ==
    /\ InFlight(u)
    /\ To(u, "failed")
    /\ UNCHANGED <<biz, docs, mediaVars, branches, screen>>

-----------------------------------------------------------------------------
\* Create and Add: the business is locked, its branches counted.
AddBranch(b) ==
    /\ Exists(b)
    /\ branches[b] < BranchLimit
    /\ branches' = [branches EXCEPT ![b] = @ + 1]
    /\ UNCHANGED <<biz, docs, mediaVars, upload, screen>>

-----------------------------------------------------------------------------
Init ==
    /\ biz = [b \in Businesses |-> NoBusiness]
    /\ docs = [b \in Businesses |-> {}]
    /\ objects = {}
    /\ stored = {}
    /\ upload = [u \in Uploads |-> NoUpload]
    /\ branches = [b \in Businesses |-> 0]
    /\ screen = [d \in Screens |-> BlankScreen]

Registering ==
    \/ \E b \in Businesses, u \in Users, c \in CRs : RegisterCount(b, u, c)
    \/ \E b \in Businesses : RegisterInsert(b) \/ RegisterAbort(b)

Reviewing ==
    \E d \in Screens :
        \/ \E u \in Users, b \in Businesses : ReadBusiness(d, u, b)
        \/ ReadDocuments(d)
        \/ Rename(d)
        \/ Submit(d)
        \/ Approve(d)
        \/ Reject(d)

Uploading ==
    \E u \in Uploads :
        \/ \E b \in Businesses : UploadRead(u, b)
        \/ UploadCheck(u)
        \/ PutFile(u)
        \/ AddRow(u)
        \/ Cleanup(u)
        \/ Attach(u)
        \/ AttachFails(u)
        \/ DeleteRow(u)
        \/ RemoveFile(u)
        \/ Crash(u)

Next ==
    \/ Registering
    \/ Reviewing
    \/ Uploading
    \/ \E b \in Businesses : AddBranch(b)

Spec == Init /\ [][Next]_vars

-----------------------------------------------------------------------------
TypeOK ==
    /\ biz \in [Businesses -> BusinessRow]
    /\ docs \in [Businesses -> SUBSET Uploads]
    /\ objects \subseteq Uploads
    /\ stored \subseteq Uploads
    /\ upload \in [Uploads -> UploadState]
    /\ branches \in [Businesses -> 0 .. BranchLimit]
    /\ screen \in [Screens -> Screen]

\* A user never has more unapproved businesses than allowed, however many
\* registrations race: they take turns on the owner's advisory lock.
RegistrationsBounded ==
    \A u \in Users : Cardinality(OpenRegistrations(u)) <= MaxOpenRegistrations

\* Two businesses never hold one CR number at once: submitting claims it
\* platform-wide, and a rejection gives it back.
OneClaimPerCR ==
    \A b, c \in Businesses :
        /\ Claiming(biz[b].status) /\ Claiming(biz[c].status)
        /\ biz[b].cr = biz[c].cr
        => b = c

\* A business is approved by an admin, not its owner, whose page showed
\* exactly the documents it has: the page is two reads, of the row and of the
\* documents, and only the row has a version.
ApprovedAsSeen ==
    [][\A b \in Businesses :
          biz[b].status # "active" /\ biz'[b].status = "active" =>
            \E d \in Screens :
                /\ screen[d].business = b
                /\ screen[d].user \in Admins \ {biz[b].owner}
                /\ screen[d].docs = docs[b]]_vars

\* What was submitted stays as submitted: no document is added while the
\* business is under review or after, although the upload began before.
FrozenUnderReview ==
    [][\A b \in Businesses : Claiming(biz[b].status) => docs'[b] = docs[b]]_vars

\* A business under review or approved has what the reviewer needs.
ReviewedComplete ==
    \A b \in Businesses : Claiming(biz[b].status) => docs[b] # {} /\ branches[b] > 0

\* Store and Delete leave "never a row pointing at nothing", whatever crashes or
\* fails between the two stores, as long as the database's answer to the insert
\* arrives: Store takes a lost answer for a failed insert and removes the bytes.
RowsHaveFiles == objects \subseteq stored

\* What that costs at most: a row is without its file only after an answer was
\* lost, its uploader was told that the upload failed, and no business has a
\* document that points at it.
MissingFilesUnused ==
    \A u \in objects \ stored :
        /\ LostAnswers
        /\ upload[u].pc = "failed"
        /\ \A b \in Businesses : u \notin docs[b]

\* discard: only a file that nothing links to is deleted, so every document
\* of a business can be opened.
DocumentsHaveFiles ==
    \A b \in Businesses : docs[b] \subseteq objects \cap stored

\* Where an answer may be lost, that much of it holds: a document whose row or
\* file is gone is one whose uploader was told, for want of the answer to the
\* commit, that the upload failed; what was reported as attached can be opened.
DocumentsAreThere ==
    \A b \in Businesses : \A u \in docs[b] \ (objects \cap stored) :
        LostAnswers /\ upload[u].pc \in {"remove", "failed"}

=============================================================================
