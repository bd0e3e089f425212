-------------------------- MODULE OnboardingProofs --------------------------
(***************************************************************************)
(* What holds of onboarding for any number of businesses, pages and        *)
(* uploads: types, the documents and the files behind them, the claim on a *)
(* CR number, and that an admin approves what the admin has seen.          *)
(***************************************************************************)
EXTENDS Onboarding, FiniteSetTheorems, TLAPS

\* A page that shows something shows a business that exists, at a version it
\* has or had.
ScreensShow ==
    \A d \in Screens :
        screen[d].pc # "idle" =>
            /\ screen[d].business \in Businesses
            /\ Exists(screen[d].business)
            /\ screen[d].version <= biz[screen[d].business].version

\* An upload that has begun is to some business.
UploadsBelong ==
    \A u \in Uploads : upload[u].pc # "idle" => upload[u].business \in Businesses

Inv == TypeOK /\ ScreensShow /\ UploadsBelong

-----------------------------------------------------------------------------
\* What SaveBusiness makes of a row that differs in status and reviewer.
LEMMA SavedRow ==
    ASSUME Inv, NEW d \in Screens, VersionMatches(d),
           NEW row \in BusinessRow, row.status \in Statuses,
           row.version = biz[screen[d].business].version,
           SaveBusiness(d, row)
    PROVE  Inv'
<1> DEFINE b == screen[d].business
<1>1. b \in Businesses /\ Exists(b) /\ screen \in [Screens -> Screen]
  BY DEF Inv, ScreensShow, VersionMatches, TypeOK
<1>2. [row EXCEPT !.version = row.version + 1] \in BusinessRow
  BY DEF BusinessRow
<1>3. biz' = [biz EXCEPT ![b] = [row EXCEPT !.version = row.version + 1]]
  BY DEF SaveBusiness
<1>4. BlankScreen \in Screen /\ BlankScreen.pc = "idle"
  BY DEF BlankScreen, Screen
<1>5. TypeOK'
  BY <1>1, <1>2, <1>3, <1>4 DEF Inv, TypeOK, SaveBusiness, mediaVars
<1>6. UploadsBelong'
  BY DEF Inv, UploadsBelong, SaveBusiness
<1>7. biz'[b].status \in Statuses /\ biz'[b].version = biz[b].version + 1
  BY <1>1, <1>3 DEF Inv, TypeOK, BusinessRow
<1>8. ScreensShow'
  <2> SUFFICES ASSUME NEW e \in Screens, screen'[e].pc # "idle"
               PROVE  /\ screen'[e].business \in Businesses
                      /\ biz'[screen'[e].business].status \in Statuses
                      /\ screen'[e].version <= biz'[screen'[e].business].version
    BY DEF ScreensShow, Exists
  <2>1. e # d /\ screen'[e] = screen[e]
    BY <1>1, <1>4 DEF SaveBusiness
  <2>2. /\ screen[e].business \in Businesses
        /\ Exists(screen[e].business)
        /\ screen[e].version <= biz[screen[e].business].version
    BY <2>1 DEF Inv, ScreensShow
  <2>3. CASE screen[e].business = b
    <3>1. screen[e].version \in Nat /\ biz[b].version \in Nat
      BY <1>1 DEF Screen, Inv, TypeOK, BusinessRow
    <3> QED BY <2>1, <2>2, <2>3, <3>1, <1>7
  <2>4. CASE screen[e].business # b
    BY <2>1, <2>2, <2>4, <1>3, <1>1 DEF Exists, Inv, TypeOK
  <2> QED BY <2>3, <2>4
<1> QED BY <1>5, <1>6, <1>8 DEF Inv

\* What the four changes of a business have in common: the row they save.
LEMMA Saves ==
    ASSUME Inv, NEW d \in Screens, Rename(d) \/ Submit(d) \/ Approve(d) \/ Reject(d)
    PROVE  \E row \in BusinessRow :
              LET old == biz[screen[d].business] IN
              /\ VersionMatches(d)
              /\ SaveBusiness(d, row)
              /\ row.status \in Statuses
              /\ row.version = old.version /\ row.cr = old.cr /\ row.owner = old.owner
              /\ screen[d].business \in Businesses
              /\ \/ row.status = old.status /\ Editable(old.status)
                 \/ /\ row.status = "pending_review" /\ Editable(old.status)
                    /\ Ready(screen[d].business) /\ ~Claimed(screen[d].business)
                 \/ /\ row.status = "active" /\ old.status = "pending_review"
                    /\ screen[d].user \in Admins \ {old.owner}
                 \/ row.status = "rejected" /\ old.status = "pending_review"
<1> DEFINE old == biz[screen[d].business]
<1>1. VersionMatches(d)
  BY DEF Rename, Submit, Approve, Reject, Decide
<1>2. screen[d].business \in Businesses /\ old \in BusinessRow /\ old.status \in Statuses
  BY <1>1 DEF VersionMatches, Inv, ScreensShow, Exists, TypeOK
<1>3. CASE Rename(d)
  BY <1>1, <1>2, <1>3 DEF Rename
<1>4. CASE Submit(d)
  <2> DEFINE row == [old EXCEPT !.status = "pending_review"]
  <2>1. row \in BusinessRow /\ row.status = "pending_review" /\ row.version = old.version
        /\ row.cr = old.cr /\ row.owner = old.owner
    BY <1>2 DEF BusinessRow, Statuses
  <2> QED BY <1>1, <1>2, <1>4, <2>1 DEF Submit, Statuses
<1>5. ASSUME NEW status \in {"active", "rejected"}, Decide(d, status)
      PROVE  \E row \in BusinessRow :
                /\ SaveBusiness(d, row) /\ row.status = status
                /\ row.version = old.version /\ row.cr = old.cr /\ row.owner = old.owner
                /\ old.status = "pending_review"
                /\ screen[d].user \in Admins \ {old.owner}
  <2> DEFINE row == [old EXCEPT !.status = status, !.reviewedBy = screen[d].user]
  <2>1. screen[d].user \in Users
    BY <1>5, OnboardingAssumption DEF Decide
  <2>2. row \in BusinessRow /\ row.status = status /\ row.version = old.version
        /\ row.cr = old.cr /\ row.owner = old.owner
    BY <1>2, <2>1 DEF BusinessRow, Statuses
  <2> QED BY <1>5, <2>2 DEF Decide
<1>6. CASE Approve(d)
  BY <1>1, <1>2, <1>5, <1>6 DEF Approve, Statuses
<1>7. CASE Reject(d)
  BY <1>1, <1>2, <1>5, <1>7 DEF Reject, Statuses
<1> QED BY <1>3, <1>4, <1>6, <1>7

\* Registering touches one row that nobody else can see yet.
LEMMA RegisteringInv ==
    ASSUME Inv, Registering
    PROVE  Inv'
<1>1. /\ \E b \in Businesses, row \in BusinessRow :
            biz[b].status \notin Statuses /\ biz' = [biz EXCEPT ![b] = row]
      /\ UNCHANGED <<docs, mediaVars, upload, branches, screen>>
  <2>1. ASSUME NEW b \in Businesses, NEW u \in Users, NEW c \in CRs, RegisterCount(b, u, c)
        PROVE  \E row \in BusinessRow :
                  biz[b].status \notin Statuses /\ biz' = [biz EXCEPT ![b] = row]
    <3> DEFINE row == [status |-> "inserting", owner |-> u,
                       cr |-> c, version |-> 1, reviewedBy |-> Nobody]
    <3>1. row \in BusinessRow
      BY DEF BusinessRow
    <3>2. biz[b].status \notin Statuses
      BY <2>1 DEF RegisterCount, NoBusiness, Statuses
    <3> QED BY <2>1, <3>1, <3>2 DEF RegisterCount
  <2>2. ASSUME NEW b \in Businesses, RegisterInsert(b)
        PROVE  \E row \in BusinessRow :
                  biz[b].status \notin Statuses /\ biz' = [biz EXCEPT ![b] = row]
    <3> DEFINE row == [biz[b] EXCEPT !.status = "draft"]
    <3>1. row \in BusinessRow
      BY DEF Inv, TypeOK, BusinessRow, Statuses
    <3> QED BY <2>2, <3>1 DEF RegisterInsert, Statuses
  <2>3. ASSUME NEW b \in Businesses, RegisterAbort(b)
        PROVE  \E row \in BusinessRow :
                  biz[b].status \notin Statuses /\ biz' = [biz EXCEPT ![b] = row]
    <3>1. NoBusiness \in BusinessRow
      BY DEF NoBusiness, BusinessRow
    <3> QED BY <2>3, <3>1 DEF RegisterAbort, Statuses
  <2>4. UNCHANGED <<docs, mediaVars, upload, branches, screen>>
    BY DEF Registering, RegisterCount, RegisterInsert, RegisterAbort
  <2> QED BY <2>1, <2>2, <2>3, <2>4 DEF Registering
<1>2. PICK b \in Businesses, row \in BusinessRow :
          biz[b].status \notin Statuses /\ biz' = [biz EXCEPT ![b] = row]
  BY <1>1
<1>3. TypeOK'
  BY <1>1, <1>2 DEF Inv, TypeOK, mediaVars
<1>4. \A c \in Businesses : Exists(c) => biz'[c] = biz[c]
  BY <1>2 DEF Exists, Inv, TypeOK
<1>5. ScreensShow'
  <2> SUFFICES ASSUME NEW d \in Screens, screen[d].pc # "idle"
               PROVE  /\ screen[d].business \in Businesses
                      /\ biz'[screen[d].business].status \in Statuses
                      /\ screen[d].version <= biz'[screen[d].business].version
    BY <1>1 DEF ScreensShow, Exists
  <2> QED BY <1>4 DEF Inv, ScreensShow, Exists
<1>6. UploadsBelong'
  BY <1>1 DEF Inv, UploadsBelong
<1> QED BY <1>3, <1>5, <1>6 DEF Inv

\* A page reads, and changes nothing.
LEMMA ReadingInv ==
    ASSUME Inv, NEW d \in Screens,
           (\E u \in Users, b \in Businesses : ReadBusiness(d, u, b)) \/ ReadDocuments(d)
    PROVE  Inv' /\ UNCHANGED <<biz, docs, mediaVars, upload, branches>>
<1>1. UNCHANGED <<biz, docs, mediaVars, upload, branches>>
  BY DEF ReadBusiness, ReadDocuments
<1>2. \E page \in Screen :
          /\ screen' = [screen EXCEPT ![d] = page]
          /\ page.business \in Businesses /\ Exists(page.business)
          /\ page.version <= biz[page.business].version
  <2>1. ASSUME NEW u \in Users, NEW b \in Businesses, ReadBusiness(d, u, b)
        PROVE  \E page \in Screen :
                  /\ screen' = [screen EXCEPT ![d] = page]
                  /\ page.business \in Businesses /\ Exists(page.business)
                  /\ page.version <= biz[page.business].version
    <3> DEFINE page == [pc |-> "reading", user |-> u, business |-> b,
                        version |-> biz[b].version, docs |-> {}]
    <3>1. page \in Screen /\ biz[b].version \in Nat
      BY DEF Screen, Inv, TypeOK, BusinessRow
    <3>2. page.business = b /\ page.version = biz[b].version
      OBVIOUS
    <3>3. Exists(b) /\ screen' = [screen EXCEPT ![d] = page]
      BY <2>1 DEF ReadBusiness
    <3> HIDE DEF page
    <3>4. page.version <= biz[page.business].version
      BY <3>1, <3>2
    <3> QED BY <3>1, <3>2, <3>3, <3>4
  <2>2. ASSUME ReadDocuments(d)
        PROVE  \E page \in Screen :
                  /\ screen' = [screen EXCEPT ![d] = page]
                  /\ page.business \in Businesses /\ Exists(page.business)
                  /\ page.version <= biz[page.business].version
    <3> DEFINE page == [screen[d] EXCEPT !.pc = "seen", !.docs = docs[screen[d].business]]
    <3>1. screen[d] \in Screen /\ screen[d].business \in Businesses
          /\ Exists(screen[d].business)
          /\ screen[d].version <= biz[screen[d].business].version
          /\ docs[screen[d].business] \in SUBSET Uploads
      BY <2>2 DEF ReadDocuments, Inv, TypeOK, ScreensShow
    <3>2. page \in Screen /\ page.business = screen[d].business
          /\ page.version = screen[d].version
      BY <3>1 DEF Screen
    <3>3. screen' = [screen EXCEPT ![d] = page]
      BY <2>2 DEF ReadDocuments, Inv, TypeOK
    <3> QED BY <3>1, <3>2, <3>3
  <2> QED BY <2>1, <2>2
<1>3. TypeOK'
  BY <1>1, <1>2 DEF Inv, TypeOK, mediaVars
<1>4. ScreensShow'
  <2> SUFFICES ASSUME NEW e \in Screens, screen'[e].pc # "idle"
               PROVE  /\ screen'[e].business \in Businesses
                      /\ Exists(screen'[e].business)
                      /\ screen'[e].version <= biz[screen'[e].business].version
    BY <1>1 DEF ScreensShow, Exists
  <2> QED BY <1>2 DEF Inv, TypeOK, ScreensShow
<1>5. UploadsBelong'
  BY <1>1 DEF Inv, UploadsBelong
<1> QED BY <1>1, <1>3, <1>4, <1>5 DEF Inv

\* A step of an upload changes its own place, its own file and row, and only
\* Attach changes a business's documents.
LEMMA UploadStep ==
    ASSUME Inv, NEW u \in Uploads,
           \/ \E b \in Businesses : UploadRead(u, b)
           \/ UploadCheck(u) \/ PutFile(u) \/ AddRow(u) \/ Cleanup(u) \/ Attach(u)
           \/ AttachFails(u) \/ DeleteRow(u) \/ RemoveFile(u) \/ Crash(u)
    PROVE  /\ \E place \in UploadState :
                 /\ upload' = [upload EXCEPT ![u] = place]
                 /\ place.business \in Businesses
           /\ \E x \in SUBSET {u} :
                 objects' = objects \cup x \/ objects' = objects \ x
           /\ \E x \in SUBSET {u} :
                 stored' = stored \cup x \/ stored' = stored \ x
           /\ docs' = docs \/ Attach(u)
           /\ UNCHANGED <<biz, branches, screen>>
<1>1. UNCHANGED <<biz, branches, screen>>
  BY DEF UploadRead, UploadCheck, PutFile, AddRow, Cleanup, Attach, AttachFails,
         DeleteRow, RemoveFile, Crash
<1>2. docs' = docs \/ Attach(u)
  BY DEF UploadRead, UploadCheck, PutFile, AddRow, Cleanup, AttachFails,
         DeleteRow, RemoveFile, Crash
<1>3. \E x \in SUBSET {u} : objects' = objects \cup x \/ objects' = objects \ x
  <2>1. objects' = objects \/ objects' = objects \cup {u} \/ objects' = objects \ {u}
    BY DEF UploadRead, UploadCheck, PutFile, AddRow, AddOutcomes, Cleanup, Attach,
           AttachFails, DeleteRow, RemoveFile, Crash, mediaVars
  <2>2. objects' = objects \cup {} \/ objects' = objects \cup {u} \/ objects' = objects \ {u}
    BY <2>1
  <2>3. {} \in SUBSET {u} /\ {u} \in SUBSET {u}
    OBVIOUS
  <2> QED BY <2>2, <2>3
<1>4. \E x \in SUBSET {u} : stored' = stored \cup x \/ stored' = stored \ x
  <2>1. stored' = stored \/ stored' = stored \cup {u} \/ stored' = stored \ {u}
    BY DEF UploadRead, UploadCheck, PutFile, AddRow, Cleanup, Attach,
           AttachFails, DeleteRow, RemoveFile, Crash, mediaVars
  <2>2. stored' = stored \cup {} \/ stored' = stored \cup {u} \/ stored' = stored \ {u}
    BY <2>1
  <2>3. {} \in SUBSET {u} /\ {u} \in SUBSET {u}
    OBVIOUS
  <2> QED BY <2>2, <2>3
<1>5. \E place \in UploadState :
          upload' = [upload EXCEPT ![u] = place] /\ place.business \in Businesses
  <2>1. ASSUME NEW b \in Businesses, UploadRead(u, b)
        PROVE  \E place \in UploadState :
                  upload' = [upload EXCEPT ![u] = place] /\ place.business \in Businesses
    <3> DEFINE place == [pc |-> "check", business |-> b, status |-> biz[b].status]
    <3>1. place \in UploadState /\ place.business \in Businesses
      BY <2>1 DEF UploadState, UploadSteps, UploadRead, Exists
    <3> QED BY <2>1, <3>1 DEF UploadRead
  <2>2. ASSUME NEW pc \in UploadSteps, To(u, pc), upload[u].pc # "idle"
        PROVE  \E place \in UploadState :
                  upload' = [upload EXCEPT ![u] = place] /\ place.business \in Businesses
    <3> DEFINE place == [upload[u] EXCEPT !.pc = pc]
    <3>1. place \in UploadState /\ place.business \in Businesses
      BY <2>2 DEF Inv, TypeOK, UploadsBelong, UploadState
    <3> QED BY <2>2, <3>1 DEF To
  <2>3. ASSUME UploadCheck(u) \/ PutFile(u) \/ AddRow(u) \/ Cleanup(u) \/ Attach(u)
               \/ AttachFails(u) \/ DeleteRow(u) \/ RemoveFile(u) \/ Crash(u)
        PROVE  upload[u].pc # "idle" /\ \E pc \in UploadSteps : To(u, pc)
    BY <2>3 DEF UploadCheck, PutFile, AddRow, AddOutcomes, Cleanup, Attach, AttachOutcomes,
           AttachFails, DeleteRow, RemoveFile, Crash, InFlight, UploadSteps
  <2> QED BY <2>1, <2>2, <2>3
<1> QED BY <1>1, <1>2, <1>3, <1>4, <1>5

LEMMA UploadingInv ==
    ASSUME Inv, Uploading
    PROVE  Inv' /\ UNCHANGED <<biz, branches, screen>>
<1>1. PICK u \in Uploads :
           \/ \E b \in Businesses : UploadRead(u, b)
           \/ UploadCheck(u) \/ PutFile(u) \/ AddRow(u) \/ Cleanup(u) \/ Attach(u)
           \/ AttachFails(u) \/ DeleteRow(u) \/ RemoveFile(u) \/ Crash(u)
  BY DEF Uploading
<1>2. PICK place \in UploadState :
           upload' = [upload EXCEPT ![u] = place] /\ place.business \in Businesses
  BY <1>1, UploadStep
<1>3. UNCHANGED <<biz, branches, screen>> /\ (docs' = docs \/ Attach(u))
  BY <1>1, UploadStep
<1>4. objects' \subseteq Uploads
  <2>1. PICK x \in SUBSET {u} : objects' = objects \cup x \/ objects' = objects \ x
    BY <1>1, UploadStep
  <2>2. objects \subseteq Uploads
    BY DEF Inv, TypeOK
  <2> QED BY <2>1, <2>2
<1>5. stored' \subseteq Uploads
  <2>1. PICK x \in SUBSET {u} : stored' = stored \cup x \/ stored' = stored \ x
    BY <1>1, UploadStep
  <2>2. stored \subseteq Uploads
    BY DEF Inv, TypeOK
  <2> QED BY <2>1, <2>2
<1>6. docs' \in [Businesses -> SUBSET Uploads]
  BY <1>3 DEF Inv, TypeOK, Attach
<1>7. TypeOK'
  BY <1>2, <1>3, <1>4, <1>5, <1>6 DEF Inv, TypeOK
<1>8. ScreensShow'
  BY <1>3 DEF Inv, ScreensShow, Exists
<1>9. UploadsBelong'
  BY <1>2 DEF Inv, TypeOK, UploadsBelong
<1> QED BY <1>3, <1>7, <1>8, <1>9 DEF Inv

LEMMA AddBranchInv ==
    ASSUME Inv, NEW b \in Businesses, AddBranch(b)
    PROVE  Inv'
<1>1. branches' \in [Businesses -> 0 .. BranchLimit]
  BY OnboardingAssumption DEF Inv, TypeOK, AddBranch
<1> QED BY <1>1 DEF Inv, TypeOK, ScreensShow, UploadsBelong, Exists, AddBranch, mediaVars

LEMMA InvInit == Init => Inv
<1> SUFFICES ASSUME Init PROVE Inv
  OBVIOUS
<1>1. NoBusiness \in BusinessRow /\ NoUpload \in UploadState /\ BlankScreen \in Screen
  BY DEF NoBusiness, BusinessRow, NoUpload, UploadState, UploadSteps, BlankScreen, Screen
<1>2. NoUpload.pc = "idle" /\ BlankScreen.pc = "idle"
  BY DEF NoUpload, BlankScreen
<1> QED BY <1>1, <1>2, OnboardingAssumption DEF Init, Inv, TypeOK, ScreensShow, UploadsBelong

LEMMA InvNext == Inv /\ [Next]_vars => Inv'
<1> SUFFICES ASSUME Inv, [Next]_vars PROVE Inv'
  OBVIOUS
<1>1. CASE Registering
  BY <1>1, RegisteringInv
<1>2. CASE Reviewing
  <2>1. PICK d \in Screens :
            \/ (\E u \in Users, b \in Businesses : ReadBusiness(d, u, b)) \/ ReadDocuments(d)
            \/ Rename(d) \/ Submit(d) \/ Approve(d) \/ Reject(d)
    BY <1>2 DEF Reviewing
  <2>2. CASE (\E u \in Users, b \in Businesses : ReadBusiness(d, u, b)) \/ ReadDocuments(d)
    BY <2>2, ReadingInv
  <2>3. CASE Rename(d) \/ Submit(d) \/ Approve(d) \/ Reject(d)
    BY <2>3, Saves, SavedRow
  <2> QED BY <2>1, <2>2, <2>3
<1>3. CASE Uploading
  BY <1>3, UploadingInv
<1>4. CASE \E b \in Businesses : AddBranch(b)
  BY <1>4, AddBranchInv
<1>5. CASE UNCHANGED vars
  BY <1>5 DEF vars, mediaVars, Inv, TypeOK, ScreensShow, UploadsBelong, Exists
<1> QED BY <1>1, <1>2, <1>3, <1>4, <1>5 DEF Next

\* Every reachable state of a business, its documents, its pages and its
\* uploads has the types the code gives them.
THEOREM TypeCorrect == Spec => []TypeOK
<1>1. Spec => []Inv
  BY InvInit, InvNext, PTL DEF Spec
<1>2. Inv => TypeOK
  BY DEF Inv
<1> QED BY <1>1, <1>2, PTL

LEMMA InvAlways == Spec => []Inv
  BY InvInit, InvNext, PTL DEF Spec

-----------------------------------------------------------------------------
(* What a step may do to the businesses and to their documents.            *)

\* A change saved from page d: row, as Saves describes it.
SavedFrom(d, row) ==
    LET b == screen[d].business
        old == biz[b]
    IN  /\ VersionMatches(d)
        /\ b \in Businesses
        /\ biz' = [biz EXCEPT ![b] = [row EXCEPT !.version = row.version + 1]]
        /\ screen' = [screen EXCEPT ![d] = BlankScreen]
        /\ UNCHANGED <<docs, branches>>
        /\ row.version = old.version /\ row.cr = old.cr /\ row.owner = old.owner
        /\ \/ row.status = old.status /\ Editable(old.status)
           \/ /\ row.status = "pending_review" /\ Editable(old.status)
              /\ Ready(b) /\ ~Claimed(b)
           \/ /\ row.status = "active" /\ old.status = "pending_review"
              /\ screen[d].user \in Admins \ {old.owner}
           \/ row.status = "rejected" /\ old.status = "pending_review"

\* A row of a registration: b is or was seen by its own transaction only.
Unregistered(b) ==
    /\ biz[b].status \notin Statuses
    /\ biz'[b].status \in {"none", "inserting", "draft"}
    /\ \A c \in Businesses \ {b} : biz'[c] = biz[c]
    /\ UNCHANGED <<docs, branches, screen>>

LEMMA SavedOnly ==
    ASSUME Inv, [Next]_vars, ~Registering
    PROVE  biz' = biz \/ \E d \in Screens, row \in BusinessRow : SavedFrom(d, row)
<1>1. CASE Reviewing
  <2>1. PICK d \in Screens :
            \/ (\E u \in Users, b \in Businesses : ReadBusiness(d, u, b)) \/ ReadDocuments(d)
            \/ Rename(d) \/ Submit(d) \/ Approve(d) \/ Reject(d)
    BY <1>1 DEF Reviewing
  <2>2. CASE (\E u \in Users, b \in Businesses : ReadBusiness(d, u, b)) \/ ReadDocuments(d)
    BY <2>2, ReadingInv
  <2>3. CASE Rename(d) \/ Submit(d) \/ Approve(d) \/ Reject(d)
    <3>1. PICK row \in BusinessRow :
              LET old == biz[screen[d].business] IN
              /\ VersionMatches(d)
              /\ SaveBusiness(d, row)
              /\ row.status \in Statuses
              /\ row.version = old.version /\ row.cr = old.cr /\ row.owner = old.owner
              /\ screen[d].business \in Businesses
              /\ \/ row.status = old.status /\ Editable(old.status)
                 \/ /\ row.status = "pending_review" /\ Editable(old.status)
                    /\ Ready(screen[d].business) /\ ~Claimed(screen[d].business)
                 \/ /\ row.status = "active" /\ old.status = "pending_review"
                    /\ screen[d].user \in Admins \ {old.owner}
                 \/ row.status = "rejected" /\ old.status = "pending_review"
      BY <2>3, Saves
    <3> QED BY <3>1 DEF SavedFrom, SaveBusiness
  <2> QED BY <2>1, <2>2, <2>3
<1>2. CASE Uploading
  BY <1>2, UploadingInv
<1>3. CASE \E b \in Businesses : AddBranch(b)
  BY <1>3 DEF AddBranch
<1>4. CASE UNCHANGED vars
  BY <1>4 DEF vars
<1> QED BY <1>1, <1>2, <1>3, <1>4 DEF Next

LEMMA BusinessStep ==
    ASSUME Inv, [Next]_vars
    PROVE  \/ biz' = biz
           \/ \E b \in Businesses : Unregistered(b)
           \/ \E d \in Screens, row \in BusinessRow : SavedFrom(d, row)
<1>1. CASE Registering
  <2>1. ASSUME NEW b \in Businesses, NEW u \in Users, NEW c \in CRs, RegisterCount(b, u, c)
        PROVE  Unregistered(b)
    BY <2>1 DEF RegisterCount, NoBusiness, Statuses, Unregistered, Inv, TypeOK
  <2>2. ASSUME NEW b \in Businesses, RegisterInsert(b)
        PROVE  Unregistered(b)
    BY <2>2 DEF RegisterInsert, Statuses, Unregistered, Inv, TypeOK, BusinessRow
  <2>3. ASSUME NEW b \in Businesses, RegisterAbort(b)
        PROVE  Unregistered(b)
    BY <2>3 DEF RegisterAbort, NoBusiness, Statuses, Unregistered, Inv, TypeOK
  <2> QED BY <1>1, <2>1, <2>2, <2>3 DEF Registering
<1> QED BY <1>1, SavedOnly

\* Documents and branches are only ever added, a document only by Attach.
LEMMA AttachStep ==
    ASSUME Inv, NEW u \in Uploads, Attach(u)
    PROVE  LET b == upload[u].business IN
           /\ b \in Businesses /\ Editable(biz[b].status)
           /\ docs'[b] = docs[b] \cup {u}
           /\ \A c \in Businesses \ {b} : docs'[c] = docs[c]
           /\ UNCHANGED <<biz, screen, branches>>
<1>1. upload[u].business \in Businesses
  BY DEF Inv, UploadsBelong, Attach
<1> QED BY <1>1 DEF Inv, TypeOK, Attach, AttachAllowed, CanAttach

LEMMA DocsStep ==
    ASSUME Inv, [Next]_vars
    PROVE  docs' = docs \/ \E u \in Uploads : Attach(u)
<1>1. CASE Registering
  BY <1>1 DEF Registering, RegisterCount, RegisterInsert, RegisterAbort
<1>2. CASE Reviewing
  BY <1>2 DEF Reviewing, ReadBusiness, ReadDocuments, Rename, Submit, Approve, Reject,
              Decide, SaveBusiness
<1>3. CASE Uploading
  BY <1>3 DEF Uploading, UploadRead, UploadCheck, PutFile, AddRow, Cleanup, AttachFails,
              DeleteRow, RemoveFile, Crash
<1>4. CASE \E b \in Businesses : AddBranch(b)
  BY <1>4 DEF AddBranch
<1>5. CASE UNCHANGED vars
  BY <1>5 DEF vars
<1> QED BY <1>1, <1>2, <1>3, <1>4, <1>5 DEF Next

\* What was submitted stays as submitted, for any number of uploads begun
\* before: Attach looks at the status again, under the business's lock.
THEOREM SubmittedStaysSubmitted == Spec => FrozenUnderReview
<1>1. ASSUME Inv, [Next]_vars, NEW b \in Businesses, Claiming(biz[b].status)
      PROVE  docs'[b] = docs[b]
  <2>1. CASE docs' = docs
    BY <2>1
  <2>2. ASSUME NEW u \in Uploads, Attach(u)
        PROVE  docs'[b] = docs[b]
    BY <1>1, <2>2, AttachStep DEF Claiming, Editable
  <2> QED BY <1>1, <2>1, <2>2, DocsStep
<1>2. Inv /\ [Next]_vars =>
          [\A b \in Businesses : Claiming(biz[b].status) => docs'[b] = docs[b]]_vars
  BY <1>1
<1> QED BY <1>2, InvAlways, PTL DEF Spec, FrozenUnderReview

-----------------------------------------------------------------------------
\* The row a save leaves.
LEMMA SavedFields ==
    ASSUME Inv, NEW d \in Screens, NEW row \in BusinessRow, SavedFrom(d, row)
    PROVE  LET b == screen[d].business IN
           /\ b \in Businesses
           /\ biz'[b].status = row.status /\ biz'[b].cr = biz[b].cr
           /\ biz'[b].version = biz[b].version + 1
           /\ biz[b].version \in Nat
           /\ \A c \in Businesses \ {b} : biz'[c] = biz[c]
  BY DEF SavedFrom, Inv, TypeOK, BusinessRow

LEMMA ClaimStep == Inv /\ OneClaimPerCR /\ [Next]_vars => OneClaimPerCR'
<1> SUFFICES ASSUME Inv, OneClaimPerCR, [Next]_vars,
                    NEW b \in Businesses, NEW c \in Businesses, b # c,
                    Claiming(biz'[b].status), Claiming(biz'[c].status),
                    biz'[b].cr = biz'[c].cr
             PROVE  FALSE
  BY DEF OneClaimPerCR, Claiming
<1>1. CASE biz' = biz
  BY <1>1 DEF OneClaimPerCR
<1>2. ASSUME NEW x \in Businesses, Unregistered(x) PROVE FALSE
  BY <1>2 DEF Unregistered, OneClaimPerCR, Claiming
<1>3. ASSUME NEW d \in Screens, NEW row \in BusinessRow, SavedFrom(d, row) PROVE FALSE
  <2> DEFINE x == screen[d].business
  <2>1. /\ x \in Businesses
        /\ biz'[x].status = row.status /\ biz'[x].cr = biz[x].cr
        /\ \A y \in Businesses \ {x} : biz'[y] = biz[y]
    BY <1>3, SavedFields
  <2>2. CASE Claiming(biz[x].status)
    BY <2>1, <2>2 DEF OneClaimPerCR
  <2>3. CASE ~Claiming(biz[x].status) /\ (x = b \/ x = c)
    <3>1. Claiming(row.status)
      BY <2>1, <2>3
    <3>2. ~Claimed(x)
      BY <1>3, <2>3, <3>1 DEF SavedFrom, Claiming, Editable
    <3> QED BY <2>1, <2>3, <3>2 DEF Claimed
  <2>4. CASE x # b /\ x # c
    BY <2>1, <2>4 DEF OneClaimPerCR
  <2> QED BY <2>2, <2>3, <2>4
<1> QED BY <1>1, <1>2, <1>3, BusinessStep

\* Two businesses never hold one CR number at once, however many submit: the
\* partial unique index is consulted where the status changes.
THEOREM CRClaimedOnce == Spec => []OneClaimPerCR
<1>1. Init => OneClaimPerCR
  BY DEF Init, OneClaimPerCR, NoBusiness, Claiming
<1> QED BY <1>1, ClaimStep, InvAlways, PTL DEF Spec

LEMMA CompleteStep == Inv /\ ReviewedComplete /\ [Next]_vars => ReviewedComplete'
<1> SUFFICES ASSUME Inv, ReviewedComplete, [Next]_vars,
                    NEW b \in Businesses, Claiming(biz'[b].status)
             PROVE  docs'[b] # {} /\ branches'[b] > 0
  BY DEF ReviewedComplete, Claiming
<1>1. CASE biz' = biz
  <2>1. docs[b] # {} /\ branches[b] > 0
    BY <1>1 DEF ReviewedComplete
  <2>2. docs'[b] = docs[b]
    <3>1. ASSUME NEW u \in Uploads, Attach(u)
          PROVE  docs'[b] = docs[b]
      BY <1>1, <3>1, AttachStep DEF Claiming, Editable
    <3> QED BY <3>1, DocsStep
  <2>3. branches'[b] > 0
    <3>1. branches[b] \in Nat
      BY OnboardingAssumption DEF Inv, TypeOK
    <3>2. CASE Registering
      BY <2>1, <3>2 DEF Registering, RegisterCount, RegisterInsert, RegisterAbort
    <3>3. CASE Reviewing
      BY <2>1, <3>3 DEF Reviewing, ReadBusiness, ReadDocuments, Rename, Submit, Approve,
                   Reject, Decide, SaveBusiness
    <3>4. CASE Uploading
      BY <2>1, <3>4, UploadingInv
    <3>5. ASSUME NEW c \in Businesses, AddBranch(c)
          PROVE  branches'[b] > 0
      BY <2>1, <3>1, <3>5 DEF AddBranch, Inv, TypeOK
    <3>6. CASE UNCHANGED vars
      BY <2>1, <3>6 DEF vars
    <3> QED BY <3>2, <3>3, <3>4, <3>5, <3>6 DEF Next
  <2> QED BY <2>1, <2>2, <2>3
<1>2. ASSUME NEW x \in Businesses, Unregistered(x)
      PROVE  docs'[b] # {} /\ branches'[b] > 0
  BY <1>2 DEF Unregistered, ReviewedComplete, Claiming
<1>3. ASSUME NEW d \in Screens, NEW row \in BusinessRow, SavedFrom(d, row)
      PROVE  docs'[b] # {} /\ branches'[b] > 0
  <2> DEFINE x == screen[d].business
  <2>1. /\ x \in Businesses
        /\ biz'[x].status = row.status
        /\ \A y \in Businesses \ {x} : biz'[y] = biz[y]
        /\ docs' = docs /\ branches' = branches
    BY <1>3, SavedFields DEF SavedFrom
  <2>2. CASE b # x
    BY <2>1, <2>2 DEF ReviewedComplete
  <2>3. CASE b = x
    <3>1. Ready(x) \/ Claiming(biz[x].status)
      BY <1>3, <2>1, <2>3 DEF SavedFrom, Claiming, Editable
    <3> QED BY <2>1, <2>3, <3>1 DEF Ready, ReviewedComplete
  <2> QED BY <2>2, <2>3
<1> QED BY <1>1, <1>2, <1>3, BusinessStep

\* A business under review or approved has a CR document and a branch, for ever
\* after: both are counted under the lock, and neither is ever taken away.
THEOREM ReviewHasWhatItNeeds == Spec => []ReviewedComplete
<1>1. Init => ReviewedComplete
  BY DEF Init, ReviewedComplete, NoBusiness, Claiming
<1> QED BY <1>1, CompleteStep, InvAlways, PTL DEF Spec

-----------------------------------------------------------------------------
\* A page at the version of a business under review shows its documents: they
\* cannot change before the version does.
PagesAreExact ==
    \A d \in Screens :
        LET b == screen[d].business IN
        /\ screen[d].pc = "seen"
        /\ biz[b].status = "pending_review"
        /\ biz[b].version = screen[d].version
        => screen[d].docs = docs[b]

LEMMA PagesStep == Inv /\ PagesAreExact /\ [Next]_vars => PagesAreExact'
<1> SUFFICES ASSUME Inv, PagesAreExact, [Next]_vars, NEW d \in Screens,
                    screen'[d].pc = "seen",
                    biz'[screen'[d].business].status = "pending_review",
                    biz'[screen'[d].business].version = screen'[d].version
             PROVE  screen'[d].docs = docs'[screen'[d].business]
  BY DEF PagesAreExact
<1>1. ASSUME screen'[d] = screen[d], biz'[screen[d].business] = biz[screen[d].business]
      PROVE  screen'[d].docs = docs'[screen'[d].business]
  <2> DEFINE b == screen[d].business
  <2>1. screen[d].docs = docs[b] /\ biz[b].status = "pending_review"
    BY <1>1 DEF PagesAreExact
  <2>2. b \in Businesses
    BY <1>1 DEF Inv, ScreensShow
  <2>3. ASSUME NEW u \in Uploads, Attach(u)
        PROVE  docs'[b] = docs[b]
    BY <2>1, <2>2, <2>3, AttachStep DEF Editable
  <2> QED BY <1>1, <2>1, <2>3, DocsStep
<1>2. CASE UNCHANGED <<biz, screen>>
  BY <1>1, <1>2
<1>3. ASSUME NEW x \in Businesses, Unregistered(x)
      PROVE  screen'[d].docs = docs'[screen'[d].business]
  <2>1. screen'[d] = screen[d]
    BY <1>3 DEF Unregistered
  <2>2. screen[d].business \in Businesses /\ Exists(screen[d].business)
    BY <2>1 DEF Inv, ScreensShow
  <2>3. screen[d].business # x
    BY <1>3, <2>2 DEF Unregistered, Exists
  <2>4. biz'[screen[d].business] = biz[screen[d].business]
    BY <1>3, <2>2, <2>3 DEF Unregistered
  <2> QED BY <1>1, <2>1, <2>4
<1>4. ASSUME NEW e \in Screens, NEW row \in BusinessRow, SavedFrom(e, row)
      PROVE  screen'[d].docs = docs'[screen'[d].business]
  <2> DEFINE x == screen[e].business
  <2>1. /\ x \in Businesses /\ biz[x].version \in Nat
        /\ biz'[x].version = biz[x].version + 1
        /\ \A y \in Businesses \ {x} : biz'[y] = biz[y]
    BY <1>4, SavedFields
  <2>2. d # e /\ screen'[d] = screen[d]
    BY <1>4 DEF SavedFrom, BlankScreen, Inv, TypeOK
  <2>3. /\ screen[d].business \in Businesses /\ screen[d].version \in Nat
        /\ screen[d].version <= biz[screen[d].business].version
    BY <2>2 DEF Inv, ScreensShow, TypeOK, Screen
  <2>4. screen[d].business # x
    BY <2>1, <2>2, <2>3
  <2> QED BY <1>1, <2>1, <2>2, <2>3, <2>4
<1>5. ASSUME NEW e \in Screens, ReadDocuments(e)
      PROVE  screen'[d].docs = docs'[screen'[d].business]
  <2>1. CASE d # e
    BY <1>1, <1>5, <2>1 DEF ReadDocuments, Inv, TypeOK
  <2>2. CASE d = e
    BY <1>5, <2>2 DEF ReadDocuments, Inv, TypeOK, Screen
  <2> QED BY <2>1, <2>2
<1>6. ASSUME NEW e \in Screens, NEW u \in Users, NEW b \in Businesses, ReadBusiness(e, u, b)
      PROVE  screen'[d].docs = docs'[screen'[d].business]
  <2>1. d # e
    BY <1>6 DEF ReadBusiness, Inv, TypeOK
  <2> QED BY <1>1, <1>6, <2>1 DEF ReadBusiness, Inv, TypeOK
<1>7. CASE Reviewing
  <2>1. PICK e \in Screens :
            \/ (\E u \in Users, b \in Businesses : ReadBusiness(e, u, b)) \/ ReadDocuments(e)
            \/ Rename(e) \/ Submit(e) \/ Approve(e) \/ Reject(e)
    BY <1>7 DEF Reviewing
  <2>2. CASE Rename(e) \/ Submit(e) \/ Approve(e) \/ Reject(e)
    <3>1. \E row \in BusinessRow : SaveBusiness(e, row) /\ row.version = biz[screen[e].business].version
                                  /\ screen[e].business \in Businesses
      BY <2>2, Saves
    <3>2. biz' # biz
      BY <3>1 DEF SaveBusiness, Inv, TypeOK, BusinessRow
    <3> QED BY <1>3, <1>4, <3>2, BusinessStep
  <2> QED BY <2>1, <2>2, <1>5, <1>6
<1>8. CASE Registering \/ Uploading \/ (\E b \in Businesses : AddBranch(b)) \/ UNCHANGED vars
  <2>1. screen' = screen
    BY <1>8, UploadingInv DEF Registering, RegisterCount, RegisterInsert, RegisterAbort, AddBranch, vars
  <2> QED BY <1>2, <1>3, <1>4, <2>1, BusinessStep
<1> QED BY <1>7, <1>8 DEF Next

\* An admin approves exactly the documents the admin's page showed, for any
\* number of pages, rejections and uploads: only the business has a version,
\* and it is enough.
THEOREM AdminApprovesWhatWasSeen == Spec => ApprovedAsSeen
<1>1. Init => PagesAreExact
  BY DEF Init, PagesAreExact, BlankScreen
<1>2. Spec => []PagesAreExact
  BY <1>1, PagesStep, InvAlways, PTL DEF Spec
<1>3. ASSUME Inv, PagesAreExact, [Next]_vars, NEW b \in Businesses,
             biz[b].status # "active", biz'[b].status = "active"
      PROVE  \E d \in Screens :
                /\ screen[d].business = b
                /\ screen[d].user \in Admins \ {biz[b].owner}
                /\ screen[d].docs = docs[b]
  <2>1. biz' # biz
    BY <1>3
  <2>2. ASSUME NEW x \in Businesses, Unregistered(x) PROVE FALSE
    BY <1>3, <2>2 DEF Unregistered
  <2>3. PICK d \in Screens, row \in BusinessRow : SavedFrom(d, row)
    BY <1>3, <2>1, <2>2, BusinessStep
  <2>4. /\ biz'[screen[d].business].status = row.status
        /\ \A y \in Businesses \ {screen[d].business} : biz'[y] = biz[y]
    BY <1>3, <2>3, SavedFields
  <2>5. screen[d].business = b
    BY <1>3, <2>4
  <2>6. /\ biz[b].status = "pending_review"
        /\ screen[d].user \in Admins \ {biz[b].owner}
        /\ VersionMatches(d)
    BY <1>3, <2>3, <2>4, <2>5 DEF SavedFrom
  <2>7. screen[d].docs = docs[b]
    BY <1>3, <2>5, <2>6 DEF PagesAreExact, VersionMatches
  <2> QED BY <2>5, <2>6, <2>7
<1>4. Inv /\ PagesAreExact /\ [Next]_vars =>
        [\A b \in Businesses :
          biz[b].status # "active" /\ biz'[b].status = "active" =>
            \E d \in Screens :
                /\ screen[d].business = b
                /\ screen[d].user \in Admins \ {biz[b].owner}
                /\ screen[d].docs = docs[b]]_vars
  BY <1>3
<1> QED BY <1>2, <1>4, InvAlways, PTL DEF Spec, ApprovedAsSeen

-----------------------------------------------------------------------------
(* Files.  How far an upload has come says what there is of its file.      *)

\* Only an upload touches files, rows and documents.
LEMMA OnlyUploads ==
    ASSUME [Next]_vars, ~Uploading
    PROVE  UNCHANGED <<docs, mediaVars, upload>>
<1>1. CASE Registering
  BY <1>1 DEF Registering, RegisterCount, RegisterInsert, RegisterAbort
<1>2. CASE Reviewing
  BY <1>2 DEF Reviewing, ReadBusiness, ReadDocuments, Rename, Submit, Approve, Reject,
              Decide, SaveBusiness
<1>3. CASE \E b \in Businesses : AddBranch(b)
  BY <1>3 DEF AddBranch
<1>4. CASE UNCHANGED vars
  BY <1>4 DEF vars, mediaVars
<1> QED BY <1>1, <1>2, <1>3, <1>4 DEF Next

\* How far an upload has come says what can be missing.
UploadsInStep ==
    \A u \in Uploads :
        /\ upload[u].pc \in {"idle", "check", "put", "add", "remove"} => u \notin objects
        /\ upload[u].pc \in {"add", "cleanup", "attach", "discard"} => u \in stored
        /\ upload[u].pc = "cleanup" => LostAnswers \/ u \notin objects
        /\ upload[u].pc \in {"idle", "check", "put", "add", "cleanup", "attach"} =>
                \A b \in Businesses : u \notin docs[b]

MissingInv == UploadsInStep /\ MissingFilesUnused

LEMMA MissingStep ==
    ASSUME Inv, MissingInv, [Next]_vars
    PROVE  MissingInv'
<1>1. CASE UNCHANGED <<docs, objects, stored, upload>>
  BY <1>1 DEF MissingInv, UploadsInStep, MissingFilesUnused
<1>2. CASE Uploading
  <2>1. PICK u \in Uploads :
           \/ \E b \in Businesses : UploadRead(u, b)
           \/ UploadCheck(u) \/ PutFile(u) \/ AddRow(u) \/ Cleanup(u) \/ Attach(u)
           \/ AttachFails(u) \/ DeleteRow(u) \/ RemoveFile(u) \/ Crash(u)
    BY <1>2 DEF Uploading
  <2> USE DEF MissingInv, UploadsInStep, MissingFilesUnused, Inv, TypeOK, UploadState
  <2>2. ASSUME NEW b \in Businesses, UploadRead(u, b) PROVE MissingInv'
    BY <2>2 DEF UploadRead, NoUpload, mediaVars
  <2>3. CASE UploadCheck(u)
    BY <2>3 DEF UploadCheck, To, mediaVars
  <2>4. CASE PutFile(u)
    BY <2>4 DEF PutFile, To
  <2>5. CASE AddRow(u)
    <3>1. \/ objects' = objects \cup {u} /\ To(u, "attach")
          \/ objects' = objects /\ To(u, "cleanup")
          \/ objects' = objects \cup {u} /\ To(u, "cleanup") /\ LostAnswers
      BY <2>5 DEF AddRow, AddOutcomes
    <3>2. upload[u].pc = "add" /\ UNCHANGED <<docs, stored>>
      BY <2>5 DEF AddRow
    <3> QED BY <3>1, <3>2 DEF To
  <2>6. CASE Cleanup(u)
    BY <2>6 DEF Cleanup, To
  <2>7. CASE Attach(u)
    <3>1. /\ To(u, "done") \/ To(u, "discard")
          /\ upload[u].pc = "attach" /\ UNCHANGED <<objects, stored>>
      BY <2>7 DEF Attach, AttachOutcomes, mediaVars
    <3>2. \A b \in Businesses : docs'[b] \subseteq docs[b] \cup {u}
      BY <2>7, AttachStep
    <3> QED BY <3>1, <3>2 DEF To
  <2>8. CASE AttachFails(u)
    BY <2>8 DEF AttachFails, To, mediaVars
  <2>9. CASE DeleteRow(u)
    <3>1. upload[u].pc = "discard" /\ UNCHANGED <<docs, stored>>
      BY <2>9 DEF DeleteRow
    <3>2. CASE objects' = objects \ {u} /\ To(u, "remove")
      BY <3>1, <3>2 DEF To
    <3>3. CASE objects' = objects /\ To(u, "failed")
      BY <3>1, <3>3 DEF To
    <3> QED BY <2>9, <3>2, <3>3 DEF DeleteRow
  <2>10. CASE RemoveFile(u)
    BY <2>10 DEF RemoveFile, To
  <2>11. CASE Crash(u)
    BY <2>11 DEF Crash, To, mediaVars
  <2> QED BY <2>1, <2>2, <2>3, <2>4, <2>5, <2>6, <2>7, <2>8, <2>9, <2>10, <2>11
<1>3. CASE ~Uploading
  BY <1>1, <1>3, OnlyUploads DEF mediaVars
<1> QED BY <1>2, <1>3

\* A media row is without its file only if the answer of its insert was lost, and
\* then nobody was given it: whatever crashes, fails or is lost at any step of
\* any number of uploads.
THEOREM MissingFilesAreUnused == Spec => []MissingFilesUnused
<1>1. Init => MissingInv
  BY DEF Init, MissingInv, UploadsInStep, MissingFilesUnused, NoUpload
<1>2. Inv /\ MissingInv /\ [Next]_vars => MissingInv'
  BY MissingStep
<1>3. MissingInv => MissingFilesUnused
  BY DEF MissingInv
<1> QED BY <1>1, <1>2, <1>3, InvAlways, PTL DEF Spec

\* What is about to be attached has its row, and what is attached is discarded
\* only for want of an answer.
DocumentsInStep ==
    \A u \in Uploads :
        /\ upload[u].pc = "attach" => u \in objects
        /\ upload[u].pc \in {"discard", "remove"} =>
                LostAnswers \/ \A b \in Businesses : u \notin docs[b]

DocumentsInv == DocumentsInStep /\ DocumentsAreThere

LEMMA DocumentsStep ==
    ASSUME Inv, UploadsInStep, DocumentsInv, [Next]_vars
    PROVE  DocumentsInv'
<1>1. CASE UNCHANGED <<docs, objects, stored, upload>>
  BY <1>1 DEF DocumentsInv, DocumentsInStep, DocumentsAreThere
<1>2. CASE Uploading
  <2>1. PICK u \in Uploads :
           \/ \E b \in Businesses : UploadRead(u, b)
           \/ UploadCheck(u) \/ PutFile(u) \/ AddRow(u) \/ Cleanup(u) \/ Attach(u)
           \/ AttachFails(u) \/ DeleteRow(u) \/ RemoveFile(u) \/ Crash(u)
    BY <1>2 DEF Uploading
  <2> USE DEF DocumentsInv, DocumentsInStep, DocumentsAreThere, UploadsInStep, Inv, TypeOK,
              UploadState
  <2>2. ASSUME NEW b \in Businesses, UploadRead(u, b) PROVE DocumentsInv'
    BY <2>2 DEF UploadRead, NoUpload, mediaVars
  <2>3. CASE UploadCheck(u)
    BY <2>3 DEF UploadCheck, To, mediaVars
  <2>4. CASE PutFile(u)
    BY <2>4 DEF PutFile, To
  <2>5. CASE AddRow(u)
    <3>1. \/ objects' = objects \cup {u} /\ To(u, "attach")
          \/ objects' = objects /\ To(u, "cleanup")
          \/ objects' = objects \cup {u} /\ To(u, "cleanup") /\ LostAnswers
      BY <2>5 DEF AddRow, AddOutcomes
    <3>2. upload[u].pc = "add" /\ UNCHANGED <<docs, stored>>
      BY <2>5 DEF AddRow
    <3> QED BY <3>1, <3>2 DEF To
  <2>6. CASE Cleanup(u)
    BY <2>6 DEF Cleanup, To
  <2>7. CASE Attach(u)
    <3>1. /\ To(u, "done") \/ (To(u, "discard") /\ LostAnswers)
          /\ upload[u].pc = "attach" /\ UNCHANGED <<objects, stored>>
      BY <2>7 DEF Attach, AttachOutcomes, mediaVars
    <3>2. \A b \in Businesses : docs'[b] \subseteq docs[b] \cup {u}
      BY <2>7, AttachStep
    <3> QED BY <3>1, <3>2 DEF To
  <2>8. CASE AttachFails(u)
    BY <2>8 DEF AttachFails, To, mediaVars
  <2>9. CASE DeleteRow(u)
    <3>1. upload[u].pc = "discard" /\ UNCHANGED <<docs, stored>>
      BY <2>9 DEF DeleteRow
    <3>2. CASE objects' = objects \ {u} /\ To(u, "remove")
      BY <3>1, <3>2 DEF To
    <3>3. CASE objects' = objects /\ To(u, "failed")
      BY <3>1, <3>3 DEF To
    <3> QED BY <2>9, <3>2, <3>3 DEF DeleteRow
  <2>10. CASE RemoveFile(u)
    BY <2>10 DEF RemoveFile, To
  <2>11. CASE Crash(u)
    BY <2>11 DEF Crash, To, mediaVars
  <2> QED BY <2>1, <2>2, <2>3, <2>4, <2>5, <2>6, <2>7, <2>8, <2>9, <2>10, <2>11
<1>3. CASE ~Uploading
  BY <1>1, <1>3, OnlyUploads DEF mediaVars
<1> QED BY <1>2, <1>3

\* discard only deletes what no business has, unless the answer of the commit
\* that attached it was lost: every other document can be opened, whatever
\* crashes or fails at any step of any number of uploads.
THEOREM FilesBehindDocuments == Spec => []DocumentsAreThere
<1>1. Init => MissingInv /\ DocumentsInv
  BY DEF Init, MissingInv, UploadsInStep, MissingFilesUnused, DocumentsInv, DocumentsInStep,
         DocumentsAreThere, NoUpload
<1>2. Inv /\ MissingInv /\ DocumentsInv /\ [Next]_vars => MissingInv' /\ DocumentsInv'
  BY MissingStep, DocumentsStep DEF MissingInv
<1>3. DocumentsInv => DocumentsAreThere
  BY DEF DocumentsInv
<1> QED BY <1>1, <1>2, <1>3, InvAlways, PTL DEF Spec

-----------------------------------------------------------------------------
(* The limit on registrations.  Whoever was found below the limit holds the *)
(* owner's lock until the draft is inserted; meanwhile the businesses they  *)
(* counted can only have become fewer, by an approval.                      *)

OneAtATime ==
    \A b, c \in Businesses :
        /\ biz[b].status = "inserting" /\ biz[c].status = "inserting"
        /\ biz[b].owner = biz[c].owner
        => b = c

\* What OpenRegistrations counts, in any state B of the table.
OpenIn(B, u) ==
    {b \in Businesses : B[b].owner = u
        /\ B[b].status \in {"draft", "pending_review", "rejected"}}

Below(B, u) == Cardinality(OpenIn(B, u)) < MaxOpenRegistrations

PlaceKept ==
    \A b \in Businesses : biz[b].status = "inserting" => Below(biz, biz[b].owner)

RegistrationInv == OneAtATime /\ PlaceKept /\ RegistrationsBounded

\* The sets counted are finite; a part counts no more, one more at most one more.
LEMMA OpenCount ==
    ASSUME NEW B, NEW C, NEW u
    PROVE  /\ Cardinality(OpenIn(B, u)) \in Nat
           /\ OpenIn(C, u) \subseteq OpenIn(B, u) =>
                 Cardinality(OpenIn(C, u)) <= Cardinality(OpenIn(B, u))
           /\ \A b : OpenIn(C, u) \subseteq OpenIn(B, u) \cup {b} =>
                 Cardinality(OpenIn(C, u)) <= Cardinality(OpenIn(B, u)) + 1
<1>1. IsFiniteSet(OpenIn(B, u)) /\ IsFiniteSet(OpenIn(C, u))
  <2>1. OpenIn(B, u) \subseteq Businesses /\ OpenIn(C, u) \subseteq Businesses
    BY DEF OpenIn
  <2> QED BY <2>1, OnboardingAssumption, FS_Subset
<1>2. Cardinality(OpenIn(B, u)) \in Nat /\ Cardinality(OpenIn(C, u)) \in Nat
  BY <1>1, FS_CardinalityType
<1>3. OpenIn(C, u) \subseteq OpenIn(B, u) =>
         Cardinality(OpenIn(C, u)) <= Cardinality(OpenIn(B, u))
  BY <1>1, FS_Subset
<1>4. ASSUME NEW b, OpenIn(C, u) \subseteq OpenIn(B, u) \cup {b}
      PROVE  Cardinality(OpenIn(C, u)) <= Cardinality(OpenIn(B, u)) + 1
  <2>1. /\ IsFiniteSet(OpenIn(B, u) \cup {b})
        /\ \/ Cardinality(OpenIn(B, u) \cup {b}) = Cardinality(OpenIn(B, u))
           \/ Cardinality(OpenIn(B, u) \cup {b}) = Cardinality(OpenIn(B, u)) + 1
    BY <1>1, FS_AddElement
  <2>2. Cardinality(OpenIn(C, u)) <= Cardinality(OpenIn(B, u) \cup {b})
    BY <1>4, <2>1, FS_Subset
  <2> QED BY <1>2, <2>1, <2>2
<1> QED BY <1>2, <1>3, <1>4

LEMMA BoundedMeans ==
    /\ RegistrationsBounded <=>
          \A u \in Users : Cardinality(OpenIn(biz, u)) <= MaxOpenRegistrations
    /\ RegistrationsBounded' <=>
          \A u \in Users : Cardinality(OpenIn(biz', u)) <= MaxOpenRegistrations
  BY DEF RegistrationsBounded, OpenRegistrations, OpenIn

\* A step that opens no registration keeps everybody's place.
LEMMA NothingOpened ==
    ASSUME Inv, RegistrationInv, \A u : OpenIn(biz', u) \subseteq OpenIn(biz, u),
           \A b \in Businesses : biz'[b].status = "inserting" =>
               biz[b].status = "inserting" /\ biz'[b].owner = biz[b].owner
    PROVE  RegistrationInv'
<1>1. OneAtATime'
  BY DEF RegistrationInv, OneAtATime
<1>2. \A u : /\ Cardinality(OpenIn(biz', u)) <= Cardinality(OpenIn(biz, u))
             /\ Cardinality(OpenIn(biz', u)) \in Nat /\ Cardinality(OpenIn(biz, u)) \in Nat
  BY OpenCount
<1>3. MaxOpenRegistrations \in Nat
  BY OnboardingAssumption
<1>4. RegistrationsBounded'
  BY <1>2, <1>3, BoundedMeans DEF RegistrationInv
<1>5. PlaceKept'
  <2> SUFFICES ASSUME NEW b \in Businesses, biz'[b].status = "inserting"
               PROVE  Below(biz', biz'[b].owner)
    BY DEF PlaceKept, Below
  <2>1. biz'[b].owner = biz[b].owner /\ Below(biz, biz[b].owner)
    BY DEF RegistrationInv, PlaceKept
  <2> QED BY <1>2, <1>3, <2>1 DEF Below
<1> QED BY <1>1, <1>4, <1>5 DEF RegistrationInv

LEMMA RegistrationStep ==
    ASSUME Inv, Inv', RegistrationInv, [Next]_vars
    PROVE  RegistrationInv'
<1>1. CASE biz' = biz
  BY <1>1, NothingOpened
<1>2. ASSUME NEW d \in Screens, NEW row \in BusinessRow, SavedFrom(d, row)
      PROVE  RegistrationInv'
  <2> DEFINE b == screen[d].business
  <2>1. /\ b \in Businesses
        /\ biz'[b].status = row.status
        /\ \A c \in Businesses \ {b} : biz'[c] = biz[c]
    BY <1>2, SavedFields
  <2>2. biz'[b].owner = biz[b].owner
    BY <1>2 DEF SavedFrom, Inv, TypeOK, BusinessRow
  <2>3. Exists(b)
    BY <1>2 DEF SavedFrom, VersionMatches, Inv, ScreensShow
  <2>4. row.status # "inserting" /\ (row.status # "active" => biz[b].status # "active")
    BY <1>2, <2>3 DEF SavedFrom, Exists, Statuses, Editable
  <2> HIDE DEF b
  <2>5. \A u : OpenIn(biz', u) \subseteq OpenIn(biz, u)
    BY <2>1, <2>2, <2>3, <2>4 DEF OpenIn, Exists, Statuses
  <2> QED BY <2>1, <2>4, <2>5, NothingOpened
<1>3. ASSUME NEW b \in Businesses, NEW u \in Users, NEW c \in CRs, RegisterCount(b, u, c)
      PROVE  RegistrationInv'
  <2>1. /\ biz'[b].status = "inserting" /\ biz'[b].owner = u
        /\ \A x \in Businesses \ {b} : biz'[x] = biz[x]
        /\ biz[b].status = "none"
    BY <1>3 DEF RegisterCount, NoBusiness, Inv, TypeOK
  <2>2. \A x \in Businesses : biz[x].status = "inserting" => biz[x].owner # u
    BY <1>3 DEF RegisterCount, OwnerLockFree
  <2>3. \A v : OpenIn(biz', v) = OpenIn(biz, v)
    BY <2>1 DEF OpenIn
  <2>4. Below(biz, u)
    BY <1>3 DEF RegisterCount, OpenRegistrations, OpenIn, Below
  <2>5. OneAtATime'
    BY <2>1, <2>2 DEF RegistrationInv, OneAtATime
  <2>6. PlaceKept'
    BY <2>1, <2>3, <2>4 DEF RegistrationInv, PlaceKept, Below
  <2>7. RegistrationsBounded'
    BY <2>3, BoundedMeans DEF RegistrationInv
  <2> QED BY <2>5, <2>6, <2>7 DEF RegistrationInv
<1>4. ASSUME NEW b \in Businesses, RegisterInsert(b)
      PROVE  RegistrationInv'
  <2>1. /\ biz[b].status = "inserting" /\ biz'[b].status = "draft"
        /\ biz'[b].owner = biz[b].owner
        /\ \A x \in Businesses \ {b} : biz'[x] = biz[x]
    BY <1>4 DEF RegisterInsert, Inv, TypeOK, BusinessRow
  <2> DEFINE u == biz[b].owner
  <2>2. \A x \in Businesses \ {b} : biz[x].status = "inserting" => biz[x].owner # u
    BY <2>1 DEF RegistrationInv, OneAtATime
  <2>3. \A v : v # u => OpenIn(biz', v) = OpenIn(biz, v)
    BY <2>1 DEF OpenIn
  <2>4. OpenIn(biz', u) \subseteq OpenIn(biz, u) \cup {b}
    BY <2>1 DEF OpenIn
  <2>5. /\ Cardinality(OpenIn(biz', u)) <= Cardinality(OpenIn(biz, u)) + 1
        /\ Cardinality(OpenIn(biz, u)) \in Nat /\ Cardinality(OpenIn(biz', u)) \in Nat
    BY <2>4, OpenCount
  <2>6. Cardinality(OpenIn(biz, u)) < MaxOpenRegistrations
    BY <2>1 DEF RegistrationInv, PlaceKept, Below
  <2>7. OneAtATime'
    BY <2>1 DEF RegistrationInv, OneAtATime
  <2>8. PlaceKept'
    BY <2>1, <2>2, <2>3 DEF RegistrationInv, PlaceKept, Below
  <2>9. RegistrationsBounded'
    <3> SUFFICES ASSUME NEW v \in Users
                 PROVE  Cardinality(OpenIn(biz', v)) <= MaxOpenRegistrations
      BY BoundedMeans
    <3>1. CASE v = u
      BY <2>5, <2>6, <3>1, OnboardingAssumption
    <3>2. CASE v # u
      BY <2>3, <3>2, BoundedMeans DEF RegistrationInv
    <3> QED BY <3>1, <3>2
  <2> QED BY <2>7, <2>8, <2>9 DEF RegistrationInv
<1>5. ASSUME NEW b \in Businesses, RegisterAbort(b)
      PROVE  RegistrationInv'
  <2>1. /\ biz'[b].status = "none"
        /\ \A x \in Businesses \ {b} : biz'[x] = biz[x]
    BY <1>5 DEF RegisterAbort, NoBusiness, Inv, TypeOK
  <2>2. \A u : OpenIn(biz', u) \subseteq OpenIn(biz, u)
    BY <2>1 DEF OpenIn
  <2> QED BY <2>1, <2>2, NothingOpened
<1>6. CASE Registering
  BY <1>3, <1>4, <1>5, <1>6 DEF Registering
<1>7. CASE ~Registering
  <2>1. biz' = biz \/ \E d \in Screens, row \in BusinessRow : SavedFrom(d, row)
    BY <1>7, SavedOnly
  <2> QED BY <1>1, <1>2, <2>1
<1> QED BY <1>6, <1>7

\* Register counts under the owner's advisory lock: however many requests an
\* owner sends at once, and however approvals fall between them, the businesses
\* waiting for one never exceed MaxOpenRegistrations.
THEOREM RegistrationsKeepTheLimit == Spec => []RegistrationsBounded
<1>1. Init => RegistrationInv
  <2> SUFFICES ASSUME Init PROVE RegistrationInv
    OBVIOUS
  <2>1. \A b \in Businesses : biz[b].status = "none"
    BY DEF Init, NoBusiness
  <2>2. \A u : OpenIn(biz, u) = {}
    BY <2>1 DEF OpenIn
  <2>3. \A u : Cardinality(OpenIn(biz, u)) = 0
    BY <2>2, FS_EmptySet
  <2>4. MaxOpenRegistrations \in Nat
    BY OnboardingAssumption
  <2>5. RegistrationsBounded
    BY <2>3, <2>4, BoundedMeans
  <2> QED BY <2>1, <2>5 DEF RegistrationInv, OneAtATime, PlaceKept
<1>2. RegistrationInv => RegistrationsBounded
  BY DEF RegistrationInv
<1>3. Inv /\ Inv' /\ RegistrationInv /\ [Next]_vars => RegistrationInv'
  BY RegistrationStep
<1> QED BY <1>1, <1>2, <1>3, InvAlways, PTL DEF Spec
=============================================================================
