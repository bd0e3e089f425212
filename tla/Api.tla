-------------------------------- MODULE Api --------------------------------
(***************************************************************************)
(* What the server knows of each operation of its HTTP API, as tables: the *)
(* parameters the generated wrapper binds, the body the generated strict   *)
(* handler decodes and the status its reply writes (internal/apigen), what *)
(* the module's handler checks before it calls the use case, and the       *)
(* status the module's `problem' gives an error (adapters/httpapi).        *)
(*                                                                         *)
(* A table of apigen holds the operations from the one it is named after   *)
(* to the next table's, in the order of the generated file.                *)
(***************************************************************************)
EXTENDS Naturals, FiniteSets, TLC

On(ops, v) == [o \in ops |-> v]

-----------------------------------------------------------------------------
(* ServerInterfaceWrapper: <<the parameters a request must have, those it  *)
(* may have>>.  The first one missing or malformed answers 400.            *)

BindListBusinessesForReview ==
     On({"ListBusinessesForReview"}, <<{}, {"status", "limit", "cursor"}>>)
  @@ On({"GetBusinessForReview"}, <<{"business_id"}, {}>>)
  @@ On({"ApproveBusiness"}, <<{"business_id", "If-Match"}, {}>>)

BindRejectBusiness ==
     On({"RejectBusiness"}, <<{"business_id", "If-Match"}, {}>>)
  @@ On({"BookAppointment"}, <<{"Idempotency-Key"}, {}>>)
  @@ On({"Logout", "RequestOTP"}, <<{}, {}>>)

BindVerifyOTP ==
     On({"VerifyOTP"}, <<{}, {"Accept-Language"}>>)
  @@ On({"RefreshTokens"}, <<{}, {}>>)

BindSearchBranches ==
     On({"SearchBranches"}, <<{}, {"city", "q", "category", "open_now", "lat",
            "lng", "radius_km", "cursor"}>>)
  @@ On({"GetBranchPage"}, <<{"branch_id"}, {}>>)

BindGetAvailability ==
     On({"GetAvailability"}, <<{"branch_id", "date", "service_ids"},
            {"barber_id"}>>)
  @@ On({"RegisterBusiness"}, <<{}, {}>>)
  @@ On({"GetBusiness"}, <<{"business_id"}, {}>>)

BindUpdateBusiness ==
     On({"UpdateBusiness"}, <<{"business_id", "If-Match"}, {}>>)
  @@ On({"ActOnAppointment"}, <<{"business_id", "appointment_id", "action"},
            {}>>)
  @@ On({"ListBranches", "CreateBranch"}, <<{"business_id"}, {}>>)

BindGetBranch ==
     On({"GetBranch"}, <<{"business_id", "branch_id"}, {}>>)
  @@ On({"UpdateBranch"}, <<{"business_id", "branch_id", "If-Match"}, {}>>)
  @@ On({"ListBranchAppointments"}, <<{"business_id", "branch_id", "date"},
            {}>>)

BindBookWalkIn ==
     On({"BookWalkIn"}, <<{"business_id", "branch_id", "Idempotency-Key"},
            {}>>)
  @@ On({"GetOpeningHours"}, <<{"business_id", "branch_id"}, {}>>)

BindSetOpeningHours ==
     On({"SetOpeningHours", "PublishBranch"}, <<{"business_id", "branch_id",
            "If-Match"}, {}>>)

BindListServices ==
     On({"ListServices", "CreateService"}, <<{"business_id", "branch_id"},
            {}>>)
  @@ On({"UpdateService"}, <<{"business_id", "branch_id", "service_id",
            "If-Match"}, {}>>)

BindSetServiceOfferings ==
     On({"SetServiceOfferings"}, <<{"business_id", "branch_id", "service_id",
            "If-Match"}, {}>>)
  @@ On({"GetBarberSchedule"}, <<{"business_id", "branch_id", "staff_id"},
            {}>>)

BindSetBarberSchedule ==
     On({"SetBarberSchedule"}, <<{"business_id", "branch_id", "staff_id",
            "If-Match"}, {}>>)
  @@ On({"GetWorkingWindows"}, <<{"business_id", "branch_id", "staff_id",
            "from", "to"}, {}>>)

BindUnpublishBranch ==
     On({"UnpublishBranch"}, <<{"business_id", "branch_id", "If-Match"}, {}>>)
  @@ On({"ListStaff", "ListStaffInvitations", "InviteStaff"},
            <<{"business_id"}, {}>>)

BindRevokeStaffInvitation ==
     On({"RevokeStaffInvitation"}, <<{"business_id", "invitation_id"}, {}>>)
  @@ On({"ListTimeOff", "AddTimeOff"}, <<{"business_id", "staff_id"}, {}>>)
  @@ On({"DeleteTimeOff"}, <<{"business_id", "staff_id", "time_off_id"}, {}>>)

BindGetSubscription ==
     On({"GetSubscription", "ListVerificationDocuments"}, <<{"business_id"},
            {}>>)
  @@ On({"UploadVerificationDocument"}, <<{"business_id", "kind"}, {}>>)
  @@ On({"SubmitBusiness"}, <<{"business_id", "If-Match"}, {}>>)

BindListCities ==
     On({"ListCities", "AcceptStaffInvitation", "GetMe", "RegisterDevice",
            "ListMyMemberships"}, <<{}, {}>>)
  @@ On({"GetMyAppointment", "CancelMyAppointment"}, <<{"appointment_id"},
            {}>>)
  @@ On({"RemoveDevice"}, <<{"device_id"}, {}>>)

BindDownloadMedia ==
     On({"DownloadMedia"}, <<{"media_id", "expires", "signature"}, {}>>)
  @@ On({"ListServiceCategories"}, <<{}, {}>>)

Bound ==
     BindListBusinessesForReview @@ BindRejectBusiness
  @@ BindVerifyOTP @@ BindSearchBranches
  @@ BindGetAvailability @@ BindUpdateBusiness
  @@ BindGetBranch @@ BindBookWalkIn
  @@ BindSetOpeningHours @@ BindListServices
  @@ BindSetServiceOfferings @@ BindSetBarberSchedule
  @@ BindUnpublishBranch @@ BindRevokeStaffInvitation
  @@ BindGetSubscription @@ BindListCities
  @@ BindDownloadMedia

-----------------------------------------------------------------------------
(* strictHandler: "json" must be a document, "optional" may be empty,      *)
(* "file" is handed on unread, "none" is ignored.                          *)

DecodeListBusinessesForReview ==
     On({"ListBusinessesForReview", "GetBusinessForReview",
            "ApproveBusiness"}, "none")
  @@ On({"RejectBusiness", "BookAppointment"}, "json")

DecodeLogout ==
     On({"Logout", "SearchBranches"}, "none")
  @@ On({"RequestOTP", "VerifyOTP", "RefreshTokens"}, "json")

DecodeGetBranchPage ==
     On({"GetBranchPage", "GetAvailability", "GetBusiness"}, "none")
  @@ On({"RegisterBusiness", "UpdateBusiness"}, "json")

DecodeActOnAppointment ==
     On({"ActOnAppointment"}, "optional")
  @@ On({"ListBranches", "GetBranch"}, "none")
  @@ On({"CreateBranch"}, "json")

DecodeUpdateBranch ==
     On({"UpdateBranch", "BookWalkIn"}, "json")
  @@ On({"ListBranchAppointments", "GetOpeningHours"}, "none")

DecodeSetOpeningHours ==
     On({"SetOpeningHours", "CreateService"}, "json")
  @@ On({"PublishBranch", "ListServices"}, "none")

DecodeUpdateService ==
     On({"UpdateService", "SetServiceOfferings", "SetBarberSchedule"}, "json")
  @@ On({"GetBarberSchedule"}, "none")

DecodeGetWorkingWindows ==
     On({"GetWorkingWindows", "UnpublishBranch", "ListStaff",
            "ListStaffInvitations"}, "none")
  @@ On({"InviteStaff"}, "json")

DecodeRevokeStaffInvitation ==
     On({"RevokeStaffInvitation", "ListTimeOff", "DeleteTimeOff",
            "GetSubscription"}, "none")
  @@ On({"AddTimeOff"}, "json")

DecodeListVerificationDocuments ==
     On({"ListVerificationDocuments", "SubmitBusiness", "ListCities"}, "none")
  @@ On({"UploadVerificationDocument"}, "file")
  @@ On({"AcceptStaffInvitation"}, "json")

DecodeGetMe ==
     On({"GetMe", "GetMyAppointment", "RemoveDevice"}, "none")
  @@ On({"CancelMyAppointment"}, "optional")
  @@ On({"RegisterDevice"}, "json")

DecodeListMyMemberships ==
     On({"ListMyMemberships", "DownloadMedia", "ListServiceCategories"},
            "none")

Decoded ==
     DecodeListBusinessesForReview @@ DecodeLogout
  @@ DecodeGetBranchPage @@ DecodeActOnAppointment
  @@ DecodeUpdateBranch @@ DecodeSetOpeningHours
  @@ DecodeUpdateService @@ DecodeGetWorkingWindows
  @@ DecodeRevokeStaffInvitation @@ DecodeListVerificationDocuments
  @@ DecodeGetMe @@ DecodeListMyMemberships

-----------------------------------------------------------------------------
(* The status the operation's success writes (Visit...Response).           *)

VisitListBusinessesForReview ==
     On({"ListBusinessesForReview", "GetBusinessForReview",
            "ApproveBusiness"}, 200)

VisitRejectBusiness ==
     On({"RejectBusiness"}, 200)
  @@ On({"BookAppointment"}, 201)
  @@ On({"Logout"}, 204)

VisitRequestOTP ==
     On({"RequestOTP"}, 202)
  @@ On({"VerifyOTP", "RefreshTokens"}, 200)

VisitSearchBranches ==
     On({"SearchBranches", "GetBranchPage", "GetAvailability"}, 200)

VisitRegisterBusiness ==
     On({"RegisterBusiness"}, 201)
  @@ On({"GetBusiness", "UpdateBusiness"}, 200)

VisitActOnAppointment ==
     On({"ActOnAppointment", "ListBranches"}, 200)
  @@ On({"CreateBranch"}, 201)

VisitGetBranch ==
     On({"GetBranch", "UpdateBranch", "ListBranchAppointments"}, 200)

VisitBookWalkIn ==
     On({"BookWalkIn"}, 201)
  @@ On({"GetOpeningHours"}, 200)

VisitSetOpeningHours ==
     On({"SetOpeningHours", "PublishBranch", "ListServices"}, 200)

VisitCreateService ==
     On({"CreateService"}, 201)
  @@ On({"UpdateService", "SetServiceOfferings"}, 200)

VisitGetBarberSchedule ==
     On({"GetBarberSchedule", "SetBarberSchedule", "GetWorkingWindows"}, 200)

VisitUnpublishBranch ==
     On({"UnpublishBranch", "ListStaff", "ListStaffInvitations"}, 200)

VisitInviteStaff ==
     On({"InviteStaff"}, 201)
  @@ On({"RevokeStaffInvitation"}, 204)
  @@ On({"ListTimeOff"}, 200)

VisitAddTimeOff ==
     On({"AddTimeOff"}, 201)
  @@ On({"DeleteTimeOff"}, 204)
  @@ On({"GetSubscription"}, 200)

VisitListVerificationDocuments ==
     On({"ListVerificationDocuments", "SubmitBusiness"}, 200)
  @@ On({"UploadVerificationDocument"}, 201)

VisitListCities ==
     On({"ListCities", "AcceptStaffInvitation", "GetMe"}, 200)

VisitGetMyAppointment ==
     On({"GetMyAppointment", "CancelMyAppointment", "RegisterDevice"}, 200)

VisitRemoveDevice ==
     On({"RemoveDevice"}, 204)
  @@ On({"ListMyMemberships"}, 200)

VisitDownloadMedia ==
     On({"DownloadMedia", "ListServiceCategories"}, 200)

Replies ==
     VisitListBusinessesForReview @@ VisitRejectBusiness
  @@ VisitRequestOTP @@ VisitSearchBranches
  @@ VisitRegisterBusiness @@ VisitActOnAppointment
  @@ VisitGetBranch @@ VisitBookWalkIn
  @@ VisitSetOpeningHours @@ VisitCreateService
  @@ VisitGetBarberSchedule @@ VisitUnpublishBranch
  @@ VisitInviteStaff @@ VisitAddTimeOff
  @@ VisitListVerificationDocuments @@ VisitListCities
  @@ VisitGetMyAppointment @@ VisitRemoveDevice
  @@ VisitDownloadMedia

-----------------------------------------------------------------------------
(* The modules' handlers: the problem table that answers their errors,     *)
(* whether they ask for a principal, and the lowest version of If-Match    *)
(* they take (NoVersion: they read none).                                  *)

NoVersion == 99

Handler(module, principal, lowest) ==
  [module |-> module, principal |-> principal, lowest |-> lowest]

Signed(module, ops) == On(ops, Handler(module, TRUE, NoVersion))

Versioned(module, ops, lowest) == On(ops, Handler(module, TRUE, lowest))

Open(module, ops) == On(ops, Handler(module, FALSE, NoVersion))

IamHandlers ==
  Open("iam", {"RequestOTP", "VerifyOTP", "RefreshTokens"})
    @@ Signed("iam", {"Logout", "GetMe"})

AvailabilityHandler == Open("booking", {"GetAvailability"})

AppointmentHandlers == Signed("booking", {"BookAppointment", "GetMyAppointment"})

ManageHandlers ==
  Signed("booking", {"CancelMyAppointment", "ActOnAppointment",
                     "ListBranchAppointments", "BookWalkIn"})

BranchHandlers ==
  Signed("business", {"ListBranches", "CreateBranch", "GetBranch"})
    @@ Versioned("business", {"UpdateBranch"}, 1)

StatusHandlers == Versioned("business", {"PublishBranch", "UnpublishBranch"}, 1)

DocumentHandlers ==
  Signed("business", {"UploadVerificationDocument", "ListVerificationDocuments"})

BusinessHandlers ==
  Signed("business", {"RegisterBusiness", "GetBusiness", "ListMyMemberships"})
    @@ Versioned("business", {"UpdateBusiness"}, 1)

ReviewHandlers ==
  Signed("business", {"ListBusinessesForReview", "GetBusinessForReview"})
    @@ Versioned("business",
                 {"SubmitBusiness", "ApproveBusiness", "RejectBusiness"}, 1)

StaffHandlers ==
  Signed("business", {"InviteStaff", "ListStaffInvitations", "ListStaff",
                      "RevokeStaffInvitation", "AcceptStaffInvitation"})

SubscriptionHandler == Signed("business", {"GetSubscription"})

CatalogHandlers ==
  Open("catalog", {"ListServiceCategories"})
    @@ Signed("catalog", {"ListServices", "CreateService"})
    @@ Versioned("catalog", {"UpdateService", "SetServiceOfferings"}, 1)

DiscoveryHandlers ==
  Open("discovery", {"ListCities", "SearchBranches", "GetBranchPage"})

MediaHandler == Open("media", {"DownloadMedia"})

DeviceHandlers == Signed("notification", {"RegisterDevice", "RemoveDevice"})

OpeningHandlers ==
  Signed("scheduling", {"GetOpeningHours"})
    @@ Versioned("scheduling", {"SetOpeningHours"}, 0)

ScheduleHandlers ==
  Signed("scheduling", {"GetBarberSchedule"})
    @@ Versioned("scheduling", {"SetBarberSchedule"}, 0)

TimeOffHandlers ==
  Signed("scheduling", {"ListTimeOff", "AddTimeOff", "DeleteTimeOff",
                        "GetWorkingWindows"})

Handlers ==
  IamHandlers @@ AvailabilityHandler @@ AppointmentHandlers @@ ManageHandlers
    @@ BranchHandlers @@ StatusHandlers @@ DocumentHandlers @@ BusinessHandlers
    @@ ReviewHandlers @@ StaffHandlers @@ SubscriptionHandler @@ CatalogHandlers
    @@ DiscoveryHandlers @@ MediaHandler @@ DeviceHandlers @@ OpeningHandlers
    @@ ScheduleHandlers @@ TimeOffHandlers

-----------------------------------------------------------------------------
(* `problem': the status of each error a module knows; any other is 500.   *)

NoPrincipal == On({"ErrNoPrincipal"}, 401)

IamProblems ==
  On({"ErrInvalidPhoneNumber", "ErrInvalidOTPCode"}, 422)
    @@ On({"ErrOTPLocked", "ErrOTPCooldown", "ErrOTPRateLimited",
           "ErrOTPTooManyAttempts"}, 429)
    @@ On({"ErrOTPInvalid", "ErrOTPExpired", "ErrUnauthenticated",
           "ErrRefreshTokenReused", "ErrRefreshTokenInvalid"}, 401)
    @@ On({"ErrUserBlocked"}, 403)

BusinessProblems ==
  NoPrincipal
    @@ On({"errBadCursor", "ErrBadIfMatch"}, 400)
    @@ On({"ErrNotPlatformAdmin", "ErrSelfReview", "ErrForbidden"}, 403)
    @@ On({"ErrCRDocumentRequired", "ErrBranchRequired", "ErrCRNumberClaimed",
           "ErrBranchLimitReached", "ErrBranchNotReady", "ErrBusinessNotActive",
           "ErrTooManyRegistrations", "ErrStaffLimitReached", "ErrAlreadyStaff",
           "ErrInvitationClosed", "ErrAlreadyRegistered",
           "ErrInvalidStateTransition", "ErrDocumentLimitReached"}, 409)
    @@ On({"ErrTooManyInvitations"}, 429)
    @@ On({"ErrInvitationInvalid", "ErrNotFound"}, 404)
    @@ On({"ErrVersionConflict"}, 412)
    @@ On({"ErrUnsupportedFile"}, 415) @@ On({"ErrFileTooLarge"}, 413)
    @@ On({"ErrRejectionReasonRequired", "ErrUnknownStatus", "ErrUnknownBranch",
           "ErrStaffBranchRequired", "ErrStaffNameRequired", "PolicyError",
           "ErrInvalidInviteRole", "ErrEmptyFile", "ErrInvalidCRNumber",
           "ErrArabicRequired", "ErrInvalidCityCode", "ErrAddressRequired",
           "ErrInvalidTimezone", "ErrInvalidCoordinates", "ErrTextTooLong",
           "ErrInvalidPhoneNumber", "ErrLegalNameRequired"}, 422)

BookingProblems ==
  NoPrincipal
    @@ On({"ErrSlotUnavailable", "ErrTooManyBookings", "ErrInvalidTransition",
           "ErrTooLateToCancel", "ErrNotStarted", "ErrBranchNotBookable"}, 409)
    @@ On({"ErrForbidden"}, 403) @@ On({"ErrNotFound"}, 404)
    @@ On({"ErrInvalidStart", "ErrIdempotencyReused", "ErrNoteTooLong",
           "ErrReasonTooLong", "errReasonNotAllowed", "ErrNoCustomer",
           "ErrCustomerNameTooLong", "ErrNoServices", "ErrServiceUnavailable",
           "ErrBarberUnavailable"}, 422)

CatalogProblems ==
  NoPrincipal
    @@ On({"ErrBadIfMatch"}, 400) @@ On({"ErrForbidden"}, 403)
    @@ On({"ErrNotFound"}, 404) @@ On({"ErrVersionConflict"}, 412)
    @@ On({"ErrUnknownCategory", "ErrArabicRequired", "ErrNameTooLong",
           "ErrTextTooLong", "ErrInvalidDuration", "ErrInvalidPrice",
           "ErrInvalidSort", "ErrUnknownStaff", "ErrDuplicateOffering",
           "ErrTooManyOfferings"}, 422)

SchedulingProblems ==
  NoPrincipal
    @@ On({"ErrBadIfMatch"}, 400) @@ On({"ErrForbidden"}, 403)
    @@ On({"ErrNotFound"}, 404) @@ On({"ErrVersionConflict"}, 412)
    @@ On({"ErrTimeOffOverlaps"}, 409)
    @@ On({"errBadTime", "ErrInvalidRange", "errDuplicateDate",
           "ErrInvalidWeekday", "ErrInvalidInterval", "ErrTooManyIntervals",
           "ErrOverlappingIntervals", "ErrInvalidDate", "ErrTooManyOverrides",
           "ErrScheduleClash", "ErrInvalidTimeOff", "ErrReasonTooLong"}, 422)

NotificationProblems ==
  NoPrincipal
    @@ On({"ErrNotFound"}, 404) @@ On({"ErrBadToken", "ErrBadPlatform"}, 422)

MediaProblems == On({"ErrLinkInvalid"}, 403) @@ On({"ErrNotFound"}, 404)

DiscoveryProblems ==
  On({"ErrUnknownCity", "ErrUnknownCategory"}, 422) @@ On({"ErrNotFound"}, 404)
    @@ On({"errBadCursor", "ErrNoPlace", "ErrQueryTooShort", "ErrRadius",
           "errHalfAPlace", "errRadiusAlone", "errBadCoordinates"}, 400)

Problems ==
  [iam |-> IamProblems, business |-> BusinessProblems,
   booking |-> BookingProblems, catalog |-> CatalogProblems,
   scheduling |-> SchedulingProblems, notification |-> NotificationProblems,
   media |-> MediaProblems, discovery |-> DiscoveryProblems]

problem(module, error) ==
  IF error \in DOMAIN Problems[module] THEN Problems[module][error] ELSE 500

=============================================================================
