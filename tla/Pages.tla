-------------------------------- MODULE Pages --------------------------------
(***************************************************************************)
(* What the pages of the web front end are made of: the queries a page     *)
(* shows and the controls that send mutations.  One definition per page,   *)
(* and one per component with controls of its own.                         *)
(*                                                                         *)
(* A control is                                                            *)
(*   hook   the mutation it sends,                                         *)
(*   call   "mutate" (callbacks given to mutate() are dropped once the     *)
(*          component has unmounted) or "async" (what follows the awaited  *)
(*          mutateAsync() runs wherever the user is by then),              *)
(*   busy   the mutations whose isPending disables it ({}: none does),     *)
(*   shown  whether the page itself shows a failure,                       *)
(*   done   what success does: "stay", "close" whatever dialog or form is  *)
(*          open on the page, or the page it navigates to.                 *)
(***************************************************************************)
EXTENDS Hooks

Click(h) == [hook |-> h, call |-> "mutate", busy |-> {h}, shown |-> TRUE, done |-> "stay"]
Await(h, done) == [hook |-> h, call |-> "async", busy |-> {h}, shown |-> TRUE, done |-> done]
Mute(c) == [c EXCEPT !.shown = FALSE]
Unguarded(c) == [c EXCEPT !.busy = {}]
Sharing(c, hooks) == [c EXCEPT !.busy = hooks]
Then(c, target) == [c EXCEPT !.done = target]

\* A page: views (tabs, filters, pages of a list) beside the one opened with, a
\* retry button when loading failed, and queries whose every answer that differs
\* resets the form on the page.
Page(name, area, shows, controls) ==
  [name |-> name, area |-> area, shows |-> shows, controls |-> controls,
   views |-> FALSE, retry |-> FALSE, reseeds |-> {}]
Paged(p) == [p EXCEPT !.views = TRUE]
WithRetry(p) == [p EXCEPT !.retry = TRUE]

(***************************************************************************)
(* Administration.                                                         *)
(***************************************************************************)
\* ActionConfirmDialog: loading disables its buttons, not Escape or the backdrop.
ActionConfirmDialog(h, loading) == Sharing(Mute(Await(h, "close")), loading)

AdminOverviewPage == Page("admin", "admin", {"usePlatformMetrics"}, {})
AdminVerificationPage == Paged(Page("admin/verification", "admin", {"useVerificationQueue"},
  {ActionConfirmDialog("useReviewDocument", {"useReviewDocument"})}))
AdminJobsPage == Paged(Page("admin/jobs", "admin", {"useAdminJobs"},
  {ActionConfirmDialog(h, {"useSuspendJob", "useRemoveJob"}) :
     h \in {"useSuspendJob", "useRemoveJob"}}))
AdminUsersPage == Paged(Page("admin/users", "admin", {"useAdminUsers"},
  {ActionConfirmDialog(h, {"useSuspendUser", "useBanUser"}) :
     h \in {"useSuspendUser", "useBanUser"}}))
AdminUserDetailPage == Page("admin/users/id", "admin", {"useAdminUser"},
  {ActionConfirmDialog(h, {"useSuspendUser", "useBanUser"}) :
     h \in {"useSuspendUser", "useBanUser"}})
AdminReviewsPage == Paged(Page("admin/reviews", "admin", {"useAdminFlaggedReviews"},
  {ActionConfirmDialog("useResolveReviewFlag", {"useResolveReviewFlag"})}))
AdminPlatformPage == Paged(Page("admin/platform", "admin",
  {"usePlatformMetrics", "useGrowthMetrics", "useCategoryMetrics"}, {}))
AdminDisputesPage == Paged(Page("admin/disputes", "admin", {"useAdminDisputes"}, {}))
AdminDisputeDetailPage == Page("admin/disputes/id", "admin", {"useAdminDispute"},
  {Await("useResolveDispute", "admin/disputes")})
AdminGuaranteePage == Paged(Page("admin/guarantee", "admin", {"useAdminGuaranteeClaims"}, {}))
\* Approving and rejecting both end in onResolved, which navigates.
GuaranteeClaimReview == {Await("useReviewGuaranteeClaim", "admin/guarantee")}
AdminGuaranteeClaimDetailPage ==
  Page("admin/guarantee/id", "admin", {"useAdminDispute"}, GuaranteeClaimReview)
ClaimActions == {Mute(Click("useReviewInsuranceClaim"))}
AdminInsuranceClaimsPage ==
  Paged(Page("admin/insurance", "admin", {"useAdminInsuranceClaims"}, ClaimActions))
FraudAlertDetail == {Await("useReviewFraudAlert", "stay")}
FraudAlertList == {"useFraudAlerts"}
AdminFraudPage == Paged(Page("admin/fraud", "admin", FraudAlertList, FraudAlertDetail))
AdminPaymentsPage == Paged(Page("admin/payments", "admin",
  {"useAdminPayments", "useRevenueReport"}, {Await("useUpdateFeeConfig", "stay")}))
AdvanceActions == {Mute(Click("useReviewAdvance")), Mute(Click("useDisburseAdvance"))}
AdminAdvancesPage == Paged(Page("admin/advances", "admin", {"useAdminAdvances"}, AdvanceActions))
ChallengeManager == Page("admin/challenges", "admin", {"useAdminChallenges"},
  {Mute(Click("useCreateChallenge"))})
AdminTaxonomyPage == Page("admin/taxonomy", "admin", {"useCategoryTree"}, {})

AdminPages ==
  {AdminOverviewPage, AdminVerificationPage, AdminJobsPage, AdminUsersPage,
   AdminUserDetailPage, AdminReviewsPage, AdminPlatformPage, AdminDisputesPage,
   AdminDisputeDetailPage, AdminGuaranteePage, AdminGuaranteeClaimDetailPage,
   AdminInsuranceClaimsPage, AdminFraudPage, AdminPaymentsPage, AdminAdvancesPage,
   ChallengeManager, AdminTaxonomyPage}

(***************************************************************************)
(* Jobs, bids and contracts.                                               *)
(***************************************************************************)
MyJobsPage == Paged(Page("jobs/mine", "member", {"useCustomerJobs"},
  {Mute(Click("usePublishJob")), Mute(Click("useDeleteDraft"))}))
CategorySelector == {"useCategoryTree"}
JobPostingForm == Page("jobs/new", "member", {"useCategories"} \cup CategorySelector,
  {Await("useCreateJob", "jobs/mine")})
RecurringJobCard == {Mute(Click("useUpdateJob")), Mute(Click("useCancelJob"))}
RecurringJobsPage ==
  WithRetry(Page("jobs/recurring", "member", {"useCustomerJobs"}, RecurringJobCard))
ProviderBidCard == {Click("useUpdateBid"), Click("useWithdrawBid")}
MyBidsPage == WithRetry(Paged(Page("bids", "member", {"useMyBids"}, ProviderBidCard)))
ContractsPage == WithRetry(Paged(Page("contracts", "member", {"useContracts"}, {})))
ContractAcceptance == {Click("useAcceptContract"), Click("useCancelContract")}
MilestoneCard == {Click("useSubmitMilestone"), Click("useApproveMilestone"),
                  Click("useRequestRevision")}
CompletionFlow == {Click("useMarkComplete"), Click("useApproveCompletion"),
                   Click("useRequestRevision")}
ContractActions == {Click("useStartWork"), Click("useMarkComplete"),
                    Click("useApproveCompletion"), Click("useCancelContract")}
ReviewSection == {"useReviewEligibility"}
ContractDetailPage == Page("contracts/id", "member",
  {"useContract", "useSavings"} \cup ReviewSection,
  ContractActions \cup ContractAcceptance \cup MilestoneCard \cup CompletionFlow)
ReviewForm == {Then(Click("useCreateReview"), "contracts/id")}
ReviewPage == Page("contracts/id/review", "member",
  {"useContract", "useReviewEligibility"}, ReviewForm)
GuaranteeClaimForm == {Then(Click("useSubmitGuaranteeClaim"), "contracts/id")}
GuaranteeClaimPage == Page("contracts/id/guarantee-claim", "member",
  {"useContract", "useGuaranteeClaim"}, GuaranteeClaimForm)
DisputeForm == Page("disputes/new", "member", {"useContracts"},
  {Mute(Await("useFileDispute", "stay"))})

JobSearchFilters == {"useCategoryTree"}
JobsSearchPage ==
  WithRetry(Paged(Page("jobs", "public", {"useSearchJobs"} \cup JobSearchFilters, {})))
JobsMapPage == WithRetry(Paged(Page("jobs/map", "public", {"useSearchJobs"}, {})))
BidForm ==
  {Sharing(Click(h), {"usePlaceBid", "useUpdateBid"}) : h \in {"usePlaceBid", "useUpdateBid"}}
  \cup {Click("bids.useAcceptOffer")}
BidCard == {Click("useAwardBid")}
BidList == {"useBidsForJob"}
BidSuggestion == {"usePricingByCategory"}
BidPlacementPanel == {Mute(Click("usePlaceBid"))}
JobDetailPage == WithRetry(Page("jobs/id", "public",
  {"useJob", "useBidCount", "useViewerCount"} \cup BidList \cup BidSuggestion,
  BidForm \cup BidCard \cup BidPlacementPanel))
SpectatorPage == Page("auctions/id/spectate", "public", {"useJob"}, {})
ProvidersPage == WithRetry(Paged(Page("providers", "public", {"useSearchProviders"}, {})))
ProviderProfilePage == WithRetry(Page("providers/id", "public",
  {"usePublicProviderProfile", "useReviewsForUser"}, {}))
PriceHeatMap == {"usePricingOverview"}
CategoryOverview == {"usePricingOverview"}
CategoryDetail == {"usePricingByCategory"}
PricingPageContent == Paged(Page("pricing", "public",
  PriceHeatMap \cup CategoryOverview \cup CategoryDetail, {}))

JobPages ==
  {MyJobsPage, JobPostingForm, RecurringJobsPage, MyBidsPage, ContractsPage,
   ContractDetailPage, ReviewPage, GuaranteeClaimPage, DisputeForm, JobsSearchPage,
   JobsMapPage, JobDetailPage, SpectatorPage, ProvidersPage, ProviderProfilePage,
   PricingPageContent}

(***************************************************************************)
(* Accounts and settings.                                                  *)
(***************************************************************************)
CustomerDashboard == {"useCustomerJobs", "useContracts", "usePayments", "useCustomerSpending"}
ProviderDashboardSection == {"useMyBids", "useContracts", "usePayments", "useProviderEarnings"}
DashboardPage == Page("dashboard", "member",
  CustomerDashboard \cup ProviderDashboardSection \cup {"useProfile", "useSavings"}, {})
ProviderAnalyticsView == {"useProviderAnalytics", "useProviderEarnings"}
CustomerAnalyticsView == {"useCustomerSpending"}
AnalyticsPage == WithRetry(Paged(Page("analytics", "member",
  ProviderAnalyticsView \cup CustomerAnalyticsView, {})))
\* ProfileForm takes its values from the profile when it opens.
ProfileForm == {Mute(Await("useUpdateProfile", "close"))}
ProfilePage == Page("profile", "member", {"useProfile", "useProviderProfile"},
  ProfileForm \cup {Mute(Await("useEnableRole", "provider/onboarding"))})
PaymentsPage == WithRetry(Paged(Page("payments", "member", {"usePayments"}, {})))
InstallmentPlanDetailPage ==
  Page("payments/installments/id", "member", {"useInstallmentPlan"}, {})
InsuranceClaimForm == {Click("useFileInsuranceClaim")}
InsurancePolicyDetailPage ==
  Page("insurance/id", "member", {"useInsurancePolicy"}, InsuranceClaimForm)
PropertiesPage == WithRetry(Page("properties", "member", {"useProperties"},
  {Mute(Await("useCreateProperty", "close")),
   Unguarded(Mute(Await("useDeleteProperty", "close")))}))
\* The bell of the header and the notifications page send the same two requests.
NotificationBell == {Unguarded(Mute(Await("useMarkAsRead", "stay"))),
                     Mute(Await("useMarkAllAsRead", "stay"))}
NotificationsPage == WithRetry(Paged(Page("notifications", "member",
  {"useNotifications", "notifications.useUnreadCount"}, NotificationBell)))
\* The effect on [data] overwrites the form with every answer that differs.
NotificationPreferencesPage ==
  [Page("settings/notifications", "member", {"useNotificationPreferences"},
        {Mute(Await("useUpdatePreferences", "stay"))})
     EXCEPT !.reseeds = {"useNotificationPreferences"}]
AddPaymentMethodForm == {Await("useCreateSetupIntent", "stay")}
PaymentMethodsPage == Page("settings/payment-methods", "member",
  {"usePaymentMethods", "useStripeAccountStatus"},
  AddPaymentMethodForm \cup
  {Unguarded(Mute(Await("useDeletePaymentMethod", "close"))),
   Mute(Await("useCreateStripeAccount", "stay"))})
SubscriptionPage == Page("settings/subscription", "member",
  {"useTiers", "useSubscription", "useUsage", "useInvoices"},
  {Unguarded(Await("useChangeTier", "stay")), Await("useCancelSubscription", "close")})
MFASection == {Await(h, "stay") : h \in {"useEnableMFA", "useVerifyMFASetup", "useDisableMFA"}}
SecuritySettingsPage == Page("settings/security", "member", {"useProfile"},
  MFASection \cup {Await("change-password", "stay")})
ChannelList == {"useChannels"}
\* The thread marks its channel read whenever it has loaded.
MessageThread == [shows |-> {"useMessages"},
                  controls |-> {Unguarded(Mute(Await("useMarkRead", "stay")))}]
MessageInput == {Mute(Await("useSendMessage", "stay"))}
MessagesPage == Paged(Page("messages", "member",
  {"useChannel"} \cup ChannelList \cup MessageThread.shows,
  MessageInput \cup MessageThread.controls))
ForgotPasswordForm == Page("forgot-password", "public", {}, {Await("forgot-password", "stay")})
ResetPasswordContent == Page("reset-password", "public", {}, {Await("reset-password", "stay")})
VerifyEmailContent == Page("verify-email", "public", {}, {Await("verify-email", "stay")})

AccountPages ==
  {DashboardPage, AnalyticsPage, ProfilePage, PaymentsPage, InstallmentPlanDetailPage,
   InsurancePolicyDetailPage, PropertiesPage, NotificationsPage,
   NotificationPreferencesPage, PaymentMethodsPage, SubscriptionPage,
   SecuritySettingsPage, MessagesPage, ForgotPasswordForm, ResetPasswordContent,
   VerifyEmailContent}

(***************************************************************************)
(* Providers.                                                              *)
(***************************************************************************)
InstantPayoutButton == {Mute(Click("useInstantPayout"))}
ProviderDashboardPage == Page("provider", "member",
  {"useProviderProfile", "useProviderAnalytics", "useProviderEarnings", "useMyBids",
   "useTrustScore", "useTierRequirements", "useProviderStreaks", "useCreditLimit"},
  InstantPayoutButton)
\* One request serves every card: the page never looks at its isPending.
AddEmployeeForm == {Mute(Await("useAddEmployee", "provider/team"))}
EmployeeCard == {Unguarded(Mute(Click("useUpdateEmployee")))}
TeamManagementPage == Page("provider/team", "member", {"useEmployees"},
  AddEmployeeForm \cup EmployeeCard)
ProviderBusinessPage == Page("provider/business", "member",
  {"useProviderAnalytics", "useExpenses"}, {})
InvoicesPage == Page("provider/business/invoices", "member",
  {"useContracts", "useProviderProfile"}, {Click("useGenerateInvoice")})
TaxCenterPage == Paged(Page("provider/business/tax", "member",
  {"useProviderEarnings", "useTaxForms"}, {Click("useGenerateTaxForm")}))
ExpensesPage == Page("provider/business/expenses", "member", {"useExpenses"},
  {Mute(Click("useDeleteExpense")), Click("useCreateExpense")})
OfferCard == {Sharing(Mute(Await(h, "stay")), {"match.useAcceptOffer", "useDeclineOffer"}) :
                h \in {"match.useAcceptOffer", "useDeclineOffer"}}
ProviderOffersPage == Page("provider/offers", "member", {"useProviderOffers"}, OfferCard)
CheckInOut == {Sharing(Mute(Click(h)), {"useCheckIn", "useCheckOut"}) :
                 h \in {"useCheckIn", "useCheckOut"}}
CompletionPhotos == {Mute(Click("useUploadCompletionPhoto")), Mute(Click("useMarkComplete"))}
ProviderWorkspacePage == Page("provider/workspace", "member",
  {"useContracts", "useWorkSession"}, CheckInOut \cup CompletionPhotos)
\* The error banner sends the same request again, and only shows when none is pending.
ProviderAdvancesPage == WithRetry(Page("provider/advances", "member",
  {"useMyAdvances", "useContracts", "useCreditLimit"}, {Click("useRequestAdvance")}))
\* joiningId remembers one card only: joining a second re-enables the first.
ChallengeCard == {Unguarded(Mute(Click("useJoinChallenge")))}
ProviderChallengesPage == Page("provider/challenges", "member",
  {"useActiveChallenges", "useMyChallenges"}, ChallengeCard)
StripeOnboarding == {Await("useCreateStripeAccount", "stay")}
BusinessInfoStep == {Mute(Await("useUpdateProviderProfile", "stay"))}
CategoriesStep == {Mute(Await("useUpdateCategories", "stay"))}
ServiceAreaStep == {Mute(Await("useUpdateProviderProfile", "stay"))}
GlobalTermsStep == {Mute(Await("useSetGlobalTerms", "stay"))}
PortfolioStep == {Mute(Await("useUpdatePortfolio", "stay"))}
DocumentVerificationStep == {Await("useUploadVerificationDocument", "stay")}
ProviderOnboardingPage ==
  [Page("provider/onboarding", "member",
        {"useProviderProfile", "useStripeAccountStatus"} \cup CategorySelector,
        BusinessInfoStep \cup CategoriesStep \cup ServiceAreaStep \cup GlobalTermsStep
          \cup PortfolioStep \cup DocumentVerificationStep \cup StripeOnboarding)
     EXCEPT !.reseeds = {"useProviderProfile"}]

ProviderPages ==
  {ProviderDashboardPage, TeamManagementPage, ProviderBusinessPage, InvoicesPage,
   TaxCenterPage, ExpensesPage, ProviderOffersPage, ProviderWorkspacePage,
   ProviderAdvancesPage, ProviderChallengesPage, ProviderOnboardingPage}

AllPages == AdminPages \cup JobPages \cup AccountPages \cup ProviderPages
=============================================================================
