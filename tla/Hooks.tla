-------------------------------- MODULE Hooks --------------------------------
(***************************************************************************)
(* The data hooks of the web front end (hooks/use*.ts), one definition per *)
(* file or per part of a long one.  A query has a cache key, the server    *)
(* records its answer is made of, and may poll; a mutation writes records  *)
(* at the server and, when its answer is a success, invalidates cache keys.*)
(* What a mutation writes is read off the handler behind its path.  In a   *)
(* key "id" stands for the record at hand and "params" for filters and     *)
(* page.  Statistics over many records (analytics, platform metrics) read  *)
(* nothing that is tracked here.  Some hooks have no caller yet; they are  *)
(* listed because a page that takes one up inherits its keys.              *)
(***************************************************************************)
EXTENDS Naturals, Sequences

Query(name, key, reads) ==
  [kind |-> "query", name |-> name, key |-> key, reads |-> reads, polls |-> FALSE]

Polled(name, key, reads) ==
  [kind |-> "query", name |-> name, key |-> key, reads |-> reads, polls |-> TRUE]

\* A mutation whose onError raises a toast.
Mutation(name, writes, invalidates) ==
  [kind |-> "mutation", name |-> name, writes |-> writes,
   invalidates |-> invalidates, toast |-> TRUE]

\* One that leaves a failure to the page that called it.
Quiet(name, writes, invalidates) ==
  [kind |-> "mutation", name |-> name, writes |-> writes,
   invalidates |-> invalidates, toast |-> FALSE]

(***************************************************************************)
(* Administration.                                                         *)
(***************************************************************************)
UseAdminUsers == {
  Query("useAdminUsers", <<"admin", "users", "params">>, {"user", "account", "roles"}),
  Query("useAdminUser", <<"admin", "users", "id">>,
        {"user", "account", "roles", "business", "availability"}),
  Quiet("useSuspendUser", {"user"}, {<<"admin">>}),
  Quiet("useBanUser", {"user"}, {<<"admin">>}),
  Query("useVerificationQueue", <<"admin", "verification", "params">>, {"document"}),
  Quiet("useReviewDocument", {"document"}, {<<"admin", "verification">>})}

UseAdminContent == {
  Query("useAdminJobs", <<"admin", "jobs", "params">>, {"job"}),
  Quiet("useSuspendJob", {"job"}, {<<"admin", "jobs">>}),
  Quiet("useRemoveJob", {"job"}, {<<"admin", "jobs">>}),
  Query("useAdminDisputes", <<"admin", "disputes", "params">>, {"dispute"}),
  Query("useAdminDispute", <<"admin", "disputes", "id">>, {"dispute"}),
  Quiet("useResolveDispute", {"dispute", "contract"}, {<<"admin", "disputes">>}),
  Query("useAdminFlaggedReviews", <<"admin", "reviews", "flagged", "params">>,
        {"flag", "review"}),
  Quiet("useResolveReviewFlag", {"flag"}, {<<"admin", "reviews">>}),
  Quiet("useRemoveReview", {"review", "flag"}, {<<"admin", "reviews">>})}

UseAdminMoney == {
  Query("useAdminPayments", <<"admin", "payments", "params">>, {"payment"}),
  Query("useRevenueReport", <<"admin", "revenue", "params">>, {}),
  Quiet("useUpdateFeeConfig", {"fees"}, {<<"admin">>}),
  Query("usePlatformMetrics", <<"admin", "platform", "metrics", "params">>, {}),
  Query("useGrowthMetrics", <<"admin", "platform", "growth", "params">>, {}),
  Query("useCategoryMetrics", <<"admin", "platform", "categories", "params">>, {}),
  Query("useAdminPaymentDetails", <<"admin", "payments", "id">>, {"payment"})}

UseFraud == {
  Query("useFraudAlerts", <<"fraud-alerts", "params">>, {"fraud alert"}),
  Quiet("useReviewFraudAlert", {"fraud alert"}, {<<"fraud-alerts">>}),
  Query("useUserRiskProfile", <<"user-risk-profile", "id">>, {})}

\* A guarantee claim is a dispute with a flag: both lists read the same rows.
UseGuarantee == {
  Mutation("useSubmitGuaranteeClaim", {"dispute", "contract"},
           {<<"contract", "id">>, <<"guarantee-claim", "id">>}),
  Query("useGuaranteeClaim", <<"guarantee-claim", "id">>, {"dispute"}),
  Query("useAdminGuaranteeClaims", <<"admin", "guarantee-claims", "params">>, {"dispute"}),
  Mutation("useReviewGuaranteeClaim", {"dispute", "contract"}, {<<"admin", "guarantee-claims">>})}

UseChallenges == {
  Query("useActiveChallenges", <<"challenges", "active">>, {"challenge"}),
  Query("useMyChallenges", <<"challenges", "mine">>, {"challenge"}),
  Quiet("useJoinChallenge", {"challenge"}, {<<"challenges">>}),
  Query("useAdminChallenges", <<"challenges", "admin">>, {"challenge"}),
  Quiet("useCreateChallenge", {"challenge"}, {<<"challenges">>}),
  Query("useChallenge", <<"challenges", "detail", "id">>, {"challenge", "account"})}

(***************************************************************************)
(* Jobs, bids and contracts.                                               *)
(***************************************************************************)
UseJobs == {
  Query("useSearchJobs", <<"jobs", "search", "params">>, {"job"}),
  Query("useJob", <<"jobs", "id">>, {"job"}),
  Query("useCustomerJobs", <<"jobs", "mine", "params">>, {"job"}),
  Mutation("useCreateJob", {"job"}, {<<"jobs">>}),
  Mutation("useUpdateJob", {"job"}, {<<"jobs">>}),
  Mutation("usePublishJob", {"job"}, {<<"jobs">>}),
  Mutation("useDeleteDraft", {"job"}, {<<"jobs">>}),
  Mutation("useCancelJob", {"job"}, {<<"jobs">>}),
  Mutation("useCloseAuction", {"job"}, {<<"jobs">>}),
  Query("useCustomerDrafts", <<"jobs", "drafts", "params">>, {"job"})}

\* Placing and withdrawing change jobs.bid_count too; an award makes a contract.
UseBids == {
  Mutation("usePlaceBid", {"bid", "bid count", "job"},
           {<<"jobs", "id">>, <<"bidCount", "id">>, <<"bidsForJob", "id">>, <<"myBids">>}),
  Mutation("useUpdateBid", {"bid"},
           {<<"jobs">>, <<"bidCount">>, <<"bidsForJob">>, <<"myBids">>}),
  Mutation("useWithdrawBid", {"bid", "bid count", "job"},
           {<<"jobs">>, <<"bidCount">>, <<"bidsForJob">>, <<"myBids">>}),
  Mutation("bids.useAcceptOffer", {"bid", "bid count", "job"},
           {<<"jobs", "id">>, <<"bidCount", "id">>, <<"bidsForJob", "id">>, <<"myBids">>}),
  Mutation("useAwardBid", {"bid", "job", "new contract"},
           {<<"jobs", "id">>, <<"bidsForJob", "id">>, <<"myBids">>})}

UseBidQueries == {
  Query("useBidsForJob", <<"bidsForJob", "id">>, {"bid"}),
  Query("useMyBids", <<"myBids", "params">>, {"bid"}),
  Query("useBidCount", <<"bidCount", "id">>, {"bid count"}),
  Polled("useLiveAuctionState", <<"liveAuctionState", "id">>, {"bid", "bid count"}),
  Query("useSavings", <<"savings">>, {}),
  Query("useProviderStreaks", <<"providerStreaks">>, {}),
  Query("useAuctionEvents", <<"auctionEvents", "id">>, {"bid"})}

UseContracts == {
  Query("useContract", <<"contract", "id">>, {"contract"}),
  Query("useContracts", <<"contracts", "params">>, {"contract", "new contract"}),
  Mutation("useAcceptContract", {"contract", "job"}, {<<"contracts">>, <<"contract", "id">>}),
  Mutation("useStartWork", {"contract"}, {<<"contracts">>, <<"contract", "id">>}),
  Mutation("useMarkComplete", {"contract", "job", "completion"},
           {<<"contracts">>, <<"contract", "id">>}),
  Mutation("useApproveCompletion", {"contract", "job", "completion"},
           {<<"contracts">>, <<"contract", "id">>}),
  Mutation("useCancelContract", {"contract", "job"}, {<<"contracts">>, <<"contract", "id">>})}

UseMilestones == {
  Mutation("useSubmitMilestone", {"contract"}, {<<"contracts">>, <<"contract", "id">>}),
  Mutation("useApproveMilestone", {"contract"}, {<<"contracts">>, <<"contract", "id">>}),
  Mutation("useRequestRevision", {"contract"}, {<<"contracts">>, <<"contract", "id">>}),
  Mutation("useOpenDispute", {"dispute", "contract"}, {<<"contract", "id">>})}

\* The gateway keeps a filed dispute to itself: no contract changes.
UseDisputes == {
  Mutation("useFileDispute", {"filed dispute"}, {<<"disputes">>}),
  Query("useDispute", <<"dispute", "id">>, {"filed dispute"})}

UseReviews == {
  Query("useReviewEligibility", <<"reviewEligibility", "id">>, {"completion", "review"}),
  Query("useReviewsForUser", <<"reviews", "id", "params">>, {"review"}),
  Quiet("useCreateReview", {"review"},
        {<<"reviewEligibility", "id">>, <<"contract", "id">>, <<"reviews">>}),
  Query("useReview", <<"review", "id">>, {"review"}),
  Quiet("useRespondToReview", {"review"}, {<<"reviews">>}),
  Quiet("useFlagReview", {"flag"}, {<<"reviews">>})}

UseInstantMatch == {
  Polled("useProviderOffers", <<"provider-offers">>, {"offer"}),
  Mutation("match.useAcceptOffer", {"offer"}, {<<"provider-offers">>}),
  Mutation("useDeclineOffer", {"offer"}, {<<"provider-offers">>}),
  Mutation("useCreateInstantMatch", {"offer"}, {})}

UseWorkspace == {
  Polled("useWorkSession", <<"work-session", "id">>, {"work session"}),
  Mutation("useCheckIn", {"work session"}, {<<"work-session", "id">>}),
  Mutation("useCheckOut", {"work session"}, {<<"work-session", "id">>})}

UseUploadCompletionPhoto == {
  Mutation("useUploadCompletionPhoto", {"photo"}, {})}

UseViewerCount == {
  Polled("useViewerCount", <<"viewer-count", "id">>, {"viewers"})}

(***************************************************************************)
(* Money.                                                                  *)
(***************************************************************************)
UsePayments == {
  Query("usePayments", <<"payments", "params">>, {"payment"}),
  Query("usePaymentMethods", <<"payment-methods">>, {"payment method"}),
  Mutation("useDeletePaymentMethod", {"payment method"}, {<<"payment-methods">>}),
  Mutation("useCreateSetupIntent", {}, {}),
  Query("usePayment", <<"payment", "id">>, {"payment"}),
  Mutation("useCreatePayment", {"payment"}, {<<"payments">>}),
  Mutation("useProcessPayment", {"payment"}, {<<"payments">>, <<"payment", "id">>}),
  Quiet("useCalculateFees", {}, {})}

UseStripeAccount == {
  Query("useStripeAccountStatus", <<"stripe-account-status">>, {"stripe account"}),
  Mutation("useCreateStripeAccount", {"stripe account"}, {<<"stripe-account-status">>}),
  Mutation("useInstantPayout", {"payment"},
           {<<"payments">>, <<"provider-analytics">>, <<"provider-earnings">>}),
  Query("useStripeOnboardingLink", <<"stripe-onboarding-link", "params">>, {})}

UseInstallments == {
  Query("useInstallmentPlan", <<"installment-plan", "id">>, {"installment plan"}),
  Mutation("useCreateInstallmentPlan", {"installment plan"},
           {<<"installment-plans">>, <<"payments">>}),
  Query("useMyInstallmentPlans", <<"installment-plans">>, {"installment plan"})}

UseWorkingCapital == {
  Query("useMyAdvances", <<"my-advances">>, {"advance"}),
  Query("useCreditLimit", <<"credit-limit">>, {"advance"}),
  Mutation("useRequestAdvance", {"advance"}, {<<"my-advances">>, <<"credit-limit">>}),
  Query("useAdminAdvances", <<"admin-advances", "params">>, {"advance"}),
  Mutation("useReviewAdvance", {"advance"}, {<<"admin-advances">>}),
  Mutation("useDisburseAdvance", {"advance"}, {<<"admin-advances">>})}

UseInsurance == {
  Query("useInsurancePolicy", <<"insurance-policy", "id">>, {"policy"}),
  Mutation("useFileInsuranceClaim", {"insurance claim"},
           {<<"my-policies">>, <<"insurance-claims">>}),
  Query("useAdminInsuranceClaims", <<"admin-insurance-claims", "params">>, {"insurance claim"}),
  Mutation("useReviewInsuranceClaim", {"insurance claim", "policy"},
           {<<"admin-insurance-claims">>}),
  Query("useInsuranceProducts", <<"insurance-products">>, {}),
  Query("useInsuranceQuote", <<"insurance-quote", "id", "params">>, {}),
  Mutation("usePurchaseInsurance", {"policy"}, {<<"my-policies">>}),
  Query("useMyPolicies", <<"my-policies">>, {"policy"}),
  Query("useInsuranceClaim", <<"insurance-claim", "id">>, {"insurance claim"})}

UseSubscription == {
  Query("useTiers", <<"subscription-tiers">>, {}),
  Query("useSubscription", <<"subscription">>, {"subscription"}),
  Query("useUsage", <<"subscription-usage">>, {"subscription"}),
  Query("useInvoices", <<"subscription-invoices">>, {}),
  Quiet("useCancelSubscription", {"subscription"}, {<<"subscription">>}),
  Quiet("useChangeTier", {"subscription"}, {<<"subscription">>, <<"subscription-usage">>}),
  Quiet("useCreateSubscription", {"subscription"},
        {<<"subscription">>, <<"subscription-usage">>})}

UseExpenses == {
  Query("useExpenses", <<"expenses", "params">>, {"expense"}),
  Mutation("useCreateExpense", {"expense"}, {<<"expenses">>}),
  Mutation("useDeleteExpense", {"expense"}, {<<"expenses">>})}

UseTaxForms == {
  Query("useTaxForms", <<"tax-forms">>, {"tax form"}),
  Mutation("useGenerateTaxForm", {"tax form"}, {<<"tax-forms">>}),
  Mutation("useGenerateInvoice", {"invoice"}, {<<"invoices">>})}

UseAnalytics == {
  Query("useProviderAnalytics", <<"provider-analytics", "params">>, {}),
  Query("useProviderEarnings", <<"provider-earnings", "params">>, {}),
  Query("useCustomerSpending", <<"customer-spending", "params">>, {}),
  Query("useMarketRange", <<"market-range", "params">>, {})}

UsePricing == {
  Query("usePricingOverview", <<"pricing", "overview">>, {}),
  Query("usePricingByCategory", <<"pricing", "id", "params">>, {})}

(***************************************************************************)
(* Accounts, providers, messages.                                          *)
(***************************************************************************)
UseProfile == {
  Query("useProfile", <<"profile">>, {"account", "roles", "mfa", "email"}),
  Quiet("useUpdateProfile", {"account"}, {<<"profile">>}),
  Quiet("useEnableRole", {"roles", "business"}, {<<"profile">>})}

UseMFA == {
  Quiet("useEnableMFA", {}, {}),
  Quiet("useVerifyMFASetup", {"mfa"}, {<<"profile">>}),
  Quiet("useDisableMFA", {"mfa"}, {<<"profile">>}),
  Quiet("useVerifyMFALogin", {}, {})}

\* What GetProviderProfile answers, to the provider and to the public alike.
ProviderRecords == {"business", "terms", "categories", "portfolio", "availability"}

UseProviderProfile == {
  Query("useProviderProfile", <<"providerProfile">>, ProviderRecords),
  Quiet("useUpdateProviderProfile", {"business"}, {<<"providerProfile">>}),
  Quiet("useSetGlobalTerms", {"terms"}, {<<"providerProfile">>}),
  Quiet("useUpdateCategories", {"categories"}, {<<"providerProfile">>}),
  Quiet("useUpdatePortfolio", {"portfolio"}, {<<"providerProfile">>}),
  Quiet("useUploadVerificationDocument", {"document"}, {<<"providerProfile">>}),
  Quiet("useSetAvailability", {"availability"}, {<<"providerProfile">>})}

\* The search joins accounts, profiles, categories and reviews.
UseProviders == {
  Query("useSearchProviders", <<"providers", "params">>,
        {"user", "account", "roles", "business", "categories", "availability", "review"}),
  Query("usePublicProviderProfile", <<"provider", "id">>, ProviderRecords)}

UseTrustScore == {
  Query("useTrustScore", <<"trust-score", "id">>, {}),
  Query("useTierRequirements", <<"tier-requirements">>, {}),
  Query("useTrustHistory", <<"trust-history", "id", "params">>, {})}

UseEmployees == {
  Query("useEmployees", <<"employees">>, {"employee"}),
  Mutation("useAddEmployee", {"employee"}, {<<"employees">>}),
  Mutation("useUpdateEmployee", {"employee"}, {<<"employees">>}),
  Mutation("useRemoveEmployee", {"employee"}, {<<"employees">>})}

UseProperties == {
  Query("useProperties", <<"properties">>, {"property"}),
  Mutation("useCreateProperty", {"property"}, {<<"properties">>}),
  Mutation("useDeleteProperty", {"property"}, {<<"properties">>}),
  Mutation("useUpdateProperty", {"property"}, {<<"properties">>})}

UseCategories == {
  Query("useCategories", <<"categories", "params">>, {}),
  Query("useCategoryTree", <<"categoryTree">>, {})}

UseNotifications == {
  Query("useNotifications", <<"notifications", "params">>, {"notification"}),
  Polled("notifications.useUnreadCount", <<"notification-unread-count">>, {"notification"}),
  Quiet("useMarkAsRead", {"notification"},
        {<<"notifications">>, <<"notification-unread-count">>}),
  Quiet("useMarkAllAsRead", {"notification"},
        {<<"notifications">>, <<"notification-unread-count">>}),
  Query("useNotificationPreferences", <<"notification-preferences">>, {"preference"}),
  Quiet("useUpdatePreferences", {"preference"}, {<<"notification-preferences">>})}

UseChannels == {
  Query("useChannels", <<"channels", "params">>, {"message", "read mark"}),
  Query("useChannel", <<"channel", "id">>, {"message", "read mark"}),
  Query("useMessages", <<"messages", "id", "params">>, {"message"}),
  Polled("channels.useUnreadCount", <<"unread-count">>, {"message", "read mark"}),
  Quiet("useSendMessage", {"message"},
        {<<"messages", "id">>, <<"channels">>, <<"channel", "id">>, <<"unread-count">>}),
  Quiet("useMarkRead", {"read mark"},
        {<<"channels">>, <<"channel", "id">>, <<"unread-count">>})}

\* Requests the account pages send through lib/api.ts without a hook.
DirectRequests == {
  Quiet("forgot-password", {}, {}), Quiet("reset-password", {}, {}),
  Quiet("verify-email", {"email"}, {}), Quiet("change-password", {}, {})}

AllHooks ==
  DirectRequests \cup UseAdminUsers \cup UseAdminContent \cup UseAdminMoney \cup UseFraud \cup
  UseGuarantee \cup UseChallenges \cup UseJobs \cup UseBids \cup UseBidQueries \cup
  UseContracts \cup UseMilestones \cup UseDisputes \cup UseReviews \cup
  UseInstantMatch \cup UseWorkspace \cup UseUploadCompletionPhoto \cup
  UseViewerCount \cup UsePayments \cup UseStripeAccount \cup UseInstallments \cup
  UseWorkingCapital \cup UseInsurance \cup UseSubscription \cup UseExpenses \cup
  UseTaxForms \cup UseAnalytics \cup UsePricing \cup UseProfile \cup UseMFA \cup
  UseProviderProfile \cup UseProviders \cup UseTrustScore \cup UseEmployees \cup
  UseProperties \cup UseCategories \cup UseNotifications \cup UseChannels

Queries == {h \in AllHooks : h.kind = "query"}
Mutations == {h \in AllHooks : h.kind = "mutation"}
Hook(n) == CHOOSE h \in AllHooks : h.name = n

\* What the chat socket's message and unread_update events invalidate.
UseWebSocketMessages ==
  {<<"messages", "id">>, <<"channels">>, <<"channel", "id">>, <<"unread-count">>}

\* invalidateQueries matches a key by prefix.
Matches(prefix, key) ==
  Len(prefix) <= Len(key) /\ prefix = SubSeq(key, 1, Len(prefix))
=============================================================================
