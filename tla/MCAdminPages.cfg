SPECIFICATION PagesSpec
CONSTANTS
    Scenes = {"providers", "crud", "users", "subs", "files", "import", "oauth", "ampcode"}
    ProviderKind = "claude"
    AuthIds = {1, 2}
    FirstAuths <- MCFirstAuths
    Settings = {"a"}
    MaxChanges = 1
    MaxUnderWay = 2
    CrudPages = {"announcements", "codes", "groups"}
    Texts = {"a"}
    GroupNames = {"default", "vip"}
    MaxCrudCalls = 2
    MaxLives = 2
    UserIds = {1, 2}
    FirstUsers = {1}
    MaxBalance = 1
    MaxUserCalls = 2
    SubIds = {1}
    Limits = {5}
    MaxUse = 1
    MaxSubCalls = 2
    CredIds = {1, 2, 3}
    Labels = {"a", "b"}
    FirstFiles <- MCFirstFiles
    MaxFileCalls = 2
    GoodFiles = {"a"}
    BadFiles = {"x"}
    MaxImports = 2
    MaxUploads = 2
    OAuthStarts = 2
    OAuthLoops = 2
    OAuthProviders <- MCProviders
    AmpTexts = {"a"}
    HttpTexts = {"a"}
    AmpPairs = {"p"}
    AmpModels = {"m"}
    MaxMappings = 1
    MaxAmpEdits = 2
    MaxAmpCalls = 2
    MaxAmpSent = 3
    MaxAmpLoads = 2
INVARIANTS
    KeysAreReal RowsNameTheirItem DeletedWereConfirmed UsageNeverInvented 
     UploadSendsWhatIsShown
     PollingServed KeptAsShown

    
CONSTRAINT MCJudged
CHECK_DEADLOCK FALSE
