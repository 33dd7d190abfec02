CONSTANTS
    r1 = r1
    r2 = r2
    cmd = cmd
    chat = chat
    admin = admin
    NoChannel = NoChannel
    NoRole = NoRole
    Role = {admin}
    Rcon <- MCRcon
    Channel <- MCChannel
    CommandChannel <- MCCommandChannel
    DefaultChannel <- MCDefaultChannel
    Route <- MCRoute
    Show <- MCShow
    Permissions <- MCPermissions
    Actions <- MCActions
    UserTexts <- MCUserTexts
    GameTexts <- MCGameTexts
    MaxPosts = 1
    MaxChats = 1
    Texts <- MCTexts
SPECIFICATION MessagesSpec
INVARIANTS
    NothingLost
    MessagesFit
    BundledToTheMax
    GameTextNeverCommands
PROPERTY
    EventuallySilent
CHECK_DEADLOCK FALSE
