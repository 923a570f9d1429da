CONSTANTS
    bob = bob bobPhone = bobPhone bobLaptop = bobLaptop ownLaptop = ownLaptop
    None = None laptopBox = laptopBox ownBox = ownBox
    Contact = {bob}
    Device = {bobPhone, bobLaptop, ownLaptop}
    OwnDevice = {ownLaptop}
    MailboxOf <- MCMailboxOf
    Limit = 1
    MaxMessages = 2
    MaxImports = 1
SPECIFICATION ConversationsSpec
CHECK_DEADLOCK FALSE
INVARIANT OpenChatIsLive
