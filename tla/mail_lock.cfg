\* The sender of mail and a user who edits the message.
SPECIFICATION Spec
CONSTANTS
    u1 = u1
    u2 = u2
    u3 = u3
    User = {u1, u2}
    Tab <- MCOneTab
    Life = 3
    PollTime = 2
    None = None
PROPERTIES
    MailWaitsForEditor
