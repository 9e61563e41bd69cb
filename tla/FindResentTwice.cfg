SPECIFICATION Spec
CONSTANTS
    MaxResends = 2
    MaxTracked = 2
    Protocols = {"meshtastic", "meshcore", "reticulum"}
    AnnounceResend = TRUE
    None = None
    MaxIds <- MCMaxIds
    MaxSends <- MCMaxSends
    MaxUser <- MCMaxUser
PROPERTY SupersededIsLeftAlone
CHECK_DEADLOCK FALSE
