SPECIFICATION FairSpec
CONSTANTS
    None = None
    Modems = {m1, m2}
    Stick = Stick
    AtBoot = {m1}
    Sticky = {m2}
    MaxEvents = 2
    Dogs = {d1, d2}
INVARIANTS PptpStopped OwnSettings
PROPERTIES LinkRecovers ModemRecovers DisconnectObeyed
CHECK_DEADLOCK FALSE
