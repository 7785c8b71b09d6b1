\* usbfluxd killed and restarted at any point, a second one and usbmuxd started
\* at any time.
CONSTANTS
    f1 = f1
    f2 = f2
    Flux = {f1, f2}
    NoUsbmuxd = {TRUE, FALSE}
SPECIFICATION FairSpec
INVARIANTS MuxBehind OneFront
PROPERTIES MuxNeverLost Restored ReadyWhenTold LauncherAnswered
