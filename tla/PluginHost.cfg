SPECIFICATION FairHostSpec
INVARIANT HostInv
PROPERTIES QuietAfterStop CallsReturn
