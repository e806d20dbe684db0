SPECIFICATION FairLinkSpec
PROPERTY AgreesInTheEnd
PROPERTY WipedOnceUnlessAuto
CONSTANTS
  EventLoop = EventLoop  Threads = {t1}
  AutoSid = AutoSid  NoSession = NoSession  Nothing = Nothing
  MaxSid = 2  MaxFrames = 1  MaxDelayed = 1
