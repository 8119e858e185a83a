SPECIFICATION Spec
CONSTANTS
  Syncers = {watcher, manual}
  Inbox = Inbox
  Synced = {A, B}
  ReadOrder <- MCFileOrder
  WriteOrder <- MCFileOrder
  Texts = {t1, t2, t3}
  NewText = t1
  MaxRetries = 2
  MaxEvents = 2
INVARIANTS TypeOK NoSilentLoss
PROPERTIES InboxUntouched Settles
