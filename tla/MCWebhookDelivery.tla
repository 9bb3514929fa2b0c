-------------------------- MODULE MCWebhookDelivery --------------------------
EXTENDS WebhookDelivery
============================================================================
